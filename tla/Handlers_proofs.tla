-------------------------- MODULE Handlers_proofs --------------------------
(* Theorems about what a request meets: on its way the rate limiter, the     *)
(* audit log and the metrics, and at the end of it the vault handlers and    *)
(* the replay cache of /decrypt.                                             *)
EXTENDS RequestPath, Vault, ReplayCache, FiniteSetTheorems, SequenceTheorems, TLAPS

-----------------------------------------------------------------------------
(* The audit log: whatever requests do meanwhile, every part of the log      *)
(* verifies, and every alteration of it is found at the first altered entry. *)


Hashes == Seq([seq: Nat, event: Events])
LogEntry == [Sequence: Nat, Event: Events, PrevHash: Hashes, Hash: Hashes, Signature: Hashes]

LastHash(list) == IF list = <<>> THEN genesisHash ELSE list[Len(list)].Hash

\* The log is a chain: each entry is the Signed one for its place, its event and
\* its predecessor's hash, and prevHash is the hash of the last.
ChainInv ==
    /\ entries \in Seq(LogEntry)
    /\ \A i \in DOMAIN entries : Holds(entries, i)
    /\ prevHash = LastHash(entries)

\* A request has the shape of its place, is in the limiter exactly in the place
\* for it, and what it is about to log is an event.
LoggedInv ==
    /\ request \in [Goroutines -> Serving]
    /\ call = [g \in Goroutines |-> call[g]]
    /\ \A g \in Goroutines :
          /\ call[g] # NoCall => At(g, "limit")
          /\ At(g, "log") => request[g].outcome.logged \in {"ok", "failed"}

-----------------------------------------------------------------------------
LEMMA OutcomesTyped ==
    ASSUME PathAssumption, NEW kind \in Kinds, NEW o \in Outcomes[kind]
    PROVE  /\ o \in AllOutcomes
           /\ o.status \in Statuses
           /\ o.logged = "none" \/ o.logged \in {"ok", "failed"}
<1>1. kind \in {"issue", "verify", "revoke", "split", "reconstruct", "ready"}
  BY DEF PathAssumption
<1>2. /\ o.status \in {"ok", "bad", "denied", "failed"}
      /\ o.logged \in {"none", "ok", "failed"}
  BY <1>1 DEF Outcomes, HandleIssueToken, HandleVerifyToken, HandleRevokeToken, HandleVaultSplit,
      HandleVaultReconstruct, Counted, Rejected, Outcome
<1> QED
  BY <1>2 DEF AllOutcomes, PathAssumption

LEMMA LoggedInit == Init => LoggedInv
BY DEF Init, LimiterInit, LoggedInv, Serving, NoRequest, At

\* What a step of g may make of its request and its call: the others' are theirs.
LEMMA OwnStep ==
    ASSUME LoggedInv, NEW g \in Goroutines, NEW r, NEW c,
           request' = [request EXCEPT ![g] = r],
           call' = [call EXCEPT ![g] = c],
           r \in Serving,
           c # NoCall => r.pc = "limit",
           r.pc = "log" => r.outcome.logged \in {"ok", "failed"}
    PROVE  LoggedInv'
<1>1. request' \in [Goroutines -> Serving] /\ call' = [h \in Goroutines |-> call'[h]]
  BY DEF LoggedInv
<1>2. ASSUME NEW h \in Goroutines
      PROVE  /\ call'[h] # NoCall => request'[h].pc = "limit"
             /\ request'[h].pc = "log" => request'[h].outcome.logged \in {"ok", "failed"}
  <2>1. CASE h = g
    BY <2>1 DEF LoggedInv
  <2>2. CASE h # g
    BY <2>2 DEF LoggedInv, At
  <2> QED
    BY <2>1, <2>2
<1> QED
  BY <1>1, <1>2 DEF LoggedInv, At

\* A step of g outside the limiter, which leaves all calls alone.
LEMMA OutsideLimiter ==
    ASSUME LoggedInv, NEW g \in Goroutines, NEW r,
           request' = [request EXCEPT ![g] = r], UNCHANGED call, ~At(g, "limit"),
           r \in Serving,
           r.pc = "log" => r.outcome.logged \in {"ok", "failed"}
    PROVE  LoggedInv'
<1>1. call[g] = NoCall /\ call' = [call EXCEPT ![g] = NoCall]
  BY DEF LoggedInv
<1> QED
  BY <1>1, OwnStep

\* The shape of a request, by its place.
LEMMA Shapes ==
    ASSUME LoggedInv, NEW g \in Goroutines
    PROVE  /\ request[g].pc \in {"limit", "auth", "handle"} =>
                 request[g] \in [pc: {"limit", "auth", "handle"}, kind: Kinds]
           /\ request[g].pc \in {"log", "count"} =>
                 request[g] \in [pc: {"log", "count"}, kind: Kinds, outcome: AllOutcomes]
           /\ request[g].pc = "set" =>
                 request[g] \in [pc: {"set"}, kind: Kinds, outcome: AllOutcomes, n: Nat]
           /\ request[g].pc = "verify" =>
                 request[g] \in [pc: {"verify"}, kind: Kinds \cap {"ready"}, n: Nat]
           /\ request[g].pc \in {"requests", "counting", "timing"} =>
                 request[g] \in [pc: {"requests", "counting", "timing"}, kind: Kinds,
                                 status: Statuses]
<1>1. request[g] \in Serving
  BY DEF LoggedInv
<1> QED
  BY <1>1 DEF Serving, NoRequest

\* Where a request goes on from one place to the next.
LEMMA GoingOn ==
    ASSUME LoggedInv, NEW g \in Goroutines, NEW pc,
           \/ request[g].pc = "limit" /\ pc \in {"auth", "handle"}
           \/ request[g].pc = "auth" /\ pc = "handle"
           \/ request[g].pc = "log" /\ pc = "count"
           \/ request[g].pc = "requests" /\ pc = "counting"
           \/ request[g].pc = "counting" /\ pc = "timing"
    PROVE  [request[g] EXCEPT !.pc = pc] \in Serving
           /\ [request[g] EXCEPT !.pc = pc].pc = pc
<1>1. CASE request[g].pc \in {"limit", "auth"}
  <2>1. request[g] \in [pc: {"limit", "auth", "handle"}, kind: Kinds]
    BY <1>1, Shapes
  <2>2. [request[g] EXCEPT !.pc = pc] \in [pc: {"limit", "auth", "handle"}, kind: Kinds]
    BY <1>1, <2>1
  <2> QED
    BY <2>1, <2>2 DEF Serving
<1>2. CASE request[g].pc = "log"
  <2>1. request[g] \in [pc: {"log", "count"}, kind: Kinds, outcome: AllOutcomes]
    BY <1>2, Shapes
  <2>2. [request[g] EXCEPT !.pc = pc] \in [pc: {"log", "count"}, kind: Kinds, outcome: AllOutcomes]
    BY <1>2, <2>1
  <2> QED
    BY <2>1, <2>2 DEF Serving
<1>3. CASE request[g].pc \in {"requests", "counting"}
  <2>1. request[g] \in [pc: {"requests", "counting", "timing"}, kind: Kinds, status: Statuses]
    BY <1>3, Shapes
  <2>2. [request[g] EXCEPT !.pc = pc] \in
            [pc: {"requests", "counting", "timing"}, kind: Kinds, status: Statuses]
    BY <1>3, <2>1
  <2> QED
    BY <2>1, <2>2 DEF Serving
<1> QED
  BY <1>1, <1>2, <1>3

\* Where a request is answered.
LEMMA Answering ==
    ASSUME LoggedInv, NEW g \in Goroutines, NEW status \in Statuses,
           request[g].kind \in Kinds, Answer(g, status), UNCHANGED call,
           ~At(g, "limit")
    PROVE  LoggedInv'
<1> DEFINE r == [pc |-> "requests", kind |-> request[g].kind, status |-> status]
<1>1. r \in Serving /\ r.pc = "requests"
  BY DEF Serving
<1>2. request' = [request EXCEPT ![g] = r]
  BY DEF Answer
<1> QED
  BY <1>1, <1>2, OutsideLimiter

\* The limiter: the lookup on arrival, the clock, and the verdict.
LEMMA LoggedLimiter ==
    ASSUME PathAssumption, LoggedInv, NEW g \in Goroutines,
           \/ \E k \in Clients, kind \in Kinds : Arrive(g, k, kind)
           \/ InLimiter(g)
           \/ PassLimiter(g)
    PROVE  LoggedInv'
<1>1. ASSUME NEW k \in Clients, NEW kind \in Kinds, Arrive(g, k, kind)
      PROVE  LoggedInv'
  <2> DEFINE r == [pc |-> "limit", kind |-> kind]
  <2>1. r \in Serving /\ r.pc = "limit"
    BY DEF Serving
  <2>2. request' = [request EXCEPT ![g] = r]
    BY <1>1 DEF Arrive
  <2>3. \E c : call' = [call EXCEPT ![g] = c]
    BY <1>1 DEF Arrive, Lookup
  <2> QED
    BY <2>1, <2>2, <2>3, OwnStep
<1>2. CASE InLimiter(g)
  <2>1. call[g].pc = "clock" /\ UNCHANGED request
    BY <1>2 DEF InLimiter, ReadClock, pathVars
  <2>2. call[g] # NoCall
    BY <2>1 DEF NoCall
  <2>3. request[g].pc = "limit" /\ request[g] \in Serving
    BY <2>2 DEF LoggedInv, At
  <2>4. request' = [request EXCEPT ![g] = request[g]]
    BY <2>1 DEF LoggedInv
  <2>5. \E c : call' = [call EXCEPT ![g] = c]
    BY <1>2 DEF InLimiter, ReadClock
  <2> QED
    BY <2>3, <2>4, <2>5, OwnStep
<1>3. CASE PassLimiter(g)
  <2>1. call[g].pc = "lock" /\ call' = [call EXCEPT ![g] = NoCall]
    BY <1>3 DEF PassLimiter, Decide
  <2>2. request[g].pc = "limit"
    BY <2>1 DEF LoggedInv, At, NoCall
  <2>3. request[g].kind \in Kinds
    BY <2>2, Shapes
  <2>4. ASSUME NEW pc \in {"auth", "handle"}, GoTo(g, pc)
        PROVE  LoggedInv'
    <3>1. request' = [request EXCEPT ![g] = [request[g] EXCEPT !.pc = pc]]
      BY <2>4 DEF GoTo
    <3> QED
      BY <2>1, <2>2, <3>1, GoingOn, OwnStep
  <2>5. ASSUME NEW status \in Statuses, Answer(g, status)
        PROVE  LoggedInv'
    <3> DEFINE r == [pc |-> "requests", kind |-> request[g].kind, status |-> status]
    <3>1. r \in Serving /\ r.pc = "requests"
      BY <2>3 DEF Serving
    <3>2. request' = [request EXCEPT ![g] = r]
      BY <2>5 DEF Answer
    <3> QED
      BY <2>1, <3>1, <3>2, OwnStep
  <2>6. "bad" \in Statuses /\ "limited" \in Statuses
    BY DEF PathAssumption
  <2>7. \/ \E pc \in {"auth", "handle"} : GoTo(g, pc)
        \/ Answer(g, "bad") \/ Answer(g, "limited")
    BY <1>3 DEF PassLimiter
  <2> QED
    BY <2>4, <2>5, <2>6, <2>7
<1> QED
  BY <1>1, <1>2, <1>3

\* The handler, the log and the gauge, and the verification.
LEMMA LoggedHandler ==
    ASSUME PathAssumption, LoggedInv, NEW g \in Goroutines,
           \/ Authorize(g)
           \/ Handle(g)
           \/ HandlerPanics(g)
           \/ LogOutcome(g)
           \/ CountEntries(g)
           \/ SetGauge(g)
           \/ ReadyCopies(g)
           \/ ReadyVerifies(g)
    PROVE  LoggedInv'
<1>0. {"bad", "denied", "ok", "unavailable"} \subseteq Statuses
  BY DEF PathAssumption
<1>1. CASE Authorize(g)
  <2>1. request[g].pc = "auth" /\ UNCHANGED call
    BY <1>1 DEF Authorize, At, limiterVars
  <2>2. request[g].kind \in Kinds
    BY <2>1, Shapes
  <2>3. CASE GoTo(g, "handle")
    <3>1. request' = [request EXCEPT ![g] = [request[g] EXCEPT !.pc = "handle"]]
      BY <2>3 DEF GoTo
    <3>2. [request[g] EXCEPT !.pc = "handle"] \in Serving
          /\ [request[g] EXCEPT !.pc = "handle"].pc = "handle"
      BY <2>1, GoingOn
    <3> QED
      BY <2>1, <3>1, <3>2, OutsideLimiter DEF At
  <2>4. CASE Answer(g, "denied")
    BY <1>0, <2>1, <2>2, <2>4, Answering DEF At
  <2> QED
    BY <1>1, <2>3, <2>4 DEF Authorize
<1>2. CASE Handle(g)
  <2>1. request[g].pc = "handle" /\ UNCHANGED call
    BY <1>2 DEF Handle, At, limiterVars
  <2>2. request[g].kind \in Kinds
    BY <2>1, Shapes
  <2>3. PICK o \in Outcomes[request[g].kind] :
            IF o.logged = "none" THEN Answer(g, o.status)
            ELSE request' = [request EXCEPT ![g] =
                     [pc |-> "log", kind |-> request[g].kind, outcome |-> o]]
    BY <1>2 DEF Handle
  <2>4. o \in AllOutcomes /\ o.status \in Statuses
        /\ (o.logged = "none" \/ o.logged \in {"ok", "failed"})
    BY <2>2, OutcomesTyped
  <2>5. CASE o.logged = "none"
    BY <2>1, <2>2, <2>3, <2>4, <2>5, Answering DEF At
  <2>6. CASE o.logged # "none"
    <3> DEFINE r == [pc |-> "log", kind |-> request[g].kind, outcome |-> o]
    <3>1. r \in Serving /\ r.pc = "log" /\ r.outcome.logged \in {"ok", "failed"}
      BY <2>2, <2>4, <2>6 DEF Serving
    <3>2. request' = [request EXCEPT ![g] = r]
      BY <2>3, <2>6
    <3> QED
      BY <2>1, <3>1, <3>2, OutsideLimiter DEF At
  <2> QED
    BY <2>5, <2>6
<1>3. CASE HandlerPanics(g)
  <2>1. request' = [request EXCEPT ![g] = NoRequest] /\ UNCHANGED call /\ ~At(g, "limit")
    BY <1>3 DEF HandlerPanics, At, limiterVars
  <2>2. NoRequest \in Serving /\ NoRequest.pc = "none"
    BY DEF Serving, NoRequest
  <2> QED
    BY <2>1, <2>2, OutsideLimiter
<1>4. CASE LogOutcome(g)
  <2>1. request[g].pc = "log" /\ UNCHANGED call
    BY <1>4 DEF LogOutcome, At, limiterVars
  <2>2. request[g].kind \in Kinds /\ request[g].outcome \in AllOutcomes
    BY <2>1, Shapes
  <2>3. request[g].outcome.status \in Statuses
    BY <2>2, OutcomesTyped DEF AllOutcomes
  <2>4. CASE GoTo(g, "count")
    <3>1. request' = [request EXCEPT ![g] = [request[g] EXCEPT !.pc = "count"]]
      BY <2>4 DEF GoTo
    <3>2. [request[g] EXCEPT !.pc = "count"] \in Serving
          /\ [request[g] EXCEPT !.pc = "count"].pc = "count"
      BY <2>1, GoingOn
    <3> QED
      BY <2>1, <3>1, <3>2, OutsideLimiter DEF At
  <2>5. CASE Answer(g, request[g].outcome.status)
    BY <2>1, <2>2, <2>3, <2>5, Answering DEF At
  <2> QED
    BY <1>4, <2>4, <2>5 DEF LogOutcome
<1>5. CASE CountEntries(g)
  <2>1. request[g].pc = "count" /\ UNCHANGED call
    BY <1>5 DEF CountEntries, At, limiterVars
  <2>2. request[g].kind \in Kinds /\ request[g].outcome \in AllOutcomes
    BY <2>1, Shapes
  <2> DEFINE r == [pc |-> "set", kind |-> request[g].kind, outcome |-> request[g].outcome,
                   n |-> Len(entries)]
  <2>3. request' = [request EXCEPT ![g] = r]
    BY <1>5 DEF CountEntries
  <2>4. r \in Serving /\ r.pc = "set"
    BY <2>2 DEF Serving
  <2> QED
    BY <2>1, <2>3, <2>4, OutsideLimiter DEF At
<1>6. CASE SetGauge(g)
  <2>1. request[g].pc = "set" /\ UNCHANGED call /\ Answer(g, request[g].outcome.status)
    BY <1>6 DEF SetGauge, At, limiterVars
  <2>2. request[g].kind \in Kinds /\ request[g].outcome \in AllOutcomes
    BY <2>1, Shapes
  <2>3. request[g].outcome.status \in Statuses
    BY <2>2, OutcomesTyped DEF AllOutcomes
  <2> QED
    BY <2>1, <2>2, <2>3, Answering DEF At
<1>7. CASE ReadyCopies(g)
  <2>1. request[g].pc = "handle" /\ request[g].kind = "ready" /\ UNCHANGED call
    BY <1>7 DEF ReadyCopies, At, limiterVars
  <2>0. request[g].kind \in Kinds
    BY <2>1, Shapes
  <2> DEFINE r == [pc |-> "verify", kind |-> request[g].kind, n |-> Len(entries)]
  <2>2. request' = [request EXCEPT ![g] = r]
    BY <1>7 DEF ReadyCopies
  <2>3. r \in Serving /\ r.pc = "verify"
    BY <2>0, <2>1 DEF Serving
  <2> QED
    BY <2>1, <2>2, <2>3, OutsideLimiter DEF At
<1>8. CASE ReadyVerifies(g)
  <2>1. request[g].pc = "verify" /\ UNCHANGED call
    BY <1>8 DEF ReadyVerifies, At, limiterVars
  <2>2. \E status \in Statuses : Answer(g, status)
    BY <1>0, <1>8 DEF ReadyVerifies
  <2>3. request[g].kind \in Kinds
    BY <2>1, Shapes
  <2> QED
    BY <2>1, <2>2, <2>3, Answering DEF At
<1> QED
  BY <1>1, <1>2, <1>3, <1>4, <1>5, <1>6, <1>7, <1>8

\* The metrics, the end of a request, and what goes on beside requests.
LEMMA LoggedMetrics ==
    ASSUME LoggedInv, NEW g \in Goroutines,
           CountRequest(g) \/ TimeRequest(g) \/ Done(g)
    PROVE  LoggedInv'
<1>1. ASSUME NEW pc, GoTo(g, pc), UNCHANGED call,
             \/ request[g].pc = "requests" /\ pc = "counting"
             \/ request[g].pc = "counting" /\ pc = "timing"
      PROVE  LoggedInv'
  <2>1. request' = [request EXCEPT ![g] = [request[g] EXCEPT !.pc = pc]]
    BY <1>1 DEF GoTo
  <2>2. [request[g] EXCEPT !.pc = pc] \in Serving /\ [request[g] EXCEPT !.pc = pc].pc = pc
    BY <1>1, GoingOn
  <2> QED
    BY <1>1, <2>1, <2>2, OutsideLimiter DEF At
<1>2. CASE CountRequest(g) \/ TimeRequest(g)
  BY <1>1, <1>2 DEF CountRequest, TimeRequest, At, limiterVars
<1>3. CASE Done(g)
  <2>1. request' = [request EXCEPT ![g] = NoRequest] /\ UNCHANGED call /\ ~At(g, "limit")
    BY <1>3 DEF Done, At, limiterVars
  <2>2. NoRequest \in Serving /\ NoRequest.pc = "none"
    BY DEF Serving, NoRequest
  <2> QED
    BY <2>1, <2>2, OutsideLimiter
<1> QED
  BY <1>2, <1>3

LEMMA LoggedElsewhere ==
    ASSUME LoggedInv, UNCHANGED <<request, call>>
    PROVE  LoggedInv'
BY DEF LoggedInv, At

LEMMA LoggedNext ==
    ASSUME PathAssumption, LoggedInv, [Next]_vars
    PROVE  LoggedInv'
<1>1. CASE UNCHANGED vars
  BY <1>1, LoggedElsewhere DEF vars, limiterVars, pathVars
<1>2. CASE Background
  BY <1>2, LoggedElsewhere DEF Background, CleanTick, Clean, Tick, pathVars
<1>3. ASSUME NEW g \in Goroutines, Step(g)
      PROVE  LoggedInv'
  <2>1. CASE InMetrics(g)
    BY <2>1, LoggedElsewhere DEF InMetrics, limiterVars, pathVars
  <2>2. CASE ~InMetrics(g)
    BY <1>3, <2>2, LoggedLimiter, LoggedHandler, LoggedMetrics DEF Step
  <2> QED
    BY <2>1, <2>2
<1> QED
  BY <1>1, <1>2, <1>3 DEF Next

-----------------------------------------------------------------------------
\* Every step of the server logs an event or leaves the log alone.
LEMMA StepsLog ==
    ASSUME PathAssumption, LoggedInv, [Next]_vars
    PROVE  (\E event \in Events : Log(event)) \/ UNCHANGED auditVars
<1>1. CASE UNCHANGED vars
  BY <1>1 DEF vars
<1>2. ASSUME NEW g \in Goroutines, Step(g)
      PROVE  (\E event \in Events : Log(event)) \/ UNCHANGED auditVars
  <2>1. CASE LogOutcome(g)
    <3>1. <<request[g].kind, request[g].outcome.logged>> \in Events
      <4>1. request[g].kind \in Kinds
        BY <2>1, Shapes DEF LogOutcome, At
      <4> QED
        BY <2>1, <4>1 DEF LogOutcome, LoggedInv, PathAssumption
    <3> QED
      BY <2>1, <3>1 DEF LogOutcome
  <2>2. CASE ~LogOutcome(g)
    BY <1>2, <2>2 DEF Step, Arrive, InLimiter, PassLimiter, Authorize, Handle, HandlerPanics,
        CountEntries, SetGauge, ReadyCopies, ReadyVerifies, CountRequest, TimeRequest, InMetrics,
        Done
  <2> QED
    BY <2>1, <2>2
<1>3. CASE Background
  BY <1>3 DEF Background
<1> QED
  BY <1>1, <1>2, <1>3 DEF Next

LEMMA ChainInit == Init => ChainInv
BY DEF Init, AuditInit, ChainInv, LastHash

\* An entry that Log appends links to the last one.
LEMMA LogKeepsChain ==
    ASSUME NEW event \in Events, ChainInv, Log(event)
    PROVE  ChainInv'
<1> DEFINE e == Signed([Sequence |-> Len(entries), Event |-> event, PrevHash |-> prevHash])
<1>1. Len(entries) \in Nat /\ prevHash \in Hashes
  <2>1. entries \in Seq(LogEntry)
    BY DEF ChainInv
  <2>2. CASE entries = <<>>
    BY <2>1, <2>2 DEF ChainInv, LastHash, genesisHash, Hashes
  <2>3. CASE entries # <<>>
    <3>1. entries[Len(entries)] \in LogEntry
      BY <2>1, <2>3
    <3> QED
      BY <2>1, <2>3, <3>1 DEF ChainInv, LastHash, LogEntry
  <2> QED
    BY <2>2, <2>3, <2>1
<1>2. e.Hash = Append(prevHash, [seq |-> Len(entries), event |-> event])
      /\ e.PrevHash = prevHash /\ e.Signature = e.Hash
      /\ e.Sequence = Len(entries) /\ e.Event = event
  BY DEF Signed, entryHash
<1>3. e.Hash \in Hashes
  <2>1. [seq |-> Len(entries), event |-> event] \in [seq: Nat, event: Events]
    BY <1>1
  <2>2. Append(prevHash, [seq |-> Len(entries), event |-> event]) \in Hashes
    BY <1>1, <2>1 DEF Hashes
  <2> QED
    BY <1>2, <2>2
<1>4. e \in LogEntry
  BY <1>1, <1>2, <1>3 DEF LogEntry, Signed
<1>5. entries' = Append(entries, e) /\ prevHash' = e.Hash
  BY DEF Log
<1>6. entries' \in Seq(LogEntry) /\ Len(entries') = Len(entries) + 1
  BY <1>1, <1>4, <1>5 DEF ChainInv
<1>7. ASSUME NEW i \in DOMAIN entries' PROVE Holds(entries', i)
  <2> HIDE DEF e
  <2>0. i \in 1..(Len(entries) + 1) /\ DOMAIN entries = 1..Len(entries)
    BY <1>6 DEF ChainInv
  <2>1. CASE i \in DOMAIN entries
    <3>1. entries'[i] = entries[i]
      BY <1>5, <2>1 DEF ChainInv
    <3>2. i # 1 => i - 1 \in DOMAIN entries /\ entries'[i - 1] = entries[i - 1]
      BY <1>1, <1>5, <2>0, <2>1 DEF ChainInv
    <3>3. Holds(entries, i)
      BY <2>1 DEF ChainInv
    <3> QED
      BY <3>1, <3>2, <3>3 DEF Holds, LinkHolds, HashHolds, SignatureHolds
  <2>2. CASE i = Len(entries) + 1
    <3>1. entries'[i] = e
      BY <1>1, <1>5, <2>2 DEF ChainInv
    <3>2. i # 1 => entries # <<>> /\ entries'[i - 1] = entries[Len(entries)]
      BY <1>1, <1>5, <2>2 DEF ChainInv
    <3>3. LinkHolds(entries', i)
      BY <1>1, <1>2, <2>2, <3>1, <3>2 DEF LinkHolds, ChainInv, LastHash
    <3>4. HashHolds(entries', i) /\ SignatureHolds(entries', i)
      BY <1>2, <3>1 DEF HashHolds, SignatureHolds, entryHash
    <3> QED
      BY <3>3, <3>4 DEF Holds
  <2> QED
    BY <1>1, <2>0, <2>1, <2>2
<1>8. prevHash' = LastHash(entries')
  <2>1. entries' # <<>> /\ entries'[Len(entries')] = e
    BY <1>1, <1>5, <1>6 DEF ChainInv
  <2> QED
    BY <1>5, <2>1 DEF LastHash
<1> QED
  BY <1>6, <1>7, <1>8 DEF ChainInv

LEMMA ChainUnchanged ==
    ASSUME ChainInv, UNCHANGED auditVars
    PROVE  ChainInv'
BY DEF ChainInv, auditVars, LastHash, Holds, LinkHolds, HashHolds, SignatureHolds, entryHash

-----------------------------------------------------------------------------
\* A chain verifies, and a copy of it of which some entries are altered fails at
\* the first of these: their hashes are no longer those of what they say, and
\* all other checks are of fields that TamperEntry leaves alone.
LEMMA AlteredShow ==
    ASSUME AuditAssumption, ChainInv,
           NEW n \in 0..Len(entries), NEW altered \in SUBSET (1..n), NEW i \in 1..n
    PROVE  LET list == Tampered(SubSeq(entries, 1, n), altered)
           IN  DOMAIN list = 1..n /\ (Holds(list, i) <=> i \notin altered)
<1> DEFINE part == SubSeq(entries, 1, n)
           list == Tampered(part, altered)
<1>1. entries \in Seq(LogEntry) /\ Len(entries) \in Nat /\ n \in Nat /\ n <= Len(entries)
  BY DEF ChainInv
<1>2. Len(part) = n /\ DOMAIN part = 1..n /\ \A j \in 1..n : part[j] = entries[j]
  BY <1>1
<1>3. DOMAIN list = 1..n
  BY <1>2 DEF Tampered
<1>4. ASSUME NEW j \in 1..n
      PROVE  /\ entries[j] \in LogEntry
             /\ list[j].PrevHash = entries[j].PrevHash
             /\ list[j].Hash = entries[j].Hash
             /\ list[j].Signature = entries[j].Signature
             /\ list[j].Sequence = entries[j].Sequence
             /\ list[j].Event = IF j \in altered THEN Forged ELSE entries[j].Event
  <2>1. entries[j] \in LogEntry
    BY <1>1
  <2>2. list[j] = IF j \in altered THEN [entries[j] EXCEPT !.Event = Forged] ELSE entries[j]
    BY <1>2 DEF Tampered
  <2> QED
    BY <2>1, <2>2 DEF LogEntry
<1>5. Holds(entries, i)
  BY <1>1 DEF ChainInv
<1> HIDE DEF list, part
<1>6. LinkHolds(list, i) /\ SignatureHolds(list, i)
  <2>1. i # 1 => i - 1 \in 1..n
    BY <1>1
  <2> QED
    BY <1>4, <1>5, <2>1 DEF Holds, LinkHolds, SignatureHolds
<1>7. CASE i \notin altered
  BY <1>3, <1>4, <1>5, <1>6, <1>7 DEF Holds, HashHolds, entryHash, list, part
<1>8. CASE i \in altered
  <2> DEFINE x == [seq |-> entries[i].Sequence, event |-> entries[i].Event]
             y == [seq |-> entries[i].Sequence, event |-> Forged]
             h == entries[i].PrevHash
  <2>1. entries[i].Event \in Events /\ h \in Hashes
    BY <1>4 DEF LogEntry
  <2>2. x # y
    BY <2>1 DEF AuditAssumption
  <2>3. entries[i].Hash = Append(h, x)
    BY <1>5 DEF Holds, HashHolds, entryHash
  <2>4. entryHash(list[i]) = Append(h, y)
    BY <1>4, <1>8 DEF entryHash
  <2>5. Append(h, x)[Len(h) + 1] = x /\ Append(h, y)[Len(h) + 1] = y
    BY <2>1 DEF Hashes
  <2>6. ~HashHolds(list, i)
    BY <1>4, <2>2, <2>3, <2>4, <2>5 DEF HashHolds
  <2> QED
    BY <1>3, <1>8, <2>6 DEF Holds, list, part
<1> QED
  BY <1>7, <1>8

\* The verdict names the first altered entry, if there is one.
LEMMA ChainIsExact ==
    ASSUME AuditAssumption, ChainInv
    PROVE  VerdictIsExact
<1> SUFFICES ASSUME NEW n \in 0..Len(entries), NEW altered \in SUBSET (1..n)
             PROVE  VerifyChain(Tampered(SubSeq(entries, 1, n), altered)) =
                        IF altered = {} THEN Intact
                        ELSE CHOOSE i \in altered : \A j \in altered : i <= j
  BY DEF VerdictIsExact
<1> DEFINE list == Tampered(SubSeq(entries, 1, n), altered)
<1>1. DOMAIN list = 1..n /\ \A i \in 1..n : Holds(list, i) <=> i \notin altered
  <2>1. \A i \in 1..n : DOMAIN list = 1..n /\ (Holds(list, i) <=> i \notin altered)
    BY AlteredShow
  <2>2. DOMAIN list = 1..n
    <3>1. Len(SubSeq(entries, 1, n)) = n
      BY DEF ChainInv
    <3> QED
      BY <3>1 DEF Tampered, ChainInv
  <2> QED
    BY <2>1, <2>2
<1> HIDE DEF list
<1>2. ASSUME altered = {} PROVE VerifyChain(list) = Intact
  BY <1>1, <1>2 DEF VerifyChain
<1>3. ASSUME altered # {}
      PROVE  VerifyChain(list) = CHOOSE i \in altered : \A j \in altered : i <= j
  <2>1. ~ \A i \in DOMAIN list : Holds(list, i)
    BY <1>1, <1>3
  <2>2. altered \subseteq DOMAIN list
    BY <1>1
  <2> DEFINE Breaks(i) == ~Holds(list, i) /\ \A j \in 1..(i - 1) : Holds(list, j)
             First(i)  == \A j \in altered : i <= j
  <2>3. \A i \in DOMAIN list : Breaks(i) <=> (i \in altered /\ First(i))
    <3> SUFFICES ASSUME NEW i \in 1..n
                 PROVE  Breaks(i) <=> (i \in altered /\ First(i))
      BY <1>1
    <3>1. 1..(i - 1) \subseteq 1..n /\ \A j \in 1..n : j \in 1..(i - 1) <=> ~(i <= j)
      OBVIOUS
    <3> QED
      BY <1>1, <3>1
  <2>4. (CHOOSE i \in DOMAIN list : Breaks(i)) = CHOOSE i \in altered : First(i)
    <3>1. \A i : (i \in DOMAIN list /\ Breaks(i)) <=> (i \in altered /\ First(i))
      BY <2>2, <2>3
    <3> HIDE DEF Breaks, First
    <3> QED
      BY <3>1
  <2> QED
    BY <1>3, <2>1, <2>4 DEF VerifyChain
<1> QED
  BY <1>2, <1>3 DEF list

-----------------------------------------------------------------------------
\* "tamper-evident" (audit.go): VerdictIsExact, for any handlers, any number of
\* requests at once, any limits and any length of the log.
THEOREM TamperingShows == Spec => []VerdictIsExact
<1>1. LoggedInv /\ ChainInv /\ [Next]_vars => LoggedInv' /\ ChainInv'
  BY PathAssumption, StepsLog, LoggedNext, LogKeepsChain, ChainUnchanged
<1>2. ChainInv => VerdictIsExact
  BY ChainIsExact, AuditAssumption
<1> QED
  BY LoggedInit, ChainInit, <1>1, <1>2, PTL DEF Spec

-----------------------------------------------------------------------------
(* Lemmas about the limiter's operators: what eviction keeps, and sums.      *)

LEMMA LeastOf ==
    ASSUME NEW T \in SUBSET Nat, T # {}
    PROVE  \E x \in T : \A y \in T : x <= y
<1> DEFINE R == OpToRel(<, Nat)
<1>1. IsWellFoundedOn(R, Nat)
  BY NatLessThanWellFounded
<1>2. \A x, y \in Nat : y < x => <<y, x>> \in R
  BY DEF OpToRel
<1> HIDE DEF R
<1>3. \E x \in T : \A y \in T : ~ (<<y, x>> \in R)
  BY <1>1, WFMin
<1>4. PICK x \in T : \A y \in T : ~ (<<y, x>> \in R)
  BY <1>3
<1>5. \A y \in T : x \in Nat /\ y \in Nat /\ ~(y < x)
  BY <1>2, <1>4
<1>6. \A y \in T : x <= y
  BY <1>5
<1> QED
  BY <1>6

\* FirstKept is what its definition says it is, and nothing else is.
LEMMA FirstKeptIs ==
    ASSUME NEW s \in Seq(Nat), NEW c \in Int
    PROVE  /\ FirstKept(s, c) \in 1..(Len(s) + 1)
           /\ \A j \in 1..(FirstKept(s, c) - 1) : s[j] < c
           /\ FirstKept(s, c) <= Len(s) => s[FirstKept(s, c)] >= c
<1> DEFINE Kept(i) == /\ \A j \in 1..(i - 1) : s[j] < c
                      /\ i <= Len(s) => s[i] >= c
           T == {i \in 1..(Len(s) + 1) : i <= Len(s) => s[i] >= c}
<1>1. T \in SUBSET Nat /\ Len(s) + 1 \in T
  OBVIOUS
<1>2. PICK i \in T : \A j \in T : i <= j
  BY <1>1, LeastOf
<1>3. i \in 1..(Len(s) + 1) /\ Kept(i)
  <2>1. \A j \in 1..(i - 1) : j \in 1..Len(s) /\ j \notin T
    BY <1>1, <1>2
  <2>2. \A j \in 1..(i - 1) : s[j] < c
    BY <2>1
  <2> QED
    BY <1>2, <2>2
<1>4. FirstKept(s, c) = CHOOSE k \in 1..(Len(s) + 1) : Kept(k)
  BY DEF FirstKept
<1> HIDE DEF Kept
<1>5. FirstKept(s, c) \in 1..(Len(s) + 1) /\ Kept(FirstKept(s, c))
  BY <1>3, <1>4
<1> QED
  BY <1>5 DEF Kept

LEMMA FirstKeptOnly ==
    ASSUME NEW s \in Seq(Nat), NEW c \in Int, NEW i \in 1..(Len(s) + 1),
           \A j \in 1..Len(s) : j < i => s[j] < c,
           i <= Len(s) => s[i] >= c
    PROVE  FirstKept(s, c) = i
<1> DEFINE f == FirstKept(s, c)
<1>1. /\ f \in 1..(Len(s) + 1)
      /\ \A j \in 1..(f - 1) : s[j] < c
      /\ f <= Len(s) => s[f] >= c
  BY FirstKeptIs
<1> HIDE DEF f
<1>0. Len(s) \in Nat /\ \A j \in 1..Len(s) : s[j] \in Nat
  OBVIOUS
<1>2. ~(f < i)
  BY <1>0, <1>1
<1>3. ~(i < f)
  BY <1>0, <1>1
<1> QED
  BY <1>1, <1>2, <1>3 DEF f

\* What eviction keeps is a tail, of which the first timestamp is not before
\* the cutoff and none has been dropped that is not.
LEMMA EvictedIs ==
    ASSUME NEW s \in Seq(Nat), NEW c \in Int
    PROVE  /\ Evicted(s, c) \in Seq(Nat)
           /\ Len(Evicted(s, c)) = Len(s) + 1 - FirstKept(s, c)
           /\ Len(Evicted(s, c)) \in 0..Len(s)
           /\ \A i \in 1..Len(Evicted(s, c)) :
                 Evicted(s, c)[i] = s[FirstKept(s, c) + i - 1]
<1>1. FirstKept(s, c) \in 1..(Len(s) + 1)
  BY FirstKeptIs
<1> QED
  BY <1>1 DEF Evicted

Spans(s, t) == Len(Evicted(s, t))

LEMMA SpansLess ==
    ASSUME NEW s \in Seq(Nat), NEW t \in Int, NEW u \in Int, t <= u
    PROVE  Spans(s, u) <= Spans(s, t)
<1> DEFINE f == FirstKept(s, t)
           h == FirstKept(s, u)
<1>1. /\ f \in 1..(Len(s) + 1) /\ h \in 1..(Len(s) + 1)
      /\ \A j \in 1..(f - 1) : s[j] < t
      /\ h <= Len(s) => s[h] >= u
      /\ Spans(s, u) = Len(s) + 1 - h /\ Spans(s, t) = Len(s) + 1 - f
  BY FirstKeptIs, EvictedIs DEF Spans
<1> HIDE DEF f, h
<1>2. \A j \in 1..Len(s) : s[j] \in Nat
  OBVIOUS
<1>3. ~(h < f)
  <2> SUFFICES ASSUME h < f PROVE FALSE
    OBVIOUS
  <2>1. h \in 1..(f - 1) /\ h <= Len(s)
    BY <1>1
  <2> QED
    BY <1>1, <1>2, <2>1
<1> QED
  BY <1>1, <1>3

\* What is older than the cutoff goes.
LEMMA SpansNone ==
    ASSUME NEW s \in Seq(Nat), NEW t \in Int, \A i \in 1..Len(s) : s[i] < t
    PROVE  Spans(s, t) = 0
<1>1. /\ Len(s) + 1 \in 1..(Len(s) + 1) /\ ~(Len(s) + 1 <= Len(s))
      /\ \A j \in 1..Len(s) : j < Len(s) + 1 => s[j] < t
  OBVIOUS
<1>2. FirstKept(s, t) = Len(s) + 1
  BY <1>1, FirstKeptOnly
<1> QED
  BY <1>2, EvictedIs DEF Spans

\* A second eviction, with a cutoff that may be older or newer.
LEMMA SpansAgain ==
    ASSUME NEW s \in Seq(Nat), NEW c \in Int, NEW t \in Int
    PROVE  Spans(Evicted(s, c), t) = IF c <= t THEN Spans(s, t) ELSE Spans(s, c)
<1> DEFINE e == Evicted(s, c)
           f == FirstKept(s, c)
           h == FirstKept(s, t)
<1>1. /\ f \in 1..(Len(s) + 1) /\ h \in 1..(Len(s) + 1)
      /\ f <= Len(s) => s[f] >= c
      /\ \A j \in 1..(f - 1) : s[j] < c
      /\ h <= Len(s) => s[h] >= t
      /\ \A j \in 1..(h - 1) : s[j] < t
      /\ Spans(s, t) = Len(s) + 1 - h /\ Spans(s, c) = Len(s) + 1 - f
      /\ e \in Seq(Nat) /\ Len(e) = Len(s) + 1 - f
      /\ \A i \in 1..Len(e) : e[i] = s[f + i - 1]
  BY FirstKeptIs, EvictedIs DEF Spans
<1>2. Spans(e, t) = Len(e) + 1 - FirstKept(e, t)
  BY <1>1, EvictedIs DEF Spans
<1> HIDE DEF e, f, h
<1>3. Len(s) \in Nat /\ \A j \in 1..Len(s) : s[j] \in Nat
  OBVIOUS
<1>4. CASE c <= t
  <2>1. ~(h < f)
    <3> SUFFICES ASSUME h < f PROVE FALSE
      OBVIOUS
    <3>1. h \in 1..(f - 1) /\ h <= Len(s)
      BY <1>1
    <3> QED
      BY <1>1, <1>3, <1>4, <3>1
  <2>2. FirstKept(e, t) = h - f + 1
    <3>1. h - f + 1 \in 1..(Len(e) + 1)
      BY <1>1, <2>1
    <3>2. \A j \in 1..Len(e) : j < h - f + 1 => e[j] < t
      <4> SUFFICES ASSUME NEW j \in 1..Len(e), j < h - f + 1 PROVE e[j] < t
        OBVIOUS
      <4>1. f + j - 1 \in 1..(h - 1)
        BY <1>1
      <4> QED
        BY <1>1, <4>1
    <3>3. ASSUME h - f + 1 <= Len(e) PROVE e[h - f + 1] >= t
      <4>1. h - f + 1 \in 1..Len(e) /\ f + (h - f + 1) - 1 = h /\ h <= Len(s)
        BY <1>1, <3>1, <3>3
      <4>2. e[h - f + 1] = s[f + (h - f + 1) - 1]
        BY <1>1, <4>1
      <4> QED
        BY <1>1, <4>1, <4>2
    <3> QED
      BY <1>1, <3>1, <3>2, <3>3, FirstKeptOnly
  <2> QED
    BY <1>1, <1>2, <1>4, <2>2 DEF e
<1>5. CASE ~(c <= t)
  <2>1. FirstKept(e, t) = 1
    <3>1. 1 <= Len(e) => e[1] = s[f] /\ f <= Len(s) /\ s[f] \in Nat
      BY <1>1, <1>3
    <3>2. 1 <= Len(e) => e[1] >= t
      BY <1>1, <1>5, <3>1
    <3>3. 1 \in 1..(Len(e) + 1) /\ \A j \in 1..Len(e) : j < 1 => e[j] < t
      BY <1>1
    <3> QED
      BY <1>1, <3>2, <3>3, FirstKeptOnly
  <2> QED
    BY <1>1, <1>2, <1>5, <2>1 DEF e
<1> QED
  BY <1>4, <1>5

\* A timestamp that is not before the cutoff counts.
LEMMA SpansAppend ==
    ASSUME NEW s \in Seq(Nat), NEW n \in Nat, NEW t \in Int, t <= n
    PROVE  Spans(Append(s, n), t) = Spans(s, t) + 1
<1> DEFINE a == Append(s, n)
           f == FirstKept(s, t)
<1>1. /\ f \in 1..(Len(s) + 1)
      /\ \A j \in 1..(f - 1) : s[j] < t
      /\ f <= Len(s) => s[f] >= t
      /\ Spans(s, t) = Len(s) + 1 - f
  BY FirstKeptIs, EvictedIs DEF Spans
<1>2. /\ a \in Seq(Nat) /\ Len(a) = Len(s) + 1
      /\ \A j \in 1..Len(s) : a[j] = s[j]
      /\ a[Len(s) + 1] = n
  OBVIOUS
<1> HIDE DEF f, a
<1>3. f <= Len(a) => a[f] >= t
  <2>1. CASE f <= Len(s)
    BY <1>1, <1>2, <2>1
  <2>2. CASE f = Len(s) + 1
    BY <1>1, <1>2, <2>2
  <2> QED
    BY <1>1, <2>1, <2>2
<1>4. f \in 1..(Len(a) + 1) /\ \A j \in 1..Len(a) : j < f => a[j] < t
  <2>1. f \in 1..(Len(a) + 1)
    BY <1>1, <1>2
  <2>2. ASSUME NEW j \in 1..Len(a), j < f PROVE a[j] < t
    <3>1. j \in 1..Len(s) /\ j \in 1..(f - 1)
      BY <1>1, <1>2, <2>2
    <3> QED
      BY <1>1, <1>2, <3>1
  <2> QED
    BY <2>1, <2>2
<1>5. FirstKept(a, t) = f
  BY <1>2, <1>3, <1>4, FirstKeptOnly
<1>6. Spans(a, t) = Len(a) + 1 - f
  BY <1>2, <1>5, EvictedIs DEF Spans
<1>7. Spans(a, t) = Spans(s, t) + 1
  BY <1>1, <1>2, <1>6
<1> QED
  BY <1>7 DEF a

\* The set whose size is a Total.
Units(counts) == UNION {{x} \X (1..counts[x]) : x \in DOMAIN counts}

LEMMA UnitsAre ==
    ASSUME NEW S, NEW f \in [S -> Nat]
    PROVE  /\ \A u \in Units(f) : u = <<u[1], u[2]>> /\ u[1] \in S /\ u[2] \in 1..f[u[1]]
           /\ \A x \in S : \A i \in 1..f[x] : <<x, i>> \in Units(f)
<1>1. DOMAIN f = S
  OBVIOUS
<1>2. ASSUME NEW u \in Units(f)
      PROVE  u = <<u[1], u[2]>> /\ u[1] \in S /\ u[2] \in 1..f[u[1]]
  <2>1. PICK x \in S : u \in {x} \X (1..f[x])
    BY <1>1 DEF Units
  <2> QED
    BY <2>1
<1>3. ASSUME NEW x \in S, NEW i \in 1..f[x]
      PROVE  <<x, i>> \in Units(f)
  <2>1. <<x, i>> \in {x} \X (1..f[x])
    OBVIOUS
  <2> QED
    BY <1>1, <2>1 DEF Units
<1> QED
  BY <1>2, <1>3

LEMMA TotalIsNat ==
    ASSUME NEW S, IsFiniteSet(S), NEW f \in [S -> Nat]
    PROVE  IsFiniteSet(Units(f)) /\ Total(f) = Cardinality(Units(f)) /\ Total(f) \in Nat
<1> DEFINE Part(x) == {x} \X (1..f[x])
           Parts == {Part(x) : x \in S}
           h == [x \in S |-> Part(x)]
<1>1. h \in Surjection(S, Parts)
  BY DEF Surjection
<1>2. IsFiniteSet(Parts)
  <2> HIDE DEF h, Parts
  <2> QED
    BY <1>1, FS_Surjection
<1>3. ASSUME NEW x \in S PROVE IsFiniteSet(Part(x))
  <2>1. IsFiniteSet({x}) /\ IsFiniteSet(1..f[x])
    <3>1. f[x] \in Int /\ 1 \in Int
      OBVIOUS
    <3> QED
      BY <3>1, FS_Singleton, FS_Interval
  <2> QED
    BY <2>1, FS_Product
<1>4. \A p \in Parts : IsFiniteSet(p)
  BY <1>3
<1>5. Units(f) = UNION Parts
  BY DEF Units
<1>6. IsFiniteSet(Units(f))
  <2> HIDE DEF Parts
  <2> QED
    BY <1>2, <1>4, <1>5, FS_UNION
<1>7. Total(f) = Cardinality(Units(f))
  BY DEF Total, Units
<1> QED
  BY <1>6, <1>7, FS_CardinalityType

LEMMA TotalUp ==
    ASSUME NEW S, IsFiniteSet(S), NEW f \in [S -> Nat], NEW h \in [S -> Nat], NEW x \in S,
           h[x] = f[x] + 1, \A y \in S \ {x} : h[y] = f[y]
    PROVE  Total(h) = Total(f) + 1
<1>1. \A u \in Units(h) : u \in Units(f) \/ u = <<x, h[x]>>
  <2> SUFFICES ASSUME NEW u \in Units(h), u # <<x, h[x]>> PROVE u \in Units(f)
    OBVIOUS
  <2>1. u = <<u[1], u[2]>> /\ u[1] \in S /\ u[2] \in 1..h[u[1]]
    BY UnitsAre
  <2>2. u[2] \in 1..f[u[1]]
    <3>1. CASE u[1] = x
      BY <2>1, <3>1
    <3>2. CASE u[1] # x
      BY <2>1, <3>2
    <3> QED
      BY <3>1, <3>2
  <2>3. <<u[1], u[2]>> \in Units(f)
    BY <2>1, <2>2, UnitsAre
  <2> QED
    BY <2>1, <2>3
<1>2. ASSUME NEW u \in Units(f) PROVE u \in Units(h)
  <2>1. u = <<u[1], u[2]>> /\ u[1] \in S /\ u[2] \in 1..f[u[1]]
    BY UnitsAre
  <2>2. u[2] \in 1..h[u[1]]
    <3>1. CASE u[1] = x
      BY <2>1, <3>1
    <3>2. CASE u[1] # x
      BY <2>1, <3>2
    <3> QED
      BY <3>1, <3>2
  <2>3. <<u[1], u[2]>> \in Units(h)
    BY <2>1, <2>2, UnitsAre
  <2> QED
    BY <2>1, <2>3
<1>3. <<x, h[x]>> \in Units(h)
  <2>1. h[x] \in 1..h[x]
    OBVIOUS
  <2> QED
    BY <2>1, UnitsAre
<1>4. <<x, h[x]>> \notin Units(f)
  <2> SUFFICES ASSUME <<x, h[x]>> \in Units(f) PROVE FALSE
    OBVIOUS
  <2>1. <<x, h[x]>>[2] \in 1..f[<<x, h[x]>>[1]]
    BY UnitsAre
  <2> QED
    BY <2>1
<1>5. Units(h) = Units(f) \cup {<<x, h[x]>>}
  BY <1>1, <1>2, <1>3
<1>6. IsFiniteSet(Units(f))
  BY TotalIsNat
<1>7. Cardinality(Units(h)) = Cardinality(Units(f)) + 1
  BY <1>4, <1>5, <1>6, FS_AddElement
<1> QED
  BY <1>7, TotalIsNat

LEMMA TotalLess ==
    ASSUME NEW S, IsFiniteSet(S), NEW f \in [S -> Nat],
           NEW T \in SUBSET S, NEW h \in [T -> Nat], \A x \in T : h[x] = f[x]
    PROVE  Total(h) <= Total(f)
<1>1. ASSUME NEW u \in Units(h) PROVE u \in Units(f)
  <2>1. u = <<u[1], u[2]>> /\ u[1] \in T /\ u[2] \in 1..h[u[1]]
    BY UnitsAre
  <2>2. u[1] \in S /\ u[2] \in 1..f[u[1]]
    BY <2>1
  <2>3. <<u[1], u[2]>> \in Units(f)
    BY <2>2, UnitsAre
  <2> QED
    BY <2>1, <2>3
<1>2. IsFiniteSet(T)
  BY FS_Subset
<1>3. Units(h) \in SUBSET Units(f) /\ IsFiniteSet(Units(f))
  BY <1>1, TotalIsNat
<1>4. Cardinality(Units(h)) <= Cardinality(Units(f))
  BY <1>3, FS_Subset
<1> QED
  BY <1>2, <1>4, TotalIsNat

LEMMA TotalOfZeros ==
    ASSUME NEW S, NEW f \in [S -> Nat], \A x \in S : f[x] = 0
    PROVE  Total(f) = 0
<1>1. \A u : u \notin Units(f)
  BY UnitsAre
<1>2. Units(f) = {}
  BY <1>1
<1> QED
  BY <1>2, FS_EmptySet DEF Total, Units

-----------------------------------------------------------------------------
(* The window of a client: its bucket, and all that was ever admitted.       *)

\* How many of these admissions are not before t.
Since(counts, t) == Total([u \in {v \in Instants : v >= t} |-> counts[u]])

SortedStamps(s) == \A i, j \in 1..Len(s) : i <= j => s[i] <= s[j]
Newer(s, now)   == s # <<>> /\ s[Len(s)] > now

\* The bucket has every admission since earliest, and only admissions.
Follows(s, counts, earliest) ==
    \A t \in Int : /\ t >= earliest => Since(counts, t) = Spans(s, t)
                   /\ Spans(s, t) <= Since(counts, t)

\* What a request at the bucket's lock finds there: its window, or a window that
\* is full anyway, or a timestamp newer than its own.
Remembers(s, counts, now) ==
    \/ Since(counts, now - Window) = Spans(s, now - Window)
    \/ Spans(s, now - Window) >= Limit
    \/ Newer(s, now)

LEMMA InstantsAre == LimiterAssumption => IsFiniteSet(Instants) /\ Instants \subseteq Nat
<1> SUFFICES ASSUME LimiterAssumption PROVE IsFiniteSet(Instants) /\ Instants \subseteq Nat
  OBVIOUS
<1>1. 0 \in Int /\ MaxClock \in Int
  BY DEF LimiterAssumption
<1> QED
  BY <1>1, FS_Interval DEF Instants

LEMMA SinceIs ==
    ASSUME LimiterAssumption, NEW counts \in [Instants -> Nat], NEW t \in Int
    PROVE  /\ Since(counts, t) \in Nat
           /\ \A u \in Int : t <= u => Since(counts, u) <= Since(counts, t)
<1> DEFINE Later(v) == {w \in Instants : w >= v}
           Part(v)  == [w \in Later(v) |-> counts[w]]
<1>1. \A v : IsFiniteSet(Later(v))
  BY InstantsAre, FS_Subset
<1>2. \A v : Part(v) \in [Later(v) -> Nat] /\ Since(counts, v) = Total(Part(v))
  BY DEF Since
<1>3. \A v : Since(counts, v) \in Nat
  <2> HIDE DEF Part, Later
  <2> QED
    BY <1>1, <1>2, TotalIsNat
<1>4. ASSUME NEW u \in Int, t <= u PROVE Since(counts, u) <= Since(counts, t)
  <2>1. Later(u) \in SUBSET Later(t)
    BY <1>4, InstantsAre
  <2>2. \A w \in Later(u) : Part(u)[w] = Part(t)[w]
    BY <2>1
  <2>3. Total(Part(u)) <= Total(Part(t))
    <3> HIDE DEF Part, Later
    <3> QED
      BY <1>1, <1>2, <2>1, <2>2, TotalLess
  <2> QED
    BY <1>2, <2>3
<1> QED
  BY <1>3, <1>4

LEMMA SinceUp ==
    ASSUME LimiterAssumption, NEW counts \in [Instants -> Nat], NEW now \in Instants,
           NEW more \in [Instants -> Nat], more[now] = counts[now] + 1,
           \A u \in Instants \ {now} : more[u] = counts[u], NEW t \in Int
    PROVE  /\ t <= now => Since(more, t) = Since(counts, t) + 1
           /\ ~(t <= now) => Since(more, t) = Since(counts, t)
<1> DEFINE later == {w \in Instants : w >= t}
           f == [w \in later |-> counts[w]]
           h == [w \in later |-> more[w]]
<1>2. now \in Int /\ IsFiniteSet(later)
  BY InstantsAre, FS_Subset
<1>3. f \in [later -> Nat] /\ h \in [later -> Nat]
  OBVIOUS
<1>4. Since(counts, t) = Total(f) /\ Since(more, t) = Total(h)
  BY DEF Since
<1>5. CASE t <= now
  <2>1. now \in later /\ h[now] = f[now] + 1 /\ \A w \in later \ {now} : h[w] = f[w]
    BY <1>2, <1>5
  <2>2. Total(h) = Total(f) + 1
    <3>1. IsFiniteSet(later) /\ f \in [later -> Nat] /\ h \in [later -> Nat] /\ now \in later
      BY <1>2, <1>3, <2>1
    <3> HIDE DEF f, h, later
    <3> QED
      BY <2>1, <3>1, TotalUp
  <2> QED
    BY <1>4, <1>5, <2>2
<1>6. CASE ~(t <= now)
  <2>1. now \notin later
    BY <1>2, <1>6
  <2>2. f = h
    BY <2>1
  <2> QED
    BY <1>4, <1>6, <2>2
<1> QED
  BY <1>5, <1>6

LEMMA SpansIsNat ==
    ASSUME NEW s \in Seq(Nat), NEW t \in Int
    PROVE  Spans(s, t) \in Nat /\ Spans(s, t) <= Len(s)
BY EvictedIs DEF Spans

LEMMA SpansOfEmpty == \A t \in Int : Spans(<<>>, t) = 0
<1> SUFFICES ASSUME NEW t \in Int PROVE Spans(<<>>, t) = 0
  OBVIOUS
<1> DEFINE s == <<>>
<1>1. s \in Seq(Nat) /\ Len(s) = 0
  OBVIOUS
<1> HIDE DEF s
<1>2. Spans(s, t) \in Nat /\ Spans(s, t) <= Len(s)
  BY <1>1, SpansIsNat
<1>3. Spans(s, t) = 0
  BY <1>1, <1>2
<1> QED
  BY <1>3 DEF s

\* An eviction leaves a sorted tail, with the same newest timestamp.
LEMMA EvictedSorted ==
    ASSUME NEW s \in Seq(Nat), NEW c \in Int, SortedStamps(s)
    PROVE  /\ SortedStamps(Evicted(s, c))
           /\ Evicted(s, c) # <<>> => s # <<>> /\ Evicted(s, c)[Len(Evicted(s, c))] = s[Len(s)]
           /\ \A i \in 1..Len(Evicted(s, c)) : s # <<>> /\ Evicted(s, c)[i] <= s[Len(s)]
<1> DEFINE e == Evicted(s, c)
           f == FirstKept(s, c)
<1>1. /\ f \in 1..(Len(s) + 1) /\ e \in Seq(Nat) /\ Len(e) = Len(s) + 1 - f
      /\ \A i \in 1..Len(e) : e[i] = s[f + i - 1]
  BY EvictedIs, FirstKeptIs
<1> HIDE DEF e, f
<1>2. \A i \in 1..Len(e) : f + i - 1 \in 1..Len(s)
  BY <1>1
<1>3. SortedStamps(e)
  <2> SUFFICES ASSUME NEW i \in 1..Len(e), NEW j \in 1..Len(e), i <= j PROVE e[i] <= e[j]
    BY DEF SortedStamps
  <2>1. f + i - 1 <= f + j - 1
    BY <1>1
  <2> QED
    BY <1>1, <1>2, <2>1 DEF SortedStamps
<1>4. ASSUME e # <<>> PROVE s # <<>> /\ e[Len(e)] = s[Len(s)]
  <2>1. Len(e) \in 1..Len(e) /\ f + Len(e) - 1 = Len(s)
    BY <1>1, <1>4
  <2>2. Len(s) \in 1..Len(s)
    BY <1>2, <2>1
  <2> QED
    BY <1>1, <2>1, <2>2
<1>5. ASSUME NEW i \in 1..Len(e) PROVE s # <<>> /\ e[i] <= s[Len(s)]
  <2>1. f + i - 1 \in 1..Len(s) /\ Len(s) \in 1..Len(s) /\ f + i - 1 <= Len(s)
    BY <1>1, <1>2
  <2>2. s[f + i - 1] <= s[Len(s)]
    BY <2>1 DEF SortedStamps
  <2> QED
    BY <1>1, <2>1, <2>2
<1> QED
  BY <1>3, <1>4, <1>5 DEF e

\* A refused request may leave evictions behind, which no other request misses:
\* either its cutoff is as old, or what it finds is a full window.
LEMMA RefusedWindow ==
    ASSUME LimiterAssumption, NEW s \in Seq(Nat), NEW counts \in [Instants -> Nat],
           NEW now \in Nat, NEW earliest \in Int, now - Window <= earliest,
           SortedStamps(s), Follows(s, counts, earliest), Spans(s, now - Window) >= Limit
    PROVE  LET e == Evicted(s, now - Window)
           IN  /\ SortedStamps(e) /\ Follows(e, counts, earliest)
               /\ \A n \in Nat : Remembers(s, counts, n) => Remembers(e, counts, n)
<1> DEFINE c == now - Window
           e == Evicted(s, c)
<1>1. c \in Int /\ c <= earliest /\ Limit \in Nat \ {0} /\ Window \in Nat
  BY DEF LimiterAssumption
<1>2. e \in Seq(Nat) /\ Len(e) = Spans(s, c) /\ e # <<>>
  <2>1. e \in Seq(Nat) /\ Len(e) = Spans(s, c)
    BY <1>1, EvictedIs DEF Spans
  <2>2. Len(e) # 0
    BY <1>1, <2>1
  <2> QED
    BY <2>1, <2>2
<1>3. \A t \in Int : Spans(e, t) = IF c <= t THEN Spans(s, t) ELSE Spans(s, c)
  BY <1>1, SpansAgain
<1>4. SortedStamps(e) /\ s # <<>> /\ e[Len(e)] = s[Len(s)]
  BY <1>1, <1>2, EvictedSorted
<1>5. \A t \in Int : t < c => Spans(s, c) <= Spans(s, t)
  BY <1>1, SpansLess
<1>6. \A t \in Int : Spans(s, t) \in Nat /\ Since(counts, t) \in Nat
  <2>1. \A t \in Int : Spans(s, t) \in Nat
    BY SpansIsNat
  <2>2. \A t \in Int : Since(counts, t) \in Nat
    BY SinceIs
  <2> QED
    BY <2>1, <2>2
<1>7. Spans(s, c) >= Limit
  OBVIOUS
<1> HIDE DEF c, e
<1>8. Follows(e, counts, earliest)
  <2> SUFFICES ASSUME NEW t \in Int
               PROVE  /\ t >= earliest => Since(counts, t) = Spans(e, t)
                      /\ Spans(e, t) <= Since(counts, t)
    BY DEF Follows
  <2>1. (t >= earliest => Since(counts, t) = Spans(s, t)) /\ Spans(s, t) <= Since(counts, t)
    BY DEF Follows
  <2>2. Spans(s, t) \in Nat /\ Since(counts, t) \in Nat /\ Spans(s, c) \in Nat
    BY <1>1, <1>6
  <2>3. CASE c <= t
    BY <1>3, <2>1, <2>3
  <2>4. CASE ~(c <= t)
    BY <1>1, <1>3, <1>5, <2>1, <2>2, <2>4
  <2> QED
    BY <2>3, <2>4
<1>9. ASSUME NEW n \in Nat, Remembers(s, counts, n) PROVE Remembers(e, counts, n)
  <2>1. n - Window \in Int
    BY <1>1
  <2>2. CASE c <= n - Window
    BY <1>2, <1>3, <1>4, <1>9, <2>1, <2>2 DEF Remembers, Newer
  <2>3. CASE ~(c <= n - Window)
    BY <1>3, <1>7, <2>1, <2>3 DEF Remembers
  <2> QED
    BY <2>2, <2>3
<1> QED
  BY <1>4, <1>8, <1>9 DEF c, e

\* An admitted request, that is not behind the bucket, is counted in its window
\* and in the windows of all others.
LEMMA AdmittedWindow ==
    ASSUME LimiterAssumption, NEW s \in Seq(Nat), NEW counts \in [Instants -> Nat],
           NEW now \in Instants, NEW earliest \in Int, now - Window <= earliest,
           SortedStamps(s), Follows(s, counts, earliest), ~Newer(s, now)
    PROVE  LET a    == Append(Evicted(s, now - Window), now)
               more == [counts EXCEPT ![now] = @ + 1]
           IN  /\ SortedStamps(a) /\ Follows(a, more, earliest)
               /\ \A n \in Nat : Remembers(s, counts, n) => Remembers(a, more, n)
<1> DEFINE c == now - Window
           e == Evicted(s, c)
           a == Append(e, now)
           more == [counts EXCEPT ![now] = @ + 1]
<1>1. c \in Int /\ c <= earliest /\ Limit \in Nat \ {0} /\ Window \in Nat /\ now \in Nat
  BY InstantsAre DEF LimiterAssumption
<1>2. e \in Seq(Nat) /\ \A i \in 1..Len(e) : e[i] <= now
  <2>1. e \in Seq(Nat)
    BY <1>1, EvictedIs
  <2>2. ASSUME NEW i \in 1..Len(e) PROVE e[i] <= now
    <3>1. s # <<>> /\ e[i] <= s[Len(s)]
      BY <1>1, EvictedSorted
    <3>2. Len(s) \in 1..Len(s)
      BY <3>1
    <3>3. s[Len(s)] \in Nat /\ ~(s[Len(s)] > now) /\ e[i] \in Nat
      BY <2>1, <3>1, <3>2 DEF Newer
    <3> QED
      BY <1>1, <3>1, <3>3
  <2> QED
    BY <2>1, <2>2
<1>3. ASSUME NEW i \in 1..Len(s) PROVE s[i] <= now
  <2>1. Len(s) \in 1..Len(s) /\ i <= Len(s) /\ s # <<>>
    OBVIOUS
  <2>2. s[i] <= s[Len(s)] /\ s[Len(s)] \in Nat /\ s[i] \in Nat /\ ~(s[Len(s)] > now)
    BY <2>1 DEF SortedStamps, Newer
  <2> QED
    BY <1>1, <2>2
<1>4. /\ a \in Seq(Nat) /\ Len(a) = Len(e) + 1 /\ a # <<>> /\ a[Len(a)] = now
      /\ \A i \in 1..Len(e) : a[i] = e[i]
  <2>1. /\ a \in Seq(Nat) /\ Len(a) = Len(e) + 1
        /\ \A i \in 1..Len(e) : a[i] = e[i]
        /\ a[Len(e) + 1] = now
    BY <1>1, <1>2, AppendProperties
  <2> HIDE DEF a, e
  <2> QED
    BY <2>1
<1>5. \A t \in Int : t <= now => Spans(a, t) = Spans(e, t) + 1
  BY <1>1, <1>2, SpansAppend
<1>6. \A t \in Int : ~(t <= now) => Spans(a, t) = 0 /\ Spans(s, t) = 0
  <2> SUFFICES ASSUME NEW t \in Int, ~(t <= now) PROVE Spans(a, t) = 0 /\ Spans(s, t) = 0
    OBVIOUS
  <2>1. \A i \in 1..Len(s) : s[i] < t
    BY <1>1, <1>3
  <2>2. ASSUME NEW i \in 1..Len(a) PROVE a[i] < t
    <3>1. CASE i = Len(a)
      BY <1>1, <1>4, <3>1
    <3>2. CASE i # Len(a)
      <4>1. i \in 1..Len(e)
        BY <1>2, <1>4, <3>2
      <4> QED
        BY <1>1, <1>2, <1>4, <4>1
    <3> QED
      BY <3>1, <3>2
  <2> HIDE DEF a
  <2> QED
    BY <1>4, <2>1, <2>2, SpansNone
<1>7. \A t \in Int : Spans(e, t) = IF c <= t THEN Spans(s, t) ELSE Spans(s, c)
  BY <1>1, SpansAgain
<1>8. \A t \in Int : /\ t <= now => Since(more, t) = Since(counts, t) + 1
                     /\ ~(t <= now) => Since(more, t) = Since(counts, t)
  <2> SUFFICES ASSUME NEW t \in Int
               PROVE  /\ t <= now => Since(more, t) = Since(counts, t) + 1
                      /\ ~(t <= now) => Since(more, t) = Since(counts, t)
    OBVIOUS
  <2>1. /\ more \in [Instants -> Nat] /\ more[now] = counts[now] + 1
        /\ \A u \in Instants \ {now} : more[u] = counts[u]
    OBVIOUS
  <2> HIDE DEF more
  <2> QED
    BY <2>1, SinceUp
<1>9. SortedStamps(a)
  <2>1. SortedStamps(e)
    BY <1>1, EvictedSorted
  <2> SUFFICES ASSUME NEW i \in 1..Len(a), NEW j \in 1..Len(a), i <= j PROVE a[i] <= a[j]
    BY DEF SortedStamps
  <2> HIDE DEF a, e
  <2>2. CASE j = Len(a)
    <3>1. CASE i = Len(a)
      BY <1>1, <1>4, <2>2, <3>1
    <3>2. CASE i # Len(a)
      <4>1. i \in 1..Len(e)
        BY <1>2, <1>4, <3>2
      <4> QED
        BY <1>2, <1>4, <2>2, <4>1
    <3> QED
      BY <3>1, <3>2
  <2>3. CASE j # Len(a)
    <3>1. i \in 1..Len(e) /\ j \in 1..Len(e)
      BY <1>2, <1>4, <2>3
    <3> QED
      BY <1>4, <2>1, <3>1 DEF SortedStamps
  <2> QED
    BY <2>2, <2>3
<1>10. \A t \in Int : Spans(s, t) \in Nat /\ Since(counts, t) \in Nat
  <2>1. \A t \in Int : Spans(s, t) \in Nat
    BY SpansIsNat
  <2>2. \A t \in Int : Since(counts, t) \in Nat
    BY SinceIs
  <2> QED
    BY <2>1, <2>2
<1>11. \A t \in Int : t < c => Spans(s, c) <= Spans(s, t)
  BY <1>1, SpansLess
<1>12. Follows(a, more, earliest)
  <2> HIDE DEF a, e, more, c
  <2> SUFFICES ASSUME NEW t \in Int
               PROVE  /\ t >= earliest => Since(more, t) = Spans(a, t)
                      /\ Spans(a, t) <= Since(more, t)
    BY DEF Follows
  <2>1. (t >= earliest => Since(counts, t) = Spans(s, t)) /\ Spans(s, t) <= Since(counts, t)
    BY DEF Follows
  <2>2. Spans(s, t) \in Nat /\ Since(counts, t) \in Nat /\ Spans(s, c) \in Nat
    BY <1>1, <1>10
  <2>3. CASE t <= now /\ c <= t
    <3>1. Spans(a, t) = Spans(s, t) + 1 /\ Since(more, t) = Since(counts, t) + 1
      BY <1>5, <1>7, <1>8, <2>3
    <3> QED
      BY <2>1, <2>2, <3>1
  <2>4. CASE t <= now /\ ~(c <= t)
    <3>1. Spans(a, t) = Spans(s, c) + 1 /\ Since(more, t) = Since(counts, t) + 1
      BY <1>5, <1>7, <1>8, <2>4
    <3>2. Spans(s, c) <= Spans(s, t) /\ ~(t >= earliest)
      BY <1>1, <1>11, <2>4
    <3> QED
      BY <2>1, <2>2, <3>1, <3>2
  <2>5. CASE ~(t <= now)
    <3>1. Spans(a, t) = 0 /\ Spans(s, t) = 0 /\ Since(more, t) = Since(counts, t)
      BY <1>6, <1>8, <2>5
    <3> QED
      BY <2>1, <2>2, <3>1
  <2> QED
    BY <2>3, <2>4, <2>5
<1>13. ASSUME NEW n \in Nat, Remembers(s, counts, n) PROVE Remembers(a, more, n)
  <2> DEFINE t == n - Window
  <2> HIDE DEF a, e, more
  <2>1. t \in Int
    BY <1>1
  <2>2. CASE n < now
    BY <1>4, <2>2 DEF Remembers, Newer
  <2>3. CASE ~(n < now)
    <3>1. c <= t /\ ~Newer(s, n)
      <4>1. s # <<>> => Len(s) \in 1..Len(s)
        OBVIOUS
      <4>2. s # <<>> => s[Len(s)] <= now /\ s[Len(s)] \in Nat
        BY <1>3, <4>1
      <4> QED
        BY <1>1, <2>3, <4>2 DEF Newer
    <3>2. Since(counts, t) = Spans(s, t) \/ Spans(s, t) >= Limit
      BY <1>13, <3>1 DEF Remembers
    <3>3. Spans(s, t) \in Nat /\ Since(counts, t) \in Nat
      BY <1>10, <2>1
    <3> HIDE DEF t
    <3>4. CASE t <= now
      <4>1. Spans(a, t) = Spans(s, t) + 1 /\ Since(more, t) = Since(counts, t) + 1
        BY <1>5, <1>7, <1>8, <2>1, <3>1, <3>4
      <4>2. Since(more, t) = Spans(a, t) \/ Spans(a, t) >= Limit
        BY <1>1, <3>2, <3>3, <4>1
      <4> QED
        BY <4>2 DEF Remembers, t
    <3>5. CASE ~(t <= now)
      <4>1. Spans(a, t) = 0 /\ Spans(s, t) = 0 /\ Since(more, t) = Since(counts, t)
        BY <1>6, <1>8, <2>1, <3>5
      <4>2. Since(more, t) = Spans(a, t)
        BY <1>1, <3>2, <4>1
      <4> QED
        BY <4>2 DEF Remembers, t
    <3> QED
      BY <3>4, <3>5
  <2> QED
    BY <2>2, <2>3
<1> QED
  BY <1>9, <1>12, <1>13

-----------------------------------------------------------------------------
(* The invariant of the limiter.                                             *)

Stamps(k) == IF buckets[k] = NoBucket THEN <<>> ELSE timestamps[buckets[k]]

\* No two clients share a bucket, a bucket in the map is used by requests of its
\* client only, and one that nobody refers to is empty.
BucketsInv ==
    /\ \A k, l \in Clients : k # l /\ buckets[k] # NoBucket => buckets[k] # buckets[l]
    /\ \A g \in Goroutines, k \in Clients :
          call[g] # NoCall /\ call[g].bucket = buckets[k] => call[g].client = k
    /\ \A b \in Buckets : b \notin HeldBy(call) \cup Mapped(buckets) => timestamps[b] = <<>>

\* Nobody has read a later time than it is.
ReadingsInv ==
    /\ clock <= MaxClock
    /\ \A g \in Goroutines : call[g].pc = "lock" => call[g].now <= clock
    /\ cleaner # Resting => cleaner.cutoff <= clock - Window

\* The bucket of an undisturbed client has every admission that a later reading
\* of the clock can ask for.
SlidingInv ==
    \A k \in Clients : ~disturbed[k] =>
        /\ SortedStamps(Stamps(k))
        /\ Follows(Stamps(k), admitted[k], clock - Window)
        /\ \A g \in Goroutines :
              call[g].pc = "lock" /\ call[g].bucket = buckets[k] =>
                  Remembers(Stamps(k), admitted[k], call[g].now)

LimiterInv == LimiterTypeOK /\ BucketsInv /\ ReadingsInv /\ SlidingInv

LimiterStep ==
    \/ \E g \in Goroutines, k \in Clients : Lookup(g, k)
    \/ \E g \in Goroutines : ReadClock(g) \/ Decide(g)
    \/ CleanTick \/ Clean \/ Tick
    \/ UNCHANGED limiterVars

\* The shape of a call, by its place.
LEMMA CallShapes ==
    ASSUME LimiterTypeOK, NEW g \in Goroutines
    PROVE  /\ call[g] # NoCall => call[g].client \in Clients /\ call[g].bucket \in Buckets
           /\ call[g].pc = "clock" => call[g] \in [pc: {"clock"}, client: Clients, bucket: Buckets]
           /\ call[g].pc = "lock" =>
                 call[g] \in [pc: {"lock"}, client: Clients, bucket: Buckets, now: Nat]
           /\ call[g] = NoCall \/ call[g].pc \in {"clock", "lock"}
<1>1. call[g] \in Calls
  BY DEF LimiterTypeOK
<1> QED
  BY <1>1 DEF Calls, NoCall

LEMMA StampsTyped ==
    ASSUME LimiterTypeOK, NEW k \in Clients
    PROVE  Stamps(k) \in Seq(Nat) /\ (buckets[k] = NoBucket \/ buckets[k] \in Buckets)
BY DEF LimiterTypeOK, Stamps

\* There are buckets for all clients and all requests, so one is free for a
\* client without a bucket and a request that has none yet.
LEMMA UnusedIsFree ==
    ASSUME LimiterAssumption, LimiterTypeOK, NEW g \in Goroutines, call[g] = NoCall,
           NEW k \in Clients, buckets[k] = NoBucket
    PROVE  Unused \in Buckets /\ Unused \notin HeldBy(call) \cup Mapped(buckets)
<1> DEFINE Callers == {h \in Goroutines : call[h] # NoCall}
           Others  == Goroutines \ {g}
           Rest    == Clients \ {k}
           held    == [h \in Callers |-> call[h].bucket]
           owned   == {l \in Rest : buckets[l] # NoBucket}
           map     == [l \in owned |-> buckets[l]]
<1>1. /\ IsFiniteSet(Others) /\ Cardinality(Others) = Cardinality(Goroutines) - 1
      /\ IsFiniteSet(Rest) /\ Cardinality(Rest) = Cardinality(Clients) - 1
      /\ Cardinality(Goroutines) \in Nat /\ Cardinality(Clients) \in Nat
  BY FS_RemoveElement, FS_CardinalityType DEF LimiterAssumption
<1>2. /\ IsFiniteSet(Callers) /\ Cardinality(Callers) <= Cardinality(Others)
      /\ IsFiniteSet(owned) /\ Cardinality(owned) <= Cardinality(Rest)
  <2>1. Callers \in SUBSET Others /\ owned \in SUBSET Rest
    OBVIOUS
  <2> HIDE DEF Callers, Others, Rest, owned
  <2> QED
    BY <1>1, <2>1, FS_Subset
<1>3. held \in Surjection(Callers, HeldBy(call))
  BY DEF HeldBy, Surjection
<1>4. map \in Surjection(owned, Mapped(buckets))
  BY DEF Mapped, Surjection
<1>5. /\ IsFiniteSet(HeldBy(call)) /\ Cardinality(HeldBy(call)) <= Cardinality(Callers)
      /\ IsFiniteSet(Mapped(buckets)) /\ Cardinality(Mapped(buckets)) <= Cardinality(owned)
  <2> HIDE DEF Callers, owned, held, map
  <2> QED
    BY <1>2, <1>3, <1>4, FS_Surjection
<1> DEFINE used == HeldBy(call) \cup Mapped(buckets)
<1>6. IsFiniteSet(used) /\ Cardinality(used) <= Cardinality(HeldBy(call)) + Cardinality(Mapped(buckets))
  <2>1. /\ IsFiniteSet(used)
        /\ Cardinality(used) = Cardinality(HeldBy(call)) + Cardinality(Mapped(buckets))
                               - Cardinality(HeldBy(call) \cap Mapped(buckets))
    BY <1>5, FS_Union
  <2>2. IsFiniteSet(HeldBy(call) \cap Mapped(buckets))
    BY <1>5, FS_Intersection
  <2>3. /\ Cardinality(HeldBy(call) \cap Mapped(buckets)) \in Nat
        /\ Cardinality(HeldBy(call)) \in Nat /\ Cardinality(Mapped(buckets)) \in Nat
    BY <1>5, <2>2, FS_CardinalityType
  <2> QED
    BY <2>1, <2>3
<1>7. IsFiniteSet(Buckets) /\ Cardinality(Buckets) = Cardinality(Clients) + Cardinality(Goroutines)
  <2> DEFINE n == Cardinality(Clients) + Cardinality(Goroutines)
  <2>1. n \in Nat /\ Buckets = 1..n
    BY <1>1 DEF Buckets
  <2> HIDE DEF n
  <2>2. IsFiniteSet(1..n) /\ Cardinality(1..n) = n
    BY <2>1, FS_Interval
  <2> QED
    BY <2>1, <2>2 DEF n
<1>8. ~(Buckets \subseteq used)
  <2> SUFFICES ASSUME Buckets \subseteq used PROVE FALSE
    OBVIOUS
  <2>1. Cardinality(Buckets) <= Cardinality(used)
    BY <1>6, FS_Subset
  <2>2. /\ Cardinality(HeldBy(call)) \in Nat /\ Cardinality(Mapped(buckets)) \in Nat
        /\ Cardinality(Callers) \in Nat /\ Cardinality(owned) \in Nat
        /\ Cardinality(Others) \in Nat /\ Cardinality(Rest) \in Nat
        /\ Cardinality(used) \in Nat
    BY <1>1, <1>2, <1>5, <1>6, FS_CardinalityType
  <2> HIDE DEF used, Callers, owned, Others, Rest
  <2> QED
    BY <1>1, <1>2, <1>5, <1>6, <1>7, <2>1, <2>2
<1> QED
  BY <1>8 DEF Unused

LEMMA LimiterInitInv == LimiterAssumption /\ LimiterInit => LimiterInv
<1> SUFFICES ASSUME LimiterAssumption, LimiterInit PROVE LimiterInv
  OBVIOUS
<1> USE DEF LimiterInit
<1>1. LimiterTypeOK
  <2>1. \A b \in Buckets : timestamps[b] = <<>>
    OBVIOUS
  <2>2. timestamps \in [Buckets -> Seq(Nat)] /\ \A b \in Buckets : Len(timestamps[b]) <= Limit
    BY <2>1 DEF LimiterAssumption
  <2>3. /\ call \in [Goroutines -> Calls] /\ cleaner \in {Resting}
        /\ disturbed \in [Clients -> BOOLEAN] /\ clock \in Nat
        /\ buckets \in [Clients -> Buckets \cup {NoBucket}]
        /\ admitted \in [Clients -> [Instants -> Nat]]
    BY DEF Calls
  <2> QED
    BY <2>2, <2>3 DEF LimiterTypeOK
<1>2. BucketsInv
  BY DEF BucketsInv, NoBucket
<1>3. ReadingsInv
  BY DEF ReadingsInv, LimiterAssumption, NoCall
<1>4. SlidingInv
  <2> SUFFICES ASSUME NEW k \in Clients
               PROVE  /\ SortedStamps(Stamps(k))
                      /\ Follows(Stamps(k), admitted[k], clock - Window)
                      /\ \A g \in Goroutines : call[g].pc # "lock"
    BY DEF SlidingInv
  <2>1. Stamps(k) = <<>> /\ <<>> \in Seq(Nat) /\ admitted[k] = [t \in Instants |-> 0]
    BY DEF Stamps
  <2>2. \A t \in Int : Spans(<<>>, t) = 0
    BY SpansOfEmpty
  <2>3. \A t \in Int : Since(admitted[k], t) = 0
    <3> SUFFICES ASSUME NEW t \in Int PROVE Since(admitted[k], t) = 0
      OBVIOUS
    <3> DEFINE later == {v \in Instants : v >= t}
               part == [u \in later |-> admitted[k][u]]
    <3>1. part \in [later -> Nat] /\ \A u \in later : part[u] = 0
      BY <2>1
    <3>2. Since(admitted[k], t) = Total(part)
      BY DEF Since
    <3> HIDE DEF part, later
    <3> QED
      BY <3>1, <3>2, TotalOfZeros
  <2>4. Follows(<<>>, admitted[k], clock - Window)
    BY <2>2, <2>3 DEF Follows
  <2> QED
    BY <2>1, <2>4 DEF SortedStamps, NoCall
<1> QED
  BY <1>1, <1>2, <1>3, <1>4 DEF LimiterInv

\* A later clock asks for no earlier admissions.
LEMMA FollowsLater ==
    ASSUME LimiterAssumption, NEW s, NEW counts, NEW now \in Nat, NEW later \in Nat, now <= later,
           Follows(s, counts, now - Window)
    PROVE  Follows(s, counts, later - Window)
BY DEF LimiterAssumption, Follows

\* A step that leaves the buckets of the clients as they are: the requests at a
\* lock were there before, or have just read the clock.
LEMMA SameWindow ==
    ASSUME LimiterAssumption, LimiterInv, LimiterTypeOK',
           \A k \in Clients : Stamps(k)' = Stamps(k),
           UNCHANGED <<admitted, disturbed>>, clock <= clock',
           \A g \in Goroutines, k \in Clients :
               call'[g].pc = "lock" /\ call'[g].bucket = buckets'[k] =>
                   \/ call'[g] = call[g] /\ buckets'[k] = buckets[k]
                   \/ call'[g].now = clock
    PROVE  SlidingInv'
<1> SUFFICES ASSUME NEW k \in Clients, ~disturbed[k]
             PROVE  /\ SortedStamps(Stamps(k))
                    /\ Follows(Stamps(k), admitted[k], clock' - Window)
                    /\ \A g \in Goroutines :
                          call'[g].pc = "lock" /\ call'[g].bucket = buckets'[k] =>
                              Remembers(Stamps(k), admitted[k], call'[g].now)
  BY DEF SlidingInv
<1>1. /\ SortedStamps(Stamps(k)) /\ Follows(Stamps(k), admitted[k], clock - Window)
      /\ clock \in Nat /\ clock' \in Nat /\ Window \in Nat
  BY DEF LimiterInv, SlidingInv, LimiterTypeOK, LimiterAssumption
<1>2. Follows(Stamps(k), admitted[k], clock' - Window)
  <2> DEFINE s == Stamps(k)
             counts == admitted[k]
  <2> HIDE DEF s, counts
  <2>1. Follows(s, counts, clock - Window)
    BY <1>1 DEF s, counts
  <2>2. Follows(s, counts, clock' - Window)
    BY <1>1, <2>1, FollowsLater
  <2> QED
    BY <2>2 DEF s, counts
<1>3. ASSUME NEW g \in Goroutines, call'[g].pc = "lock", call'[g].bucket = buckets'[k]
      PROVE  Remembers(Stamps(k), admitted[k], call'[g].now)
  <2>1. CASE call'[g] = call[g] /\ buckets'[k] = buckets[k]
    BY <1>3, <2>1 DEF LimiterInv, SlidingInv
  <2>2. CASE call'[g].now = clock
    <3>1. clock - Window \in Int /\ clock - Window >= clock - Window
      BY <1>1
    <3>2. Since(admitted[k], clock - Window) = Spans(Stamps(k), clock - Window)
      BY <1>1, <3>1 DEF Follows
    <3> QED
      BY <2>2, <3>2 DEF Remembers
  <2> QED
    BY <1>3, <2>1, <2>2
<1> QED
  BY <1>1, <1>2, <1>3

LEMMA LookupInv ==
    ASSUME LimiterAssumption, LimiterInv, NEW g \in Goroutines, NEW k \in Clients, Lookup(g, k)
    PROVE  LimiterInv'
<1> DEFINE b == IF buckets[k] = NoBucket THEN Unused ELSE buckets[k]
           c == [pc |-> "clock", client |-> k, bucket |-> b]
<1>1. /\ call[g] = NoCall /\ buckets' = [buckets EXCEPT ![k] = b] /\ call' = [call EXCEPT ![g] = c]
      /\ UNCHANGED <<clock, timestamps, cleaner, admitted, disturbed>>
  BY DEF Lookup
<1>2. /\ buckets \in [Clients -> Buckets \cup {NoBucket}] /\ call \in [Goroutines -> Calls]
      /\ LimiterTypeOK /\ BucketsInv
  BY DEF LimiterInv, LimiterTypeOK
<1>3. /\ b \in Buckets /\ b # NoBucket
      /\ buckets[k] = NoBucket => b \notin HeldBy(call) \cup Mapped(buckets) /\ timestamps[b] = <<>>
      /\ buckets[k] # NoBucket => b = buckets[k]
  <2>1. NoBucket \notin Buckets
    BY DEF NoBucket, Buckets
  <2>2. CASE buckets[k] = NoBucket
    BY <1>1, <1>2, <2>1, <2>2, UnusedIsFree DEF BucketsInv
  <2>3. CASE buckets[k] # NoBucket
    BY <1>2, <2>1, <2>3
  <2> QED
    BY <2>2, <2>3
<1> HIDE DEF b
<1>4. c \in Calls /\ c # NoCall /\ c.pc = "clock" /\ c.client = k /\ c.bucket = b
  BY <1>3 DEF Calls, NoCall
<1> HIDE DEF c
<1>5. /\ buckets' \in [Clients -> Buckets \cup {NoBucket}] /\ call' \in [Goroutines -> Calls]
      /\ buckets'[k] = b /\ \A l \in Clients \ {k} : buckets'[l] = buckets[l]
      /\ call'[g] = c /\ \A h \in Goroutines \ {g} : call'[h] = call[h]
  BY <1>1, <1>2, <1>3, <1>4
<1>6. LimiterTypeOK'
  BY <1>1, <1>2, <1>5 DEF LimiterTypeOK
<1>7. b \notin HeldBy(call) \cup Mapped(buckets) =>
          /\ \A l \in Clients : buckets[l] # b
          /\ \A h \in Goroutines : call[h] # NoCall => call[h].bucket # b
  BY <1>3 DEF HeldBy, Mapped
<1>8. BucketsInv'
  <2>1. ASSUME NEW l \in Clients, NEW m \in Clients, l # m, buckets'[l] # NoBucket
        PROVE  buckets'[l] # buckets'[m]
    BY <1>2, <1>3, <1>5, <1>7, <2>1 DEF BucketsInv
  <2>2. ASSUME NEW h \in Goroutines, NEW l \in Clients, call'[h] # NoCall, call'[h].bucket = buckets'[l]
        PROVE  call'[h].client = l
    <3>1. CASE h = g
      BY <1>2, <1>3, <1>4, <1>5, <1>7, <2>1, <2>2, <3>1 DEF BucketsInv
    <3>2. CASE h # g
      BY <1>2, <1>3, <1>5, <1>7, <2>2, <3>2 DEF BucketsInv
    <3> QED
      BY <3>1, <3>2
  <2>3. ASSUME NEW e \in Buckets, e \notin HeldBy(call') \cup Mapped(buckets')
        PROVE  timestamps'[e] = <<>>
    <3>1. e # b
      BY <1>4, <1>5, <2>3 DEF HeldBy
    <3>2. ASSUME e \in HeldBy(call) PROVE FALSE
      <4>1. PICK h \in Goroutines : call[h] # NoCall /\ e = call[h].bucket
        BY <3>2 DEF HeldBy
      <4>2. call'[h] = call[h]
        BY <1>1, <1>5, <4>1
      <4> QED
        BY <2>3, <4>1, <4>2 DEF HeldBy
    <3>3. ASSUME e \in Mapped(buckets) PROVE FALSE
      <4>1. PICK l \in Clients : e = buckets[l] /\ e # NoBucket
        BY <3>3 DEF Mapped
      <4>2. l # k
        BY <1>3, <3>1, <4>1
      <4>3. buckets'[l] = e
        BY <1>5, <4>1, <4>2
      <4> QED
        BY <2>3, <4>1, <4>3 DEF Mapped
    <3> QED
      BY <1>1, <1>2, <3>2, <3>3 DEF BucketsInv
  <2> QED
    BY <2>1, <2>2, <2>3 DEF BucketsInv
<1>9. ReadingsInv'
  <2>1. ASSUME NEW h \in Goroutines, call'[h].pc = "lock" PROVE call'[h].now <= clock
    BY <1>4, <1>5, <2>1 DEF LimiterInv, ReadingsInv
  <2> QED
    BY <1>1, <2>1 DEF LimiterInv, ReadingsInv
<1>10. SlidingInv'
  <2>1. ASSUME NEW l \in Clients PROVE Stamps(l)' = Stamps(l)
    BY <1>1, <1>3, <1>5 DEF Stamps
  <2>2. ASSUME NEW h \in Goroutines, NEW l \in Clients,
               call'[h].pc = "lock", call'[h].bucket = buckets'[l]
        PROVE  call'[h] = call[h] /\ buckets'[l] = buckets[l]
    <3>1. h # g /\ call'[h] = call[h] /\ call[h] # NoCall
      BY <1>4, <1>5, <2>2 DEF NoCall
    <3> QED
      BY <1>3, <1>5, <1>7, <2>2, <3>1
  <2>3. clock <= clock'
    BY <1>1, <1>2 DEF LimiterTypeOK
  <2> QED
    BY <1>1, <1>6, <2>1, <2>2, <2>3, SameWindow
<1> QED
  BY <1>6, <1>8, <1>9, <1>10 DEF LimiterInv

LEMMA ReadClockInv ==
    ASSUME LimiterAssumption, LimiterInv, NEW g \in Goroutines, ReadClock(g)
    PROVE  LimiterInv'
<1> DEFINE c == [pc |-> "lock", client |-> call[g].client, bucket |-> call[g].bucket, now |-> clock]
<1>1. /\ call[g].pc = "clock" /\ call \in [Goroutines -> Calls] /\ clock \in Nat
      /\ call' = [call EXCEPT ![g] = c] /\ LimiterTypeOK
      /\ UNCHANGED <<clock, buckets, timestamps, cleaner, admitted, disturbed>>
  BY DEF ReadClock, LimiterInv, LimiterTypeOK
<1>2. call[g].client \in Clients /\ call[g].bucket \in Buckets /\ call[g] # NoCall
  BY <1>1, CallShapes DEF NoCall
<1>3. /\ c \in Calls /\ c # NoCall /\ c.pc = "lock" /\ c.now = clock
      /\ c.client = call[g].client /\ c.bucket = call[g].bucket
  BY <1>1, <1>2 DEF Calls, NoCall
<1> HIDE DEF c
<1>4. /\ call' \in [Goroutines -> Calls]
      /\ call'[g] = c /\ \A h \in Goroutines \ {g} : call'[h] = call[h]
  BY <1>1, <1>3
<1>5. LimiterTypeOK'
  BY <1>1, <1>4 DEF LimiterTypeOK
<1>6. HeldBy(call') = HeldBy(call)
  BY <1>2, <1>3, <1>4 DEF HeldBy
<1>7. BucketsInv'
  <2>1. ASSUME NEW h \in Goroutines, NEW l \in Clients, call'[h] # NoCall, call'[h].bucket = buckets[l]
        PROVE  call'[h].client = l
    BY <1>2, <1>3, <1>4, <2>1 DEF LimiterInv, BucketsInv
  <2> QED
    BY <1>1, <1>6, <2>1 DEF LimiterInv, BucketsInv
<1>8. ReadingsInv'
  <2>1. ASSUME NEW h \in Goroutines, call'[h].pc = "lock" PROVE call'[h].now <= clock
    BY <1>1, <1>3, <1>4, <2>1 DEF LimiterInv, ReadingsInv
  <2> QED
    BY <1>1, <2>1 DEF LimiterInv, ReadingsInv
<1>9. SlidingInv'
  <2>1. ASSUME NEW l \in Clients PROVE Stamps(l)' = Stamps(l)
    BY <1>1 DEF Stamps
  <2>2. \A h \in Goroutines : call'[h] = call[h] \/ call'[h].now = clock
    BY <1>3, <1>4
  <2>3. clock <= clock'
    BY <1>1
  <2> QED
    BY <1>1, <1>5, <2>1, <2>2, <2>3, SameWindow
<1> QED
  BY <1>5, <1>7, <1>8, <1>9 DEF LimiterInv

\* Alive keeps what is referred to and wipes the rest.
LEMMA AliveIs ==
    ASSUME NEW stamps, NEW map, NEW calls
    PROVE  \A b \in Buckets :
               /\ b \in HeldBy(calls) \cup Mapped(map) => Alive(stamps, map, calls)[b] = stamps[b]
               /\ b \notin HeldBy(calls) \cup Mapped(map) => Alive(stamps, map, calls)[b] = <<>>
BY DEF Alive

LEMMA AliveTyped ==
    ASSUME LimiterAssumption, NEW stamps \in [Buckets -> Seq(Nat)],
           \A b \in Buckets : Len(stamps[b]) <= Limit, NEW map, NEW calls
    PROVE  /\ Alive(stamps, map, calls) \in [Buckets -> Seq(Nat)]
           /\ \A b \in Buckets : Len(Alive(stamps, map, calls)[b]) <= Limit
<1>1. Alive(stamps, map, calls) =
          [b \in Buckets |-> IF b \in HeldBy(calls) \cup Mapped(map) THEN stamps[b] ELSE <<>>]
  BY DEF Alive
<1>2. <<>> \in Seq(Nat) /\ Len(<<>>) <= Limit
  BY DEF LimiterAssumption
<1> QED
  BY <1>1, <1>2

LEMMA CleanInv ==
    ASSUME LimiterAssumption, LimiterInv, Clean
    PROVE  LimiterInv'
<1>1. /\ cleaner # Resting /\ cleaner' = Resting
      /\ buckets' = [k \in Clients |->
            IF buckets[k] # NoBucket /\ LooksIdle(timestamps[buckets[k]], cleaner.cutoff)
            THEN NoBucket ELSE buckets[k]]
      /\ timestamps' = Alive(timestamps, buckets', call)
      /\ UNCHANGED <<clock, call, admitted, disturbed>>
  BY DEF Clean
<1>2. LimiterTypeOK /\ BucketsInv /\ ReadingsInv /\ SlidingInv
  BY DEF LimiterInv
<1>3. /\ \A k \in Clients : buckets'[k] \in {buckets[k], NoBucket}
      /\ buckets' \in [Clients -> Buckets \cup {NoBucket}]
  BY <1>1, <1>2 DEF LimiterTypeOK
<1>4. timestamps' \in [Buckets -> Seq(Nat)] /\ \A b \in Buckets : Len(timestamps'[b]) <= Limit
  BY <1>1, <1>2, AliveTyped DEF LimiterTypeOK
<1>5. LimiterTypeOK'
  BY <1>1, <1>2, <1>3, <1>4 DEF LimiterTypeOK
<1>6. BucketsInv'
  <2>1. \A k, l \in Clients : k # l /\ buckets'[k] # NoBucket => buckets'[k] # buckets'[l]
    BY <1>2, <1>3 DEF BucketsInv
  <2>2. ASSUME NEW g \in Goroutines, NEW k \in Clients, call[g] # NoCall, call[g].bucket = buckets'[k]
        PROVE  call[g].client = k
    <3>1. call[g].bucket # NoBucket
      BY <1>2, <2>2, CallShapes DEF NoBucket, Buckets
    <3> QED
      BY <1>2, <1>3, <2>2, <3>1 DEF BucketsInv
  <2>3. ASSUME NEW b \in Buckets, b \notin HeldBy(call) \cup Mapped(buckets')
        PROVE  timestamps'[b] = <<>>
    BY <1>1, <2>3, AliveIs
  <2> QED
    BY <1>1, <2>1, <2>2, <2>3 DEF BucketsInv
<1>7. ReadingsInv'
  BY <1>1, <1>2 DEF ReadingsInv
<1>8. SlidingInv'
  <2> SUFFICES ASSUME NEW k \in Clients, ~disturbed[k]
               PROVE  /\ SortedStamps(Stamps(k)')
                      /\ Follows(Stamps(k)', admitted[k], clock - Window)
                      /\ \A g \in Goroutines :
                            call[g].pc = "lock" /\ call[g].bucket = buckets'[k] =>
                                Remembers(Stamps(k)', admitted[k], call[g].now)
    BY <1>1 DEF SlidingInv
  <2>1. /\ SortedStamps(Stamps(k)) /\ Follows(Stamps(k), admitted[k], clock - Window)
        /\ Stamps(k) \in Seq(Nat)
    BY <1>2, StampsTyped DEF SlidingInv
  <2>2. CASE buckets'[k] = buckets[k]
    <3>1. Stamps(k)' = Stamps(k)
      <4>1. buckets[k] # NoBucket => buckets[k] \in Buckets /\ buckets[k] \in Mapped(buckets')
        BY <1>2, <2>2, StampsTyped DEF Mapped
      <4>2. buckets[k] # NoBucket => timestamps'[buckets[k]] = timestamps[buckets[k]]
        BY <1>1, <4>1, AliveIs
      <4> QED
        BY <2>2, <4>2 DEF Stamps
    <3> QED
      BY <1>2, <2>1, <2>2, <3>1 DEF SlidingInv
  <2>3. CASE buckets'[k] # buckets[k]
    <3>1. /\ buckets'[k] = NoBucket /\ buckets[k] # NoBucket /\ Stamps(k)' = <<>>
          /\ LooksIdle(Stamps(k), cleaner.cutoff)
      BY <1>1, <1>3, <2>3 DEF Stamps
    <3>2. cleaner.cutoff \in Int /\ clock \in Nat /\ Window \in Nat /\ cleaner.cutoff <= clock - Window
      BY <1>1, <1>2 DEF LimiterTypeOK, ReadingsInv, LimiterAssumption
    <3> DEFINE s == Stamps(k)
    <3> HIDE DEF s
    <3>3. s \in Seq(Nat) /\ SortedStamps(s) /\ LooksIdle(s, cleaner.cutoff)
          /\ Follows(s, admitted[k], clock - Window)
      BY <2>1, <3>1 DEF s
    <3>4. ASSUME NEW i \in 1..Len(s) PROVE s[i] < clock - Window
      <4>1. Len(s) \in 1..Len(s) /\ i <= Len(s) /\ Len(s) # 0
        BY <3>3
      <4>2. s[i] <= s[Len(s)] /\ s[Len(s)] < cleaner.cutoff /\ s[i] \in Nat /\ s[Len(s)] \in Nat
        BY <3>3, <4>1 DEF SortedStamps, LooksIdle
      <4> QED
        BY <3>2, <4>2
    <3>5. Follows(<<>>, admitted[k], clock - Window)
      <4> SUFFICES ASSUME NEW t \in Int
                   PROVE  /\ t >= clock - Window => Since(admitted[k], t) = Spans(<<>>, t)
                          /\ Spans(<<>>, t) <= Since(admitted[k], t)
        BY DEF Follows
      <4>2. Spans(<<>>, t) = 0
        BY SpansOfEmpty
      <4>3. Since(admitted[k], t) \in Nat
        <5>1. admitted[k] \in [Instants -> Nat]
          BY <1>2 DEF LimiterTypeOK
        <5> QED
          BY <5>1, SinceIs
      <4>4. ASSUME t >= clock - Window PROVE Since(admitted[k], t) = 0
        <5>1. \A i \in 1..Len(s) : s[i] < t
          BY <3>2, <3>3, <3>4, <4>4
        <5>2. Spans(s, t) = 0
          BY <3>3, <5>1, SpansNone
        <5> QED
          BY <3>3, <4>4, <5>2 DEF Follows
      <4> QED
        BY <4>2, <4>3, <4>4
    <3>6. \A g \in Goroutines : call[g].pc = "lock" => call[g].bucket # buckets'[k]
      BY <1>2, <3>1, CallShapes DEF NoCall, NoBucket, Buckets
    <3> QED
      BY <3>1, <3>5, <3>6 DEF SortedStamps
  <2> QED
    BY <2>2, <2>3
<1> QED
  BY <1>5, <1>6, <1>7, <1>8 DEF LimiterInv

LEMMA ClocksInv ==
    ASSUME LimiterAssumption, LimiterInv, CleanTick \/ Tick \/ UNCHANGED limiterVars
    PROVE  LimiterInv'
<1>1. /\ UNCHANGED <<buckets, timestamps, call, admitted, disturbed>>
      /\ LimiterTypeOK /\ BucketsInv /\ ReadingsInv
  BY DEF CleanTick, Tick, limiterVars, LimiterInv
<1>2. clock \in Nat /\ Window \in Nat /\ MaxClock \in Nat /\ call \in [Goroutines -> Calls]
  BY <1>1 DEF LimiterTypeOK, LimiterAssumption
<1>3. clock' \in Nat /\ clock <= clock' /\ clock' <= MaxClock
  BY <1>1, <1>2 DEF CleanTick, Tick, limiterVars, ReadingsInv
<1>4. /\ cleaner' \in {Resting} \cup [pc: {"sweep"}, cutoff: Int]
      /\ cleaner' # Resting => cleaner'.cutoff <= clock' - Window
  <2>1. CASE CleanTick
    <3>1. cleaner' = [pc |-> "sweep", cutoff |-> clock - Window] /\ clock' = clock
      BY <2>1 DEF CleanTick
    <3> QED
      BY <1>2, <3>1
  <2>2. CASE Tick \/ UNCHANGED limiterVars
    <3>1. cleaner' = cleaner /\ cleaner \in {Resting} \cup [pc: {"sweep"}, cutoff: Int]
      BY <1>1, <2>2 DEF Tick, limiterVars, LimiterTypeOK
    <3>2. cleaner # Resting => cleaner.cutoff \in Int /\ cleaner.cutoff <= clock - Window
      BY <1>1, <3>1 DEF ReadingsInv
    <3> QED
      BY <1>2, <1>3, <3>1, <3>2
  <2> QED
    BY <2>1, <2>2
<1>5. LimiterTypeOK'
  BY <1>1, <1>3, <1>4 DEF LimiterTypeOK
<1>6. BucketsInv'
  BY <1>1 DEF BucketsInv
<1>7. ReadingsInv'
  <2>1. ASSUME NEW g \in Goroutines, call[g].pc = "lock" PROVE call[g].now <= clock'
    <3>1. call[g].now \in Nat /\ call[g].now <= clock
      BY <1>1, <2>1, CallShapes DEF ReadingsInv
    <3> QED
      BY <1>2, <1>3, <3>1
  <2> QED
    BY <1>1, <1>3, <1>4, <2>1 DEF ReadingsInv
<1>8. SlidingInv'
  <2>1. \A k \in Clients : Stamps(k)' = Stamps(k)
    BY <1>1 DEF Stamps
  <2> QED
    BY <1>1, <1>3, <1>5, <2>1, SameWindow
<1> QED
  BY <1>5, <1>6, <1>7, <1>8 DEF LimiterInv

\* The timestamps that a decision leaves in its bucket.
Decided(g) == IF Admits(g) THEN Append(KeptBy(g), call[g].now) ELSE KeptBy(g)

\* What deciding does to types and buckets.  The call is over; its bucket has the
\* new timestamps if anybody still refers to it, and the others keep theirs.
LEMMA DecideStep ==
    ASSUME LimiterAssumption, LimiterInv, NEW g \in Goroutines, Decide(g)
    PROVE  /\ call'[g] = NoCall /\ \A h \in Goroutines \ {g} : call'[h] = call[h]
           /\ call' \in [Goroutines -> Calls]
           /\ timestamps' \in [Buckets -> Seq(Nat)]
           /\ \A e \in Buckets : Len(timestamps'[e]) <= Limit
           /\ \A e \in Mapped(buckets) :
                 timestamps'[e] = IF e = call[g].bucket THEN Decided(g) ELSE timestamps[e]
           /\ BucketsInv'
<1> DEFINE b == call[g].bucket
           s == Decided(g)
           stamps == [timestamps EXCEPT ![b] = s]
<1>1. /\ call[g].pc = "lock" /\ call' = [call EXCEPT ![g] = NoCall]
      /\ timestamps' = Alive(stamps, buckets, call') /\ UNCHANGED buckets
  BY DEF Decide, Decided
<1>2. /\ LimiterTypeOK /\ BucketsInv /\ call \in [Goroutines -> Calls] /\ call[g] # NoCall
      /\ timestamps \in [Buckets -> Seq(Nat)] /\ \A e \in Buckets : Len(timestamps[e]) <= Limit
      /\ Limit \in Nat \ {0} /\ Window \in Nat
  BY <1>1 DEF LimiterInv, LimiterTypeOK, LimiterAssumption, NoCall
<1>3. b \in Buckets /\ call[g].now \in Nat /\ timestamps[b] \in Seq(Nat)
  BY <1>1, <1>2, CallShapes
<1>4. s \in Seq(Nat) /\ Len(s) <= Limit
  <2>1. /\ KeptBy(g) = Evicted(timestamps[b], call[g].now - Window)
        /\ call[g].now - Window \in Int
    BY <1>2, <1>3 DEF KeptBy
  <2>2. KeptBy(g) \in Seq(Nat) /\ Len(KeptBy(g)) \in 0..Len(timestamps[b])
    BY <1>3, <2>1, EvictedIs
  <2>3. CASE Admits(g)
    <3>1. Len(KeptBy(g)) < Limit /\ s = Append(KeptBy(g), call[g].now)
      BY <2>3 DEF Admits, HasRoom, Decided
    <3> QED
      BY <1>2, <1>3, <2>2, <3>1
  <2>4. CASE ~Admits(g)
    <3>1. s = KeptBy(g) /\ Len(timestamps[b]) <= Limit
      BY <1>2, <1>3, <2>4 DEF Decided
    <3> QED
      BY <1>2, <1>3, <2>2, <3>1
  <2> QED
    BY <2>3, <2>4
<1>5. /\ call'[g] = NoCall /\ \A h \in Goroutines \ {g} : call'[h] = call[h]
      /\ call' \in [Goroutines -> Calls]
  BY <1>1, <1>2 DEF Calls
<1>6. /\ stamps \in [Buckets -> Seq(Nat)] /\ \A e \in Buckets : Len(stamps[e]) <= Limit
      /\ \A e \in Buckets : stamps[e] = IF e = b THEN s ELSE timestamps[e]
  BY <1>2, <1>3, <1>4
<1> HIDE DEF stamps
<1>7. timestamps' \in [Buckets -> Seq(Nat)] /\ \A e \in Buckets : Len(timestamps'[e]) <= Limit
  BY <1>1, <1>6, AliveTyped
<1>8. Mapped(buckets) \subseteq Buckets
  BY <1>2 DEF Mapped, LimiterTypeOK
<1>9. ASSUME NEW e \in Mapped(buckets) PROVE timestamps'[e] = IF e = b THEN s ELSE timestamps[e]
  <2>1. e \in Buckets /\ e \in HeldBy(call') \cup Mapped(buckets)
    BY <1>8
  <2>2. timestamps'[e] = stamps[e]
    BY <1>1, <2>1, AliveIs
  <2> HIDE DEF b, s
  <2> QED
    BY <1>6, <2>1, <2>2
<1>10. BucketsInv'
  <2>1. ASSUME NEW h \in Goroutines, NEW k \in Clients, call'[h] # NoCall, call'[h].bucket = buckets[k]
        PROVE  call'[h].client = k
    <3>1. h # g /\ call'[h] = call[h]
      BY <1>5, <2>1
    <3> QED
      BY <1>2, <2>1, <3>1 DEF BucketsInv
  <2>2. ASSUME NEW e \in Buckets, e \notin HeldBy(call') \cup Mapped(buckets)
        PROVE  timestamps'[e] = <<>>
    BY <1>1, <2>2, AliveIs
  <2> QED
    BY <1>1, <1>2, <2>1, <2>2 DEF BucketsInv
<1> QED
  BY <1>3, <1>4, <1>5, <1>7, <1>9, <1>10

\* What deciding does to the windows: those of other clients, and of its own if
\* its bucket is no longer the client's, stay as they are.
LEMMA DecideWindow ==
    ASSUME LimiterAssumption, LimiterInv, NEW g \in Goroutines, Decide(g),
           NEW k \in Clients, ~disturbed'[k]
    PROVE  /\ ~disturbed[k]
           /\ SortedStamps(Stamps(k)')
           /\ Follows(Stamps(k)', admitted'[k], clock - Window)
           /\ \A h \in Goroutines :
                 /\ call'[h].pc = "lock" /\ call'[h].bucket = buckets[k] =>
                        Remembers(Stamps(k)', admitted'[k], call'[h].now)
<1> DEFINE b == call[g].bucket
           now == call[g].now
           s == Decided(g)
           before == Stamps(k)
           after == Stamps(k)'
           counts == admitted[k]
           more == admitted'[k]
<1>1. /\ call[g].pc = "lock" /\ UNCHANGED <<clock, buckets, cleaner>>
      /\ IF Admits(g)
         THEN /\ admitted' = [admitted EXCEPT ![call[g].client][now] = @ + 1]
              /\ disturbed' = [disturbed EXCEPT ![call[g].client] = @ \/ ~InOrder(g)]
         ELSE UNCHANGED <<admitted, disturbed>>
  BY DEF Decide
<1>2. /\ LimiterTypeOK /\ BucketsInv /\ ReadingsInv /\ call[g] # NoCall
      /\ Limit \in Nat \ {0} /\ Window \in Nat /\ clock \in Nat /\ MaxClock \in Nat
      /\ admitted \in [Clients -> [Instants -> Nat]] /\ disturbed \in [Clients -> BOOLEAN]
  BY <1>1 DEF LimiterInv, LimiterTypeOK, LimiterAssumption, NoCall
<1>3. /\ b \in Buckets /\ call[g].client \in Clients /\ now \in Nat /\ now <= clock
      /\ now \in Instants /\ now - Window <= clock - Window
  <2>1. b \in Buckets /\ call[g].client \in Clients /\ now \in Nat /\ now <= clock /\ clock <= MaxClock
    BY <1>1, <1>2, CallShapes DEF ReadingsInv
  <2> QED
    BY <1>2, <2>1 DEF Instants
<1>4. /\ call'[g] = NoCall /\ \A h \in Goroutines \ {g} : call'[h] = call[h]
      /\ \A e \in Mapped(buckets) : timestamps'[e] = IF e = b THEN s ELSE timestamps[e]
  BY DecideStep
<1>5. ~disturbed[k]
  BY <1>1, <1>2, <1>3
<1>6. /\ SortedStamps(before) /\ Follows(before, counts, clock - Window) /\ before \in Seq(Nat)
      /\ counts \in [Instants -> Nat]
      /\ \A h \in Goroutines : call[h].pc = "lock" /\ call[h].bucket = buckets[k] =>
                                   Remembers(before, counts, call[h].now)
  BY <1>2, <1>5, StampsTyped DEF LimiterInv, SlidingInv
<1>7. buckets[k] = NoBucket \/ buckets[k] \in Mapped(buckets)
  BY DEF Mapped
<1>8. NoBucket # b
  BY <1>3 DEF NoBucket, Buckets
\* It is enough to show that what a request remembers it goes on remembering.
<1>9. ASSUME SortedStamps(after), Follows(after, more, clock - Window),
             \A n \in Nat : Remembers(before, counts, n) => Remembers(after, more, n)
      PROVE  \A h \in Goroutines : call'[h].pc = "lock" /\ call'[h].bucket = buckets[k] =>
                                       Remembers(after, more, call'[h].now)
  <2> SUFFICES ASSUME NEW h \in Goroutines, call'[h].pc = "lock", call'[h].bucket = buckets[k]
               PROVE  Remembers(after, more, call'[h].now)
    OBVIOUS
  <2>1. call'[h] = call[h]
    BY <1>4 DEF NoCall
  <2>2. call[h].now \in Nat
    BY <1>2, <2>1, CallShapes
  <2> HIDE DEF before, after, counts, more
  <2> QED
    BY <1>6, <1>9, <2>1, <2>2
<1>10. CASE buckets[k] # b
  <2>1. after = before
    BY <1>1, <1>4, <1>7, <1>10 DEF Stamps
  <2>2. more = counts
    <3>1. CASE k # call[g].client
      BY <1>1, <1>2, <3>1
    <3>2. CASE k = call[g].client
      BY <1>1, <1>2, <1>10, <3>2 DEF InOrder
    <3> QED
      BY <3>1, <3>2
  <2> HIDE DEF before, after, counts, more
  <2> QED
    BY <1>5, <1>6, <1>9, <2>1, <2>2 DEF before, after, counts, more
<1>11. CASE buckets[k] = b
  <2>1. k = call[g].client
    BY <1>2, <1>11 DEF BucketsInv
  <2>2. before = timestamps[b] /\ after = s /\ KeptBy(g) = Evicted(before, now - Window)
    BY <1>1, <1>4, <1>7, <1>8, <1>11 DEF Stamps, KeptBy
  <2>3. CASE Admits(g)
    <3>1. more = [counts EXCEPT ![now] = @ + 1] /\ InOrder(g)
      BY <1>1, <1>2, <2>1, <2>3
    <3>2. ~Newer(before, now)
      <4>1. before # <<>> => before[Len(before)] <= now
        BY <2>2, <3>1 DEF InOrder
      <4>2. before # <<>> => before[Len(before)] \in Nat
        BY <1>6
      <4> QED
        BY <1>3, <4>1, <4>2 DEF Newer
    <3>3. after = Append(Evicted(before, now - Window), now)
      BY <2>2, <2>3 DEF Decided
    <3> HIDE DEF before, after, counts, more, now
    <3>4. /\ SortedStamps(after) /\ Follows(after, more, clock - Window)
          /\ \A n \in Nat : Remembers(before, counts, n) => Remembers(after, more, n)
      <4>1. clock - Window \in Int
        BY <1>2
      <4> QED
        BY <1>3, <1>6, <3>1, <3>2, <3>3, <4>1, AdmittedWindow
    <3> QED
      BY <1>5, <1>9, <3>4 DEF before, after, counts, more
  <2>4. CASE ~Admits(g)
    <3>1. more = counts /\ after = Evicted(before, now - Window)
      BY <1>1, <2>2, <2>4 DEF Decided
    <3>2. Spans(before, now - Window) >= Limit
      <4>1. ~(Len(KeptBy(g)) < Limit)
        BY <1>1, <2>4 DEF Admits, HasRoom
      <4>2. Len(KeptBy(g)) = Spans(before, now - Window)
        BY <2>2 DEF Spans
      <4>3. Spans(before, now - Window) \in Nat
        <5>1. now - Window \in Int
          BY <1>2, <1>3
        <5> QED
          BY <1>6, <5>1, SpansIsNat
      <4> QED
        BY <1>2, <4>1, <4>2, <4>3
    <3> HIDE DEF before, after, counts, more, now
    <3>3. /\ SortedStamps(after) /\ Follows(after, more, clock - Window)
          /\ \A n \in Nat : Remembers(before, counts, n) => Remembers(after, more, n)
      <4>1. clock - Window \in Int
        BY <1>2
      <4> QED
        BY <1>3, <1>6, <3>1, <3>2, <4>1, RefusedWindow
    <3> QED
      BY <1>5, <1>9, <3>3 DEF before, after, counts, more
  <2> QED
    BY <2>3, <2>4
<1> QED
  BY <1>10, <1>11

LEMMA DecideInv ==
    ASSUME LimiterAssumption, LimiterInv, NEW g \in Goroutines, Decide(g)
    PROVE  LimiterInv'
<1>1. /\ UNCHANGED <<clock, buckets, cleaner>>
      /\ \/ /\ admitted' = [admitted EXCEPT ![call[g].client][call[g].now] = @ + 1]
            /\ disturbed' = [disturbed EXCEPT ![call[g].client] = @ \/ ~InOrder(g)]
         \/ UNCHANGED <<admitted, disturbed>>
  BY DEF Decide
<1>2. /\ LimiterTypeOK /\ ReadingsInv
      /\ admitted \in [Clients -> [Instants -> Nat]] /\ disturbed \in [Clients -> BOOLEAN]
  BY DEF LimiterInv, LimiterTypeOK
<1>3. /\ call'[g] = NoCall /\ \A h \in Goroutines \ {g} : call'[h] = call[h]
      /\ call' \in [Goroutines -> Calls]
      /\ timestamps' \in [Buckets -> Seq(Nat)]
      /\ \A e \in Buckets : Len(timestamps'[e]) <= Limit
      /\ BucketsInv'
  BY DecideStep
<1>4. admitted' \in [Clients -> [Instants -> Nat]] /\ disturbed' \in [Clients -> BOOLEAN]
  <2>1. InOrder(g) \in BOOLEAN
    BY DEF InOrder
  <2>2. call[g].client \in Clients
    BY <1>2, CallShapes DEF Decide, NoCall
  <2>3. call[g].now \in Instants
    <3>1. call[g].now \in Nat /\ call[g].now <= clock /\ clock <= MaxClock /\ clock \in Nat
      BY <1>2, CallShapes DEF Decide, ReadingsInv, LimiterTypeOK
    <3> QED
      BY <3>1 DEF Instants, LimiterAssumption
  <2>4. [admitted[call[g].client] EXCEPT ![call[g].now] = @ + 1] \in [Instants -> Nat]
    <3> DEFINE counts == admitted[call[g].client]
    <3>1. counts \in [Instants -> Nat]
      BY <1>2, <2>2
    <3> HIDE DEF counts
    <3>2. [counts EXCEPT ![call[g].now] = counts[call[g].now] + 1] \in [Instants -> Nat]
      BY <2>3, <3>1
    <3> QED
      BY <3>2 DEF counts
  <2> QED
    BY <1>1, <1>2, <2>1, <2>2, <2>4
<1>5. LimiterTypeOK'
  BY <1>1, <1>2, <1>3, <1>4 DEF LimiterTypeOK
<1>6. ReadingsInv'
  <2>1. ASSUME NEW h \in Goroutines, call'[h].pc = "lock" PROVE call'[h].now <= clock
    BY <1>2, <1>3, <2>1 DEF ReadingsInv, NoCall
  <2> QED
    BY <1>1, <1>2, <2>1 DEF ReadingsInv
<1>7. SlidingInv'
  <2>1. ASSUME NEW k \in Clients, ~disturbed'[k]
        PROVE  /\ SortedStamps(Stamps(k)')
               /\ Follows(Stamps(k)', admitted'[k], clock - Window)
               /\ \A h \in Goroutines :
                     call'[h].pc = "lock" /\ call'[h].bucket = buckets[k] =>
                         Remembers(Stamps(k)', admitted'[k], call'[h].now)
    BY <2>1, DecideWindow
  <2> QED
    BY <1>1, <2>1 DEF SlidingInv
<1> QED
  BY <1>3, <1>5, <1>6, <1>7 DEF LimiterInv

LEMMA LimiterStepInv ==
    ASSUME LimiterAssumption, LimiterInv, LimiterStep
    PROVE  LimiterInv'
BY LookupInv, ReadClockInv, DecideInv, CleanInv, ClocksInv DEF LimiterStep

\* The window slides exactly.
LEMMA WindowIsExact ==
    ASSUME LimiterAssumption, LimiterInv
    PROVE  ExactWindow
<1> SUFFICES ASSUME NEW g \in Goroutines, call[g].pc = "lock", ~disturbed[call[g].client], InOrder(g)
             PROVE  Admits(g) <=> AdmittedSince(call[g].client, call[g].now - Window) < Limit
  BY DEF ExactWindow
<1> DEFINE k == call[g].client
           t == call[g].now - Window
           s == Stamps(k)
<1>1. k \in Clients /\ call[g].bucket \in Buckets /\ call[g].now \in Nat /\ call[g].bucket = buckets[k]
  BY CallShapes DEF LimiterInv, InOrder, NoCall
<1>2. s = timestamps[call[g].bucket] /\ s \in Seq(Nat)
  <2>1. buckets[k] # NoBucket
    BY <1>1 DEF NoBucket, Buckets
  <2> QED
    BY <1>1, <2>1, StampsTyped DEF Stamps, LimiterInv
<1>3. /\ Limit \in Nat \ {0} /\ t \in Int /\ admitted[k] \in [Instants -> Nat]
      /\ AdmittedSince(k, t) = Since(admitted[k], t)
  BY <1>1 DEF LimiterAssumption, LimiterInv, LimiterTypeOK, AdmittedSince, Since
<1>4. /\ ~Newer(s, call[g].now) /\ Remembers(s, admitted[k], call[g].now)
      /\ Follows(s, admitted[k], clock - Window)
  <2>1. Remembers(s, admitted[k], call[g].now) /\ Follows(s, admitted[k], clock - Window)
    BY <1>1 DEF LimiterInv, SlidingInv
  <2>2. s # <<>> => s[Len(s)] <= call[g].now /\ s[Len(s)] \in Nat
    BY <1>2 DEF InOrder
  <2> QED
    BY <1>1, <2>1, <2>2 DEF Newer
<1>5. Admits(g) <=> Spans(s, t) < Limit
  BY <1>2 DEF Admits, HasRoom, KeptBy, Spans
<1> HIDE DEF s
<1>6. Since(admitted[k], t) = Spans(s, t) \/ Spans(s, t) >= Limit
  BY <1>4 DEF Remembers
<1>7. Spans(s, t) <= Since(admitted[k], t)
  BY <1>3, <1>4 DEF Follows
<1>8. Spans(s, t) \in Nat /\ Since(admitted[k], t) \in Nat
  BY <1>2, <1>3, SpansIsNat, SinceIs
<1>9. Admits(g) <=> AdmittedSince(k, t) < Limit
  <2> HIDE DEF k, t
  <2> QED
    BY <1>3, <1>5, <1>6, <1>7, <1>8
<1> QED
  BY <1>9

\* A step of the server is a step of the limiter, or leaves it alone.
LEMMA StepsLimit == [Next]_vars => LimiterStep
<1> SUFFICES ASSUME [Next]_vars PROVE LimiterStep
  OBVIOUS
<1>1. CASE UNCHANGED vars
  BY <1>1 DEF vars, LimiterStep
<1>2. CASE Background
  BY <1>2 DEF Background, LimiterStep
<1>3. ASSUME NEW g \in Goroutines, Step(g)
      PROVE  LimiterStep
  <2>1. ASSUME NEW k \in Clients, NEW kind \in Kinds, Arrive(g, k, kind) PROVE LimiterStep
    BY <2>1 DEF Arrive, LimiterStep
  <2>2. CASE InLimiter(g) \/ PassLimiter(g)
    BY <2>2 DEF InLimiter, PassLimiter, LimiterStep
  <2>3. CASE UNCHANGED limiterVars
    BY <2>3 DEF LimiterStep
  <2> QED
    BY <1>3, <2>1, <2>2, <2>3 DEF Step, Authorize, Handle, HandlerPanics, LogOutcome, CountEntries,
        SetGauge, ReadyCopies, ReadyVerifies, CountRequest, TimeRequest, InMetrics, Done
<1> QED
  BY <1>1, <1>2, <1>3 DEF Next

LEMMA LimiterInvariance == Spec => []LimiterInv
<1>1. LimiterAssumption
  BY LimiterAssumption
<1>2. Init => LimiterInv
  BY <1>1, LimiterInitInv DEF Init
<1>3. LimiterInv /\ [Next]_vars => LimiterInv'
  BY <1>1, StepsLimit, LimiterStepInv
<1> QED
  BY <1>2, <1>3, PTL DEF Spec

\* A request is admitted exactly if fewer than Limit of its client's were
\* admitted in the window that ends with it: no eviction and no sweep of the
\* cleaner loses an admission that a later request has to count.
THEOREM WindowSlides == Spec => []ExactWindow
<1>1. LimiterInv => ExactWindow
  BY LimiterAssumption, WindowIsExact
<1> QED
  BY <1>1, LimiterInvariance, PTL

-----------------------------------------------------------------------------
(* The metrics of a request: which series it is on its way to.               *)

\* A goroutine inside With or after it is at the place of that family, with the
\* labels of its request, and the series it adds to is the one in the map.
MeterInv ==
    /\ MetricsTypeOK
    /\ \A g \in Goroutines :
          /\ meter[g].pc = "add" => meter[g].id = series[meter[g].family][meter[g].key]
          /\ meter[g] # NotMetering =>
                \/ /\ At(g, "counting")
                   /\ meter[g].family = "requests"
                   /\ meter[g].key = <<request[g].kind, request[g].status>>
                \/ /\ At(g, "timing")
                   /\ meter[g].family = "durations"
                   /\ meter[g].key = <<request[g].kind>>

\* A step leaves the requests and meters of all others alone.
Alone(g) == \A h \in Goroutines \ {g} : request'[h] = request[h] /\ meter'[h] = meter[h]

LEMMA MeteringIs ==
    \A x : x \in Metering <=>
        \/ x = NotMetering
        \/ \E f \in Families : x \in [pc: {"create"}, family: {f}, key: KeysOf(f)]
        \/ \E f \in Families : x \in [pc: {"add"}, family: {f}, key: KeysOf(f), id: Objects]
<1> DEFINE C(f) == [pc: {"create"}, family: {f}, key: KeysOf(f)]
           A(f) == [pc: {"add"}, family: {f}, key: KeysOf(f), id: Objects]
<1>1. \A x : x \in Metering <=>
        \/ x = NotMetering
        \/ x \in UNION {C(f) : f \in Families}
        \/ x \in UNION {A(f) : f \in Families}
  BY Zenon DEF Metering
<1> HIDE DEF C, A
<1>2. \A x : x \in UNION {C(f) : f \in Families} <=> \E f \in Families : x \in C(f)
  BY Zenon
<1>3. \A x : x \in UNION {A(f) : f \in Families} <=> \E f \in Families : x \in A(f)
  BY Zenon
<1>4. \A x : x \in Metering <=>
        \/ x = NotMetering
        \/ \E f \in Families : x \in C(f)
        \/ \E f \in Families : x \in A(f)
  BY <1>1, <1>2, <1>3, Zenon
<1> QED
  BY <1>4 DEF C, A

\* The shape of a meter, by its place.
LEMMA MeterShapes ==
    ASSUME MetricsTypeOK, NEW g \in Goroutines
    PROVE  /\ meter[g] = NotMetering \/ meter[g].pc \in {"create", "add"}
           /\ meter[g].pc \in {"create", "add"} =>
                 /\ meter[g] # NotMetering
                 /\ meter[g].family \in Families
                 /\ meter[g].key \in KeysOf(meter[g].family)
           /\ meter[g].pc = "add" => meter[g].id \in Objects
<1>1. meter[g] \in Metering
  BY DEF MetricsTypeOK
<1>2. CASE meter[g] = NotMetering
  BY <1>2 DEF NotMetering
<1>3. ASSUME NEW f \in Families, meter[g] \in [pc: {"create"}, family: {f}, key: KeysOf(f)]
      PROVE  /\ meter[g].pc = "create" /\ meter[g] # NotMetering
             /\ meter[g].family = f /\ meter[g].key \in KeysOf(f)
  BY <1>3 DEF NotMetering
<1>4. ASSUME NEW f \in Families, meter[g] \in [pc: {"add"}, family: {f}, key: KeysOf(f), id: Objects]
      PROVE  /\ meter[g].pc = "add" /\ meter[g] # NotMetering
             /\ meter[g].family = f /\ meter[g].key \in KeysOf(f) /\ meter[g].id \in Objects
  BY <1>4 DEF NotMetering
<1>5. \/ meter[g] = NotMetering
      \/ \E f \in Families : meter[g] \in [pc: {"create"}, family: {f}, key: KeysOf(f)]
      \/ \E f \in Families : meter[g] \in [pc: {"add"}, family: {f}, key: KeysOf(f), id: Objects]
  BY <1>1, MeteringIs
<1> QED
  BY <1>2, <1>3, <1>4, <1>5

LEMMA MetersMade ==
    ASSUME NEW f \in Families, NEW key \in KeysOf(f)
    PROVE  /\ [pc |-> "create", family |-> f, key |-> key] \in Metering
           /\ \A id \in Objects : [pc |-> "add", family |-> f, key |-> key, id |-> id] \in Metering
<1>1. [pc |-> "create", family |-> f, key |-> key] \in [pc: {"create"}, family: {f}, key: KeysOf(f)]
  OBVIOUS
<1>2. ASSUME NEW id \in Objects
      PROVE  [pc |-> "add", family |-> f, key |-> key, id |-> id] \in
                 [pc: {"add"}, family: {f}, key: KeysOf(f), id: Objects]
  OBVIOUS
<1> QED
  BY <1>1, <1>2, MeteringIs

\* The keys of a place are keys of its family.
LEMMA LabelsAre ==
    ASSUME PathAssumption, LoggedInv, NEW g \in Goroutines
    PROVE  /\ "requests" \in Families /\ "durations" \in Families
           /\ At(g, "requests") \/ At(g, "counting") =>
                 <<request[g].kind, request[g].status>> \in KeysOf("requests")
           /\ At(g, "counting") \/ At(g, "timing") =>
                 <<request[g].kind>> \in KeysOf("durations")
<1>1. request[g].pc \in {"requests", "counting", "timing"} =>
          request[g].kind \in Paths /\ request[g].status \in Statuses
  BY Shapes DEF PathAssumption
<1> QED
  BY <1>1 DEF At, Families, KeysOf

\* A count is the value of the series in the map.
LEMMA CountIsNat ==
    ASSUME MetricsTypeOK, NEW f \in Families, NEW key \in KeysOf(f)
    PROVE  /\ Count(f, key) \in Nat
           /\ series[f][key] = NoSeries \/ series[f][key] \in Objects
BY DEF MetricsTypeOK, Count

\* With takes the series from the map, or goes on to make one.
LEMMA WithStep ==
    ASSUME MetricsTypeOK, NEW g \in Goroutines, NEW f \in Families, NEW key \in KeysOf(f),
           With(g, f, key)
    PROVE  /\ meter[g] = NotMetering /\ UNCHANGED <<series, value>>
           /\ meter' \in [Goroutines -> Metering]
           /\ \A h \in Goroutines \ {g} : meter'[h] = meter[h]
           /\ meter'[g] # NotMetering /\ meter'[g].family = f /\ meter'[g].key = key
           /\ meter'[g].pc = "add" => meter'[g].id = series[f][key]
<1> DEFINE m == IF series[f][key] = NoSeries
                THEN [pc |-> "create", family |-> f, key |-> key]
                ELSE [pc |-> "add", family |-> f, key |-> key, id |-> series[f][key]]
<1>1. meter[g] = NotMetering /\ meter' = [meter EXCEPT ![g] = m] /\ UNCHANGED <<series, value>>
  BY DEF With
<1>2. /\ m \in Metering /\ m # NotMetering /\ m.family = f /\ m.key = key
      /\ m.pc = "add" => m.id = series[f][key]
  <2>1. CASE series[f][key] = NoSeries
    BY <2>1, MetersMade DEF NotMetering
  <2>2. CASE series[f][key] # NoSeries
    BY <2>2, MetersMade, CountIsNat DEF NotMetering
  <2> QED
    BY <2>1, <2>2
<1>3. meter \in [Goroutines -> Metering]
  BY DEF MetricsTypeOK
<1> HIDE DEF m
<1> QED
  BY <1>1, <1>2, <1>3

\* While there is no series, nobody is adding to one, and any object will do.
LEMMA UnusedForIs ==
    ASSUME MeterInv, NEW f \in Families, NEW key \in KeysOf(f), series[f][key] = NoSeries
    PROVE  UnusedFor(f, key) \in Objects
<1>1. HeldFor(f, key) = {}
  <2> SUFFICES ASSUME NEW h \in Goroutines, meter[h].pc = "add", meter[h].family = f, meter[h].key = key
               PROVE  FALSE
    BY DEF HeldFor
  <2>1. meter[h].id \in Objects /\ meter[h].id = NoSeries
    BY MeterShapes DEF MeterInv
  <2> QED
    BY <2>1 DEF Objects, NoSeries
<1>2. \E id \in Objects : id \notin HeldFor(f, key) \cup {series[f][key]}
  <2>1. Cardinality(Goroutines) \in Nat
    BY LimiterAssumption, FS_CardinalityType DEF LimiterAssumption
  <2>2. 1 \in Objects /\ 1 # NoSeries
    BY <2>1 DEF Objects, NoSeries
  <2> QED
    BY <1>1, <2>2
<1> QED
  BY <1>2 DEF UnusedFor

\* Making a series changes no count: there was none, and the new one is zero.
LEMMA CreateStep ==
    ASSUME MeterInv, NEW g \in Goroutines, Create(g)
    PROVE  /\ MetricsTypeOK'
           /\ \A h \in Goroutines \ {g} : meter'[h] = meter[h]
           /\ meter[g] # NotMetering /\ meter'[g] # NotMetering
           /\ meter'[g].family = meter[g].family /\ meter'[g].key = meter[g].key
           /\ \A h \in Goroutines : meter'[h].pc = "add" =>
                  meter'[h].id = series'[meter'[h].family][meter'[h].key]
           /\ \A f \in Families : \A key \in KeysOf(f) : Count(f, key)' = Count(f, key)
<1> DEFINE f == meter[g].family
           key == meter[g].key
           id == IF series[f][key] = NoSeries THEN UnusedFor(f, key) ELSE series[f][key]
           m == [pc |-> "add", family |-> f, key |-> key, id |-> id]
<1>1. /\ meter[g].pc = "create"
      /\ series' = [series EXCEPT ![f][key] = id]
      /\ value' = IF series[f][key] = NoSeries THEN [value EXCEPT ![f][key][id] = 0] ELSE value
      /\ meter' = [meter EXCEPT ![g] = m]
  BY DEF Create, MustCreate
<1>2. /\ MetricsTypeOK /\ f \in Families /\ key \in KeysOf(f) /\ meter[g] # NotMetering
      /\ meter \in [Goroutines -> Metering]
      /\ \A e \in Families : /\ series[e] \in [KeysOf(e) -> Objects \cup {NoSeries}]
                             /\ value[e] \in [KeysOf(e) -> [Objects -> Nat]]
      /\ DOMAIN series = Families /\ DOMAIN value = Families
  BY <1>1, MeterShapes DEF MeterInv, MetricsTypeOK
<1>3. id \in Objects /\ (series[f][key] # NoSeries => id = series[f][key])
  BY <1>2, UnusedForIs, CountIsNat
<1> HIDE DEF f, key, id
<1>4. m \in Metering /\ m # NotMetering /\ m.family = f /\ m.key = key /\ m.pc = "add" /\ m.id = id
  BY <1>2, <1>3, MetersMade DEF NotMetering
<1> HIDE DEF m
<1>5. /\ meter' \in [Goroutines -> Metering] /\ meter'[g] = m
      /\ \A h \in Goroutines \ {g} : meter'[h] = meter[h]
  BY <1>1, <1>2, <1>4
<1>6. /\ DOMAIN series' = Families /\ DOMAIN value' = Families
      /\ \A e \in Families :
            /\ series'[e] \in [KeysOf(e) -> Objects \cup {NoSeries}]
            /\ value'[e] \in [KeysOf(e) -> [Objects -> Nat]]
            /\ \A k \in KeysOf(e) : e # f \/ k # key =>
                   series'[e][k] = series[e][k] /\ value'[e][k] = value[e][k]
      /\ series'[f][key] = id
      /\ series[f][key] = NoSeries => value'[f][key][id] = 0
      /\ series[f][key] # NoSeries => value' = value
  <2>1. DOMAIN series' = Families /\ DOMAIN value' = Families
    BY <1>1, <1>2
  <2>2. ASSUME NEW e \in Families, e # f
        PROVE  series'[e] = series[e] /\ value'[e] = value[e]
    BY <1>1, <1>2, <2>2
  <2>3. /\ series'[f] \in [KeysOf(f) -> Objects \cup {NoSeries}]
        /\ series'[f][key] = id
        /\ \A k \in KeysOf(f) : k # key => series'[f][k] = series[f][k]
    BY <1>1, <1>2, <1>3
  <2>4. /\ value'[f] \in [KeysOf(f) -> [Objects -> Nat]]
        /\ series[f][key] = NoSeries => value'[f][key][id] = 0
        /\ \A k \in KeysOf(f) : k # key => value'[f][k] = value[f][k]
    BY <1>1, <1>2, <1>3
  <2> QED
    BY <1>1, <1>2, <2>1, <2>2, <2>3, <2>4
<1>7. MetricsTypeOK'
  BY <1>5, <1>6 DEF MetricsTypeOK
<1>8. ASSUME NEW h \in Goroutines, meter'[h].pc = "add"
      PROVE  meter'[h].id = series'[meter'[h].family][meter'[h].key]
  <2>1. CASE h = g
    BY <1>4, <1>5, <1>6, <2>1
  <2>2. CASE h # g
    <3>1. /\ meter'[h] = meter[h] /\ meter[h].id = series[meter[h].family][meter[h].key]
          /\ meter[h].family \in Families /\ meter[h].key \in KeysOf(meter[h].family)
          /\ meter[h].id \in Objects
      BY <1>2, <1>5, <1>8, <2>2, MeterShapes DEF MeterInv
    <3>2. CASE meter[h].family = f /\ meter[h].key = key
      <4>1. series[f][key] # NoSeries
        BY <3>1, <3>2 DEF NoSeries, Objects
      <4> QED
        BY <1>3, <1>6, <3>1, <3>2, <4>1
    <3>3. CASE ~(meter[h].family = f /\ meter[h].key = key)
      BY <1>6, <3>1, <3>3
    <3> QED
      BY <3>2, <3>3
  <2> QED
    BY <2>1, <2>2
<1>9. ASSUME NEW e \in Families, NEW k \in KeysOf(e)
      PROVE  Count(e, k)' = Count(e, k)
  <2>1. NoSeries \notin Objects
    BY DEF NoSeries, Objects
  <2>2. CASE e = f /\ k = key
    <3>1. CASE series[f][key] = NoSeries
      BY <1>3, <1>6, <2>1, <2>2, <3>1 DEF Count
    <3>2. CASE series[f][key] # NoSeries
      BY <1>3, <1>6, <2>2, <3>2 DEF Count
    <3> QED
      BY <3>1, <3>2
  <2>3. CASE ~(e = f /\ k = key)
    BY <1>6, <2>3 DEF Count
  <2> QED
    BY <2>2, <2>3
<1> QED
  BY <1>2, <1>4, <1>5, <1>7, <1>8, <1>9 DEF f, key

\* Adding to a series adds one to the count of its key and to no other.
LEMMA AddStep ==
    ASSUME MeterInv, NEW g \in Goroutines, NEW f \in Families, Add(g, f)
    PROVE  /\ MetricsTypeOK' /\ UNCHANGED series
           /\ \A h \in Goroutines \ {g} : meter'[h] = meter[h]
           /\ meter[g] # NotMetering /\ meter'[g] = NotMetering
           /\ meter[g].family = f /\ meter[g].key \in KeysOf(f)
           /\ \A e \in Families : \A k \in KeysOf(e) :
                  /\ e = f /\ k = meter[g].key => Count(e, k)' = Count(e, k) + 1
                  /\ e # f \/ k # meter[g].key => Count(e, k)' = Count(e, k)
<1> DEFINE key == meter[g].key
           id == meter[g].id
<1>1. /\ meter[g].pc = "add" /\ meter[g].family = f
      /\ value' = [value EXCEPT ![f][key][id] = value[f][key][id] + 1]
      /\ meter' = [meter EXCEPT ![g] = NotMetering] /\ UNCHANGED series
  BY DEF Add
<1>2. /\ MetricsTypeOK /\ key \in KeysOf(f) /\ meter[g] # NotMetering
      /\ id \in Objects /\ id = series[f][key]
      /\ meter \in [Goroutines -> Metering]
      /\ \A e \in Families : /\ series[e] \in [KeysOf(e) -> Objects \cup {NoSeries}]
                             /\ value[e] \in [KeysOf(e) -> [Objects -> Nat]]
      /\ DOMAIN series = Families /\ DOMAIN value = Families
  BY <1>1, MeterShapes DEF MeterInv, MetricsTypeOK
<1> HIDE DEF key, id
<1>3. NotMetering \in Metering
  BY MeteringIs
<1>4. /\ meter' \in [Goroutines -> Metering] /\ meter'[g] = NotMetering
      /\ \A h \in Goroutines \ {g} : meter'[h] = meter[h]
  BY <1>1, <1>2, <1>3
<1>5. /\ DOMAIN value' = Families
      /\ \A e \in Families :
            /\ value'[e] \in [KeysOf(e) -> [Objects -> Nat]]
            /\ \A k \in KeysOf(e) : e # f \/ k # key => value'[e][k] = value[e][k]
      /\ value'[f][key][id] = value[f][key][id] + 1
  <2>1. DOMAIN value' = Families
    BY <1>1, <1>2
  <2>2. ASSUME NEW e \in Families, e # f PROVE value'[e] = value[e]
    BY <1>1, <1>2, <2>2
  <2> DEFINE row == [value[f][key] EXCEPT ![id] = value[f][key][id] + 1]
  <2>3. row \in [Objects -> Nat] /\ row[id] = value[f][key][id] + 1
    BY <1>2
  <2>4. value'[f] = [value[f] EXCEPT ![key] = row]
    BY <1>1, <1>2
  <2> HIDE DEF row
  <2>5. /\ value'[f] \in [KeysOf(f) -> [Objects -> Nat]]
        /\ value'[f][key] = row
        /\ \A k \in KeysOf(f) : k # key => value'[f][k] = value[f][k]
    BY <1>2, <2>3, <2>4
  <2> QED
    BY <1>2, <2>1, <2>2, <2>3, <2>5
<1>6. MetricsTypeOK'
  BY <1>1, <1>2, <1>4, <1>5 DEF MetricsTypeOK
<1>7. ASSUME NEW e \in Families, NEW k \in KeysOf(e), e = f, k = key
      PROVE  Count(e, k)' = Count(e, k) + 1
  <2>1. series[e][k] = id /\ series'[e][k] = id /\ id # NoSeries
    BY <1>1, <1>2, <1>7 DEF NoSeries, Objects
  <2>2. Count(e, k) = value[e][k][id] /\ Count(e, k)' = value'[e][k][id]
    BY <2>1 DEF Count
  <2> QED
    BY <1>5, <1>7, <2>2
<1>8. ASSUME NEW e \in Families, NEW k \in KeysOf(e), e # f \/ k # key
      PROVE  Count(e, k)' = Count(e, k)
  BY <1>1, <1>5, <1>8 DEF Count
<1> QED
  BY <1>1, <1>2, <1>4, <1>6, <1>7, <1>8 DEF key

LEMMA MeterInit == PathAssumption /\ Init => MeterInv
<1> SUFFICES ASSUME PathAssumption, Init PROVE MeterInv
  OBVIOUS
<1>1. /\ series = [f \in Families |-> [key \in KeysOf(f) |-> NoSeries]]
      /\ value = [f \in Families |-> [key \in KeysOf(f) |-> [id \in Objects |-> 0]]]
      /\ meter = [g \in Goroutines |-> NotMetering]
  BY DEF Init, MetricsInit
<1>2. NotMetering \in Metering
  BY MeteringIs
<1>3. MetricsTypeOK
  BY <1>1, <1>2 DEF MetricsTypeOK
<1> QED
  BY <1>1, <1>3 DEF MeterInv, NotMetering

\* A step that leaves the meters alone, of a goroutine that is not metering.
LEMMA MeterAlone ==
    ASSUME MeterInv, NEW g \in Goroutines, UNCHANGED meterVars, meter[g] = NotMetering,
           \A h \in Goroutines \ {g} : request'[h] = request[h]
    PROVE  MeterInv'
<1>1. UNCHANGED <<series, value, meter>>
  BY DEF meterVars
<1>2. MetricsTypeOK'
  BY <1>1 DEF MeterInv, MetricsTypeOK
<1>3. \A h \in Goroutines : meter[h] # NotMetering => request'[h] = request[h]
  OBVIOUS
<1> QED
  BY <1>1, <1>2, <1>3 DEF MeterInv, At

\* The places at which a goroutine is not metering.
LEMMA NotMeteringAt ==
    ASSUME MeterInv, NEW g \in Goroutines, ~At(g, "counting"), ~At(g, "timing")
    PROVE  meter[g] = NotMetering
BY DEF MeterInv

\* What each action makes of the request it is of.
LEMMA RequestIs ==
    ASSUME LoggedInv, NEW g \in Goroutines, NEW r, request' = [request EXCEPT ![g] = r]
    PROVE  request'[g] = r /\ \A h \in Goroutines \ {g} : request'[h] = request[h]
BY DEF LoggedInv

LEMMA CountRequestMeter ==
    ASSUME PathAssumption, LoggedInv, MeterInv, NEW g \in Goroutines, CountRequest(g)
    PROVE  MeterInv' /\ Alone(g) /\ UNCHANGED <<series, value>>
<1> DEFINE key == <<request[g].kind, request[g].status>>
<1>1. /\ At(g, "requests") /\ With(g, "requests", key)
      /\ request' = [request EXCEPT ![g].pc = "counting"]
  BY DEF CountRequest, GoTo
<1>2. "requests" \in Families /\ key \in KeysOf("requests")
  BY <1>1, LabelsAre
<1>3. /\ request'[g] = [request[g] EXCEPT !.pc = "counting"]
      /\ \A h \in Goroutines \ {g} : request'[h] = request[h]
  BY <1>1, RequestIs
<1>4. request[g] \in [pc: {"requests", "counting", "timing"}, kind: Kinds, status: Statuses]
  BY <1>1, Shapes DEF At
<1>5. request'[g].pc = "counting" /\ key = <<request'[g].kind, request'[g].status>>
  BY <1>3, <1>4
<1>6. MetricsTypeOK
  BY DEF MeterInv
<1> HIDE DEF key
<1>7. /\ UNCHANGED <<series, value>>
      /\ meter' \in [Goroutines -> Metering]
      /\ \A h \in Goroutines \ {g} : meter'[h] = meter[h]
      /\ meter'[g] # NotMetering /\ meter'[g].family = "requests" /\ meter'[g].key = key
      /\ meter'[g].pc = "add" => meter'[g].id = series["requests"][key]
  BY <1>1, <1>2, <1>6, WithStep
<1>8. MetricsTypeOK'
  BY <1>6, <1>7 DEF MetricsTypeOK
<1>9. ASSUME NEW h \in Goroutines
      PROVE  /\ meter'[h].pc = "add" => meter'[h].id = series'[meter'[h].family][meter'[h].key]
             /\ meter'[h] # NotMetering =>
                   \/ /\ request'[h].pc = "counting"
                      /\ meter'[h].family = "requests"
                      /\ meter'[h].key = <<request'[h].kind, request'[h].status>>
                   \/ /\ request'[h].pc = "timing"
                      /\ meter'[h].family = "durations"
                      /\ meter'[h].key = <<request'[h].kind>>
  <2>1. CASE h = g
    BY <1>5, <1>7, <2>1
  <2>2. CASE h # g
    BY <1>3, <1>7, <2>2 DEF MeterInv, At
  <2> QED
    BY <2>1, <2>2
<1> QED
  BY <1>3, <1>7, <1>8, <1>9 DEF MeterInv, At, Alone

LEMMA TimeRequestMeter ==
    ASSUME PathAssumption, LoggedInv, MeterInv, NEW g \in Goroutines, TimeRequest(g)
    PROVE  MeterInv' /\ Alone(g) /\ UNCHANGED <<series, value>> /\ meter'[g] # NotMetering
<1> DEFINE key == <<request[g].kind>>
<1>1. /\ At(g, "counting") /\ With(g, "durations", key)
      /\ request' = [request EXCEPT ![g].pc = "timing"]
  BY DEF TimeRequest, GoTo
<1>2. "durations" \in Families /\ key \in KeysOf("durations")
  BY <1>1, LabelsAre
<1>3. /\ request'[g] = [request[g] EXCEPT !.pc = "timing"]
      /\ \A h \in Goroutines \ {g} : request'[h] = request[h]
  BY <1>1, RequestIs
<1>4. request[g] \in [pc: {"requests", "counting", "timing"}, kind: Kinds, status: Statuses]
  BY <1>1, Shapes DEF At
<1>5. request'[g].pc = "timing" /\ key = <<request'[g].kind>>
  BY <1>3, <1>4
<1>6. MetricsTypeOK
  BY DEF MeterInv
<1> HIDE DEF key
<1>7. /\ UNCHANGED <<series, value>>
      /\ meter' \in [Goroutines -> Metering]
      /\ \A h \in Goroutines \ {g} : meter'[h] = meter[h]
      /\ meter'[g] # NotMetering /\ meter'[g].family = "durations" /\ meter'[g].key = key
      /\ meter'[g].pc = "add" => meter'[g].id = series["durations"][key]
  BY <1>1, <1>2, <1>6, WithStep
<1>8. MetricsTypeOK'
  BY <1>6, <1>7 DEF MetricsTypeOK
<1>9. ASSUME NEW h \in Goroutines
      PROVE  /\ meter'[h].pc = "add" => meter'[h].id = series'[meter'[h].family][meter'[h].key]
             /\ meter'[h] # NotMetering =>
                   \/ /\ request'[h].pc = "counting"
                      /\ meter'[h].family = "requests"
                      /\ meter'[h].key = <<request'[h].kind, request'[h].status>>
                   \/ /\ request'[h].pc = "timing"
                      /\ meter'[h].family = "durations"
                      /\ meter'[h].key = <<request'[h].kind>>
  <2>1. CASE h = g
    BY <1>5, <1>7, <2>1
  <2>2. CASE h # g
    BY <1>3, <1>7, <2>2 DEF MeterInv, At
  <2> QED
    BY <2>1, <2>2
<1> QED
  BY <1>3, <1>7, <1>8, <1>9 DEF MeterInv, At, Alone

LEMMA InMetricsMeter ==
    ASSUME MeterInv, NEW g \in Goroutines, InMetrics(g)
    PROVE  MeterInv' /\ Alone(g)
<1>1. UNCHANGED request
  BY DEF InMetrics, pathVars
<1>2. ASSUME Create(g) PROVE MeterInv' /\ Alone(g)
  <2>1. /\ MetricsTypeOK'
        /\ \A h \in Goroutines \ {g} : meter'[h] = meter[h]
        /\ meter[g] # NotMetering
        /\ meter'[g].family = meter[g].family /\ meter'[g].key = meter[g].key
        /\ \A h \in Goroutines : meter'[h].pc = "add" =>
               meter'[h].id = series'[meter'[h].family][meter'[h].key]
    BY <1>2, CreateStep
  <2> QED
    BY <1>1, <2>1 DEF MeterInv, At, Alone
<1>3. ASSUME NEW f \in Families, Add(g, f) PROVE MeterInv' /\ Alone(g)
  <2>1. /\ MetricsTypeOK' /\ UNCHANGED series
        /\ \A h \in Goroutines \ {g} : meter'[h] = meter[h]
        /\ meter'[g] = NotMetering
    BY <1>3, AddStep
  <2> QED
    BY <1>1, <2>1 DEF MeterInv, At, Alone, NotMetering
<1>4. Create(g) \/ Add(g, "requests") \/ Add(g, "durations")
  BY DEF InMetrics, Inc, Observe
<1> QED
  BY <1>2, <1>3, <1>4 DEF Families

\* A step of g leaves the requests of the others alone.
LEMMA OthersStay ==
    ASSUME LoggedInv, NEW g \in Goroutines, Step(g)
    PROVE  \A h \in Goroutines \ {g} : request'[h] = request[h]
<1>1. request' = request \/ \E r : request' = [request EXCEPT ![g] = r]
  <2>1. CASE InLimiter(g) \/ InMetrics(g)
    BY <2>1 DEF InLimiter, InMetrics, pathVars
  <2>2. CASE \E k \in Clients, kind \in Kinds : Arrive(g, k, kind)
    BY <2>2 DEF Arrive
  <2>3. CASE PassLimiter(g) \/ Authorize(g) \/ Handle(g)
    BY <2>3 DEF PassLimiter, Authorize, Handle, Answer, GoTo
  <2>4. CASE HandlerPanics(g) \/ LogOutcome(g) \/ CountEntries(g) \/ SetGauge(g)
    BY <2>4 DEF HandlerPanics, LogOutcome, CountEntries, SetGauge, Answer, GoTo
  <2>5. CASE ReadyCopies(g) \/ ReadyVerifies(g)
    BY <2>5 DEF ReadyCopies, ReadyVerifies, Answer
  <2>6. CASE CountRequest(g) \/ TimeRequest(g) \/ Done(g)
    BY <2>6 DEF CountRequest, TimeRequest, Done, GoTo
  <2> QED
    BY <2>1, <2>2, <2>3, <2>4, <2>5, <2>6 DEF Step
<1> QED
  BY <1>1, RequestIs

LEMMA MeterNext ==
    ASSUME PathAssumption, LoggedInv, MeterInv, [Next]_vars
    PROVE  MeterInv'
<1>1. CASE UNCHANGED vars
  <2>1. UNCHANGED <<series, value, meter, request>>
    BY <1>1 DEF vars, meterVars, pathVars
  <2> QED
    BY <2>1 DEF MeterInv, MetricsTypeOK, At
<1>2. CASE Background
  <2>1. UNCHANGED <<series, value, meter, request>>
    BY <1>2 DEF Background, meterVars, pathVars
  <2> QED
    BY <2>1 DEF MeterInv, MetricsTypeOK, At
<1>3. ASSUME NEW g \in Goroutines, Step(g)
      PROVE  MeterInv'
  <2>1. CASE CountRequest(g) \/ TimeRequest(g)
    BY <2>1, CountRequestMeter, TimeRequestMeter
  <2>2. CASE InMetrics(g)
    BY <2>2, InMetricsMeter
  <2>3. CASE InLimiter(g)
    <3>1. UNCHANGED <<series, value, meter, request>>
      BY <2>3 DEF InLimiter, meterVars, pathVars
    <3> QED
      BY <3>1 DEF MeterInv, MetricsTypeOK, At
  <2>4. ASSUME ~CountRequest(g), ~TimeRequest(g), ~InMetrics(g), ~InLimiter(g)
        PROVE  MeterInv'
    <3>1. UNCHANGED meterVars
      BY <1>3, <2>4 DEF Step, Arrive, PassLimiter, Authorize, Handle, HandlerPanics, LogOutcome,
          CountEntries, SetGauge, ReadyCopies, ReadyVerifies, Done
    <3>4. PassLimiter(g) => At(g, "limit")
      <4>1. call[g].pc = "lock" => call[g] # NoCall
        BY DEF NoCall
      <4> QED
        BY <4>1 DEF PassLimiter, Decide, LoggedInv
    <3>3. meter[g] = NotMetering \/ (~At(g, "counting") /\ ~At(g, "timing"))
      BY <1>3, <2>4, <3>4 DEF Step, Arrive, Authorize, Handle, HandlerPanics, LogOutcome,
          CountEntries, SetGauge, ReadyCopies, ReadyVerifies, Done, At, NoRequest
    <3>2. meter[g] = NotMetering
      BY <3>3, NotMeteringAt
    <3> QED
      BY <1>3, <3>1, <3>2, OthersStay, MeterAlone
  <2> QED
    BY <2>1, <2>2, <2>3, <2>4
<1> QED
  BY <1>1, <1>2, <1>3 DEF Next

-----------------------------------------------------------------------------
(* The books: how a request on its way accounts for their differences.       *)

\* By the request r and the meter m of a goroutine: the request is not counted
\* yet; it is not, and the limiter has let it through to no 429; it is counted
\* and not yet timed; its handler has counted it and not yet logged it; its
\* handler has counted it, and it will be counted as a success.
Waits(r, m) ==
    /\ r # NoRequest /\ r.pc # "timing"
    /\ r.pc = "counting" => m # NotMetering
Passes(r, m) ==
    /\ Waits(r, m) /\ r.pc # "limit"
    /\ r.pc \in {"requests", "counting"} => r.status # "limited"
Untimed(r, m, p) ==
    /\ \/ r.pc = "counting" /\ m = NotMetering
       \/ r.pc = "timing" /\ m # NotMetering
    /\ r.kind = p
Unlogged(r, kind) == r.pc = "log" /\ r.kind = kind /\ r.outcome.logged = "ok"
Succeeds(r, m, kind) ==
    /\ Waits(r, m)
    /\ \/ r.pc \in {"log", "count", "set"} /\ r.outcome.status = "ok"
       \/ r.pc \in {"requests", "counting"} /\ r.status = "ok"
    /\ r.kind = kind

AllWaiting       == {g \in Goroutines : Waits(request[g], meter[g])}
AllPassed        == {g \in Goroutines : Passes(request[g], meter[g])}
AllUntimed(p)    == {g \in Goroutines : Untimed(request[g], meter[g], p)}
AllUnlogged(kind) == {g \in Goroutines : Unlogged(request[g], kind)}
AllSucceeding(kind) == {g \in Goroutines : Succeeds(request[g], meter[g], kind)}

\* The handlers that count what they log.
Audited == Kinds \ {"verify", "ready"}

AllAdmitted == Total([k \in Clients |-> AdmittedSince(k, 0)])

ArrivalBook == arrived = CountOfAll(Paths \X Statuses) + Cardinality(AllWaiting) + panicked
TimeBook ==
    \A p \in Paths :
        CountOfAll({p} \X Statuses) = Count("durations", <<p>>) + Cardinality(AllUntimed(p))
AdmissionBook ==
    AllAdmitted = CountOfAll(Paths \X (Statuses \ {"limited"})) + Cardinality(AllPassed) + panicked
LogBook ==
    \A kind \in Audited :
        counters[kind] = Logged(<<kind, "ok">>) + Cardinality(AllUnlogged(kind))
SuccessBook ==
    \A kind \in Audited :
        counters[kind] = Count("requests", <<kind, "ok">>) + Cardinality(AllSucceeding(kind))

BooksInv ==
    /\ arrived \in Nat /\ panicked \in Nat /\ counters \in [Counters -> Nat]
    /\ ArrivalBook /\ TimeBook /\ AdmissionBook /\ LogBook /\ SuccessBook

\* A set of goroutines that g may have entered or left, and nobody else.
Moved(S, T, g) ==
    /\ Cardinality(S) \in Nat /\ Cardinality(T) \in Nat
    /\ (g \in S <=> g \in T) => Cardinality(T) = Cardinality(S)
    /\ g \in S /\ g \notin T => Cardinality(S) = Cardinality(T) + 1
    /\ g \notin S /\ g \in T => Cardinality(T) = Cardinality(S) + 1

LEMMA OneMoves ==
    ASSUME LimiterAssumption, NEW S \in SUBSET Goroutines, NEW T \in SUBSET Goroutines,
           NEW g \in Goroutines, \A h \in Goroutines \ {g} : h \in S <=> h \in T
    PROVE  Moved(S, T, g)
<1>1. IsFiniteSet(S) /\ IsFiniteSet(T)
  BY FS_Subset DEF LimiterAssumption
<1>2. Cardinality(S) \in Nat /\ Cardinality(T) \in Nat
  BY <1>1, FS_CardinalityType
<1>3. (g \in S <=> g \in T) => S = T
  OBVIOUS
<1>4. ASSUME g \in S, g \notin T PROVE Cardinality(S) = Cardinality(T) + 1
  <2>1. S = T \cup {g}
    BY <1>4
  <2> QED
    BY <1>1, <1>4, <2>1, FS_AddElement
<1>5. ASSUME g \notin S, g \in T PROVE Cardinality(T) = Cardinality(S) + 1
  <2>1. T = S \cup {g}
    BY <1>5
  <2> QED
    BY <1>1, <1>5, <2>1, FS_AddElement
<1> QED
  BY <1>2, <1>3, <1>4, <1>5 DEF Moved

LEMMA AllMove ==
    ASSUME LimiterAssumption, NEW g \in Goroutines, Alone(g)
    PROVE  /\ Moved(AllWaiting, AllWaiting', g)
           /\ Moved(AllPassed, AllPassed', g)
           /\ \A p \in Paths : Moved(AllUntimed(p), AllUntimed(p)', g)
           /\ \A kind \in Kinds : Moved(AllUnlogged(kind), AllUnlogged(kind)', g)
           /\ \A kind \in Kinds : Moved(AllSucceeding(kind), AllSucceeding(kind)', g)
<1>1. \A h \in Goroutines \ {g} : request'[h] = request[h] /\ meter'[h] = meter[h]
  BY DEF Alone
<1>2. Moved(AllWaiting, AllWaiting', g)
  BY <1>1, OneMoves DEF AllWaiting
<1>3. Moved(AllPassed, AllPassed', g)
  BY <1>1, OneMoves DEF AllPassed
<1>4. ASSUME NEW p \in Paths PROVE Moved(AllUntimed(p), AllUntimed(p)', g)
  BY <1>1, OneMoves DEF AllUntimed
<1>5. ASSUME NEW kind \in Kinds PROVE Moved(AllUnlogged(kind), AllUnlogged(kind)', g)
  BY <1>1, OneMoves DEF AllUnlogged
<1>6. ASSUME NEW kind \in Kinds PROVE Moved(AllSucceeding(kind), AllSucceeding(kind)', g)
  BY <1>1, OneMoves DEF AllSucceeding
<1> QED
  BY <1>2, <1>3, <1>4, <1>5, <1>6

-----------------------------------------------------------------------------
(* What the steps do to the sums of the books.                               *)

LEMMA LabelSets ==
    PathAssumption => /\ IsFiniteSet(Paths \X Statuses)
                      /\ KeysOf("requests") = Paths \X Statuses
                      /\ "requests" \in Families /\ "durations" \in Families
<1> SUFFICES ASSUME PathAssumption PROVE IsFiniteSet(Paths \X Statuses)
  BY DEF KeysOf, Families
<1>1. IsFiniteSet({"issue", "verify", "revoke", "split", "reconstruct", "ready"})
  <2>1. IsFiniteSet({"issue"} \cup {"verify"}) /\ IsFiniteSet({"revoke"} \cup {"split"})
        /\ IsFiniteSet({"reconstruct"} \cup {"ready"})
    BY FS_Singleton, FS_Union
  <2>2. IsFiniteSet(({"issue"} \cup {"verify"}) \cup ({"revoke"} \cup {"split"})
                    \cup ({"reconstruct"} \cup {"ready"}))
    BY <2>1, FS_Union
  <2>3. {"issue", "verify", "revoke", "split", "reconstruct", "ready"} =
            ({"issue"} \cup {"verify"}) \cup ({"revoke"} \cup {"split"})
                \cup ({"reconstruct"} \cup {"ready"})
    OBVIOUS
  <2> QED
    BY <2>2, <2>3
<1>2. IsFiniteSet({"ok", "bad", "denied", "limited", "failed", "unavailable"})
  <2>1. IsFiniteSet({"ok"} \cup {"bad"}) /\ IsFiniteSet({"denied"} \cup {"limited"})
        /\ IsFiniteSet({"failed"} \cup {"unavailable"})
    BY FS_Singleton, FS_Union
  <2>2. IsFiniteSet(({"ok"} \cup {"bad"}) \cup ({"denied"} \cup {"limited"})
                    \cup ({"failed"} \cup {"unavailable"}))
    BY <2>1, FS_Union
  <2>3. {"ok", "bad", "denied", "limited", "failed", "unavailable"} =
            ({"ok"} \cup {"bad"}) \cup ({"denied"} \cup {"limited"})
                \cup ({"failed"} \cup {"unavailable"})
    OBVIOUS
  <2> QED
    BY <2>2, <2>3
<1>3. IsFiniteSet(Paths)
  BY <1>1, FS_Subset DEF PathAssumption
<1> QED
  BY <1>2, <1>3, FS_Product DEF PathAssumption

\* The sum of counts, before and after a step.
LEMMA CountsSum ==
    ASSUME PathAssumption, MetricsTypeOK, MetricsTypeOK', NEW keys \in SUBSET (Paths \X Statuses)
    PROVE  /\ CountOfAll(keys) \in Nat
           /\ (\A key \in keys : Count("requests", key)' = Count("requests", key)) =>
                 CountOfAll(keys)' = CountOfAll(keys)
           /\ \A one \in keys :
                 /\ Count("requests", one)' = Count("requests", one) + 1
                 /\ \A key \in keys \ {one} : Count("requests", key)' = Count("requests", key)
                 => CountOfAll(keys)' = CountOfAll(keys) + 1
<1> DEFINE f == [key \in keys |-> Count("requests", key)]
           h == [key \in keys |-> Count("requests", key)']
<1>1. CountOfAll(keys) = Total(f) /\ CountOfAll(keys)' = Total(h)
  BY DEF CountOfAll, Total
<1>2. IsFiniteSet(keys) /\ \A key \in keys : key \in KeysOf("requests")
  BY LabelSets, FS_Subset
<1>3. \A key \in keys : Count("requests", key) \in Nat /\ Count("requests", key)' \in Nat
  <2>1. ASSUME NEW key \in KeysOf("requests")
        PROVE  Count("requests", key) \in Nat /\ Count("requests", key)' \in Nat
    BY LabelSets DEF MetricsTypeOK, Count
  <2> QED
    BY <1>2, <2>1
<1>4. f \in [keys -> Nat] /\ h \in [keys -> Nat]
  BY <1>3
<1>5. \A key \in keys : f[key] = Count("requests", key) /\ h[key] = Count("requests", key)'
  OBVIOUS
<1>6. (\A key \in keys : Count("requests", key)' = Count("requests", key)) => h = f
  OBVIOUS
<1> HIDE DEF f, h
<1>7. Total(f) \in Nat
  BY <1>2, <1>4, TotalIsNat
<1>8. ASSUME NEW one \in keys, Count("requests", one)' = Count("requests", one) + 1,
             \A key \in keys \ {one} : Count("requests", key)' = Count("requests", key)
      PROVE  Total(h) = Total(f) + 1
  <2>1. h[one] = f[one] + 1 /\ \A key \in keys \ {one} : h[key] = f[key]
    BY <1>5, <1>8
  <2> QED
    BY <1>2, <1>4, <2>1, TotalUp
<1> QED
  BY <1>1, <1>6, <1>7, <1>8

\* An entry more in the log.
LEMMA LoggedUp ==
    ASSUME ChainInv, NEW event \in Events, Log(event), NEW e
    PROVE  /\ Logged(e) \in Nat
           /\ e = event => Logged(e)' = Logged(e) + 1
           /\ e # event => Logged(e)' = Logged(e)
<1> DEFINE new == Signed([Sequence |-> Len(entries), Event |-> event, PrevHash |-> prevHash])
           S == {i \in DOMAIN entries : entries[i].Event = e}
           T == {i \in DOMAIN entries' : entries'[i].Event = e}
           n == Len(entries) + 1
<1>1. entries' = Append(entries, new) /\ new.Event = event
  BY DEF Log, Signed
<1> HIDE DEF new
<1>2. entries \in Seq(LogEntry) /\ Len(entries) \in Nat /\ DOMAIN entries = 1..Len(entries)
  BY DEF ChainInv
<1>3. /\ DOMAIN entries' = 1..n
      /\ entries'[n] = new /\ \A i \in 1..Len(entries) : entries'[i] = entries[i]
  BY <1>1, <1>2
<1>4. IsFiniteSet(S)
  <2>1. IsFiniteSet(1..Len(entries))
    BY <1>2, FS_Interval
  <2> QED
    BY <1>2, <2>1, FS_Subset
<1>5. Logged(e) = Cardinality(S) /\ Logged(e)' = Cardinality(T)
  BY DEF Logged
<1>6. ASSUME e = event PROVE Cardinality(T) = Cardinality(S) + 1
  <2>1. T = S \cup {n} /\ n \notin S
    BY <1>1, <1>2, <1>3, <1>6
  <2> QED
    BY <1>4, <2>1, FS_AddElement
<1>7. ASSUME e # event PROVE T = S
  BY <1>1, <1>2, <1>3, <1>7
<1> QED
  BY <1>4, <1>5, <1>6, <1>7, FS_CardinalityType

\* An admission more.
LEMMA AdmittedUp ==
    ASSUME LimiterAssumption, LimiterInv, NEW g \in Goroutines, Decide(g)
    PROVE  /\ AllAdmitted \in Nat
           /\ Admits(g) => AllAdmitted' = AllAdmitted + 1
           /\ ~Admits(g) => AllAdmitted' = AllAdmitted
<1> DEFINE f == [k \in Clients |-> AdmittedSince(k, 0)]
           h == [k \in Clients |-> AdmittedSince(k, 0)']
           c == call[g].client
           now == call[g].now
<1>1. AllAdmitted = Total(f) /\ AllAdmitted' = Total(h)
  BY DEF AllAdmitted, Total
<1>2. /\ \A k \in Clients : admitted[k] \in [Instants -> Nat] /\ admitted'[k] \in [Instants -> Nat]
      /\ admitted \in [Clients -> [Instants -> Nat]]
  BY DecideInv DEF LimiterInv, LimiterTypeOK
<1>3. \A k \in Clients : f[k] = Since(admitted[k], 0) /\ h[k] = Since(admitted'[k], 0)
  BY DEF AdmittedSince, Since
<1>4. f \in [Clients -> Nat] /\ h \in [Clients -> Nat]
  <2>1. \A k \in Clients : Since(admitted[k], 0) \in Nat /\ Since(admitted'[k], 0) \in Nat
    <3>1. 0 \in Int
      OBVIOUS
    <3> QED
      BY <1>2, <3>1, SinceIs
  <2> QED
    BY <1>3, <2>1
<1>5. ~Admits(g) => h = f
  BY DEF Decide, AdmittedSince
<1> HIDE DEF f, h
<1>6. Total(f) \in Nat
  BY <1>4, TotalIsNat DEF LimiterAssumption
<1>7. ASSUME Admits(g) PROVE Total(h) = Total(f) + 1
  <2>1. c \in Clients /\ now \in Nat /\ now \in Instants
    <3>1. c \in Clients /\ now \in Nat /\ now <= clock /\ clock <= MaxClock /\ clock \in Nat
      BY CallShapes DEF Decide, NoCall, LimiterInv, ReadingsInv, LimiterTypeOK
    <3> QED
      BY <3>1 DEF Instants, LimiterAssumption
  <2> HIDE DEF c, now
  <2>2. admitted' = [admitted EXCEPT ![c][now] = admitted[c][now] + 1]
    BY <1>7 DEF Decide, c, now
  <2>3. /\ admitted'[c][now] = admitted[c][now] + 1
        /\ \A u \in Instants \ {now} : admitted'[c][u] = admitted[c][u]
        /\ \A k \in Clients \ {c} : admitted'[k] = admitted[k]
    BY <1>2, <2>1, <2>2
  <2>4. Since(admitted'[c], 0) = Since(admitted[c], 0) + 1
    <3>1. 0 <= now /\ 0 \in Int
      BY <2>1
    <3>2. admitted[c] \in [Instants -> Nat] /\ admitted'[c] \in [Instants -> Nat]
      BY <1>2, <2>1
    <3> QED
      BY <2>1, <2>3, <3>1, <3>2, SinceUp
  <2>5. h[c] = f[c] + 1 /\ \A k \in Clients \ {c} : h[k] = f[k]
    BY <1>3, <2>1, <2>3, <2>4
  <2>6. IsFiniteSet(Clients)
    BY DEF LimiterAssumption
  <2> QED
    BY <1>4, <2>1, <2>5, <2>6, TotalUp
<1> QED
  BY <1>1, <1>5, <1>6, <1>7

LEMMA AdmittedIsNat == LimiterAssumption /\ LimiterTypeOK => AllAdmitted \in Nat
<1> SUFFICES ASSUME LimiterAssumption, LimiterTypeOK PROVE AllAdmitted \in Nat
  OBVIOUS
<1> DEFINE f == [k \in Clients |-> AdmittedSince(k, 0)]
<1>1. \A k \in Clients : AdmittedSince(k, 0) \in Nat
  <2>1. \A k \in Clients : admitted[k] \in [Instants -> Nat] /\ 0 \in Int
    BY DEF LimiterTypeOK
  <2>2. \A k \in Clients : Since(admitted[k], 0) \in Nat
    BY <2>1, SinceIs
  <2> QED
    BY <2>2 DEF AdmittedSince, Since
<1>2. f \in [Clients -> Nat] /\ AllAdmitted = Total(f)
  BY <1>1 DEF AllAdmitted
<1> HIDE DEF f
<1> QED
  BY <1>2, TotalIsNat DEF LimiterAssumption

-----------------------------------------------------------------------------
(* Each book, when a step leaves alone what it is about.                     *)

CountsStay == \A f \in Families : \A key \in KeysOf(f) : Count(f, key)' = Count(f, key)

\* The keys that the books sum over.
LEMMA SomeKeys ==
    /\ Paths \X Statuses \in SUBSET (Paths \X Statuses)
    /\ Paths \X (Statuses \ {"limited"}) \in SUBSET (Paths \X Statuses)
    /\ \A p \in Paths : {p} \X Statuses \in SUBSET (Paths \X Statuses)
OBVIOUS

LEMMA SumsStay ==
    ASSUME PathAssumption, MetricsTypeOK, MetricsTypeOK', CountsStay
    PROVE  \A keys \in SUBSET (Paths \X Statuses) :
               CountOfAll(keys) \in Nat /\ CountOfAll(keys)' = CountOfAll(keys)
<1> SUFFICES ASSUME NEW keys \in SUBSET (Paths \X Statuses)
             PROVE  CountOfAll(keys) \in Nat /\ CountOfAll(keys)' = CountOfAll(keys)
  OBVIOUS
<1>1. \A key \in keys : Count("requests", key)' = Count("requests", key)
  BY LabelSets DEF CountsStay
<1> QED
  BY <1>1, CountsSum

LEMMA ArrivalStays ==
    ASSUME LimiterAssumption, PathAssumption, MetricsTypeOK, MetricsTypeOK', CountsStay,
           ArrivalBook, NEW g \in Goroutines, Alone(g), UNCHANGED <<arrived, panicked>>,
           Waits(request'[g], meter'[g]) <=> Waits(request[g], meter[g])
    PROVE  ArrivalBook'
<1>1. CountOfAll(Paths \X Statuses)' = CountOfAll(Paths \X Statuses)
  BY SumsStay, SomeKeys
<1>2. g \in AllWaiting' <=> g \in AllWaiting
  BY DEF AllWaiting
<1>3. Cardinality(AllWaiting') = Cardinality(AllWaiting)
  BY <1>2, AllMove DEF Moved
<1> QED
  BY <1>1, <1>3 DEF ArrivalBook

LEMMA TimeStays ==
    ASSUME LimiterAssumption, PathAssumption, MetricsTypeOK, MetricsTypeOK', CountsStay,
           TimeBook, NEW g \in Goroutines, Alone(g),
           \A p \in Paths : Untimed(request'[g], meter'[g], p) <=> Untimed(request[g], meter[g], p)
    PROVE  TimeBook'
<1> SUFFICES ASSUME NEW p \in Paths
             PROVE  CountOfAll({p} \X Statuses)' =
                        Count("durations", <<p>>)' + Cardinality(AllUntimed(p)')
  BY DEF TimeBook
<1>1. CountOfAll({p} \X Statuses)' = CountOfAll({p} \X Statuses)
  BY SumsStay, SomeKeys
<1>2. g \in AllUntimed(p)' <=> g \in AllUntimed(p)
  BY DEF AllUntimed
<1>3. Cardinality(AllUntimed(p)') = Cardinality(AllUntimed(p))
  BY <1>2, AllMove DEF Moved
<1>4. Count("durations", <<p>>)' = Count("durations", <<p>>)
  BY LabelSets DEF CountsStay, KeysOf
<1> QED
  BY <1>1, <1>3, <1>4 DEF TimeBook

LEMMA AdmissionStays ==
    ASSUME LimiterAssumption, PathAssumption, MetricsTypeOK, MetricsTypeOK', CountsStay,
           AdmissionBook, NEW g \in Goroutines, Alone(g), UNCHANGED panicked,
           AllAdmitted' = AllAdmitted,
           Passes(request'[g], meter'[g]) <=> Passes(request[g], meter[g])
    PROVE  AdmissionBook'
<1>1. CountOfAll(Paths \X (Statuses \ {"limited"}))' = CountOfAll(Paths \X (Statuses \ {"limited"}))
  BY SumsStay, SomeKeys
<1>2. g \in AllPassed' <=> g \in AllPassed
  BY DEF AllPassed
<1>3. Cardinality(AllPassed') = Cardinality(AllPassed)
  BY <1>2, AllMove DEF Moved
<1> QED
  BY <1>1, <1>3 DEF AdmissionBook

LEMMA LogStays ==
    ASSUME LimiterAssumption, LogBook, NEW g \in Goroutines, Alone(g),
           UNCHANGED entries, \A kind \in Audited : counters'[kind] = counters[kind],
           \A kind \in Audited : Unlogged(request'[g], kind) <=> Unlogged(request[g], kind)
    PROVE  LogBook'
<1> SUFFICES ASSUME NEW kind \in Audited
             PROVE  counters'[kind] = Logged(<<kind, "ok">>)' + Cardinality(AllUnlogged(kind)')
  BY DEF LogBook
<1>1. Logged(<<kind, "ok">>)' = Logged(<<kind, "ok">>)
  BY DEF Logged
<1>2. g \in AllUnlogged(kind)' <=> g \in AllUnlogged(kind)
  BY DEF AllUnlogged
<1>3. Cardinality(AllUnlogged(kind)') = Cardinality(AllUnlogged(kind))
  BY <1>2, AllMove DEF Moved, Audited
<1> QED
  BY <1>1, <1>3 DEF LogBook

LEMMA SuccessStays ==
    ASSUME LimiterAssumption, PathAssumption, CountsStay,
           SuccessBook, NEW g \in Goroutines, Alone(g),
           \A kind \in Audited : counters'[kind] = counters[kind],
           \A kind \in Audited :
               Succeeds(request'[g], meter'[g], kind) <=> Succeeds(request[g], meter[g], kind)
    PROVE  SuccessBook'
<1> SUFFICES ASSUME NEW kind \in Audited
             PROVE  counters'[kind] =
                        Count("requests", <<kind, "ok">>)' + Cardinality(AllSucceeding(kind)')
  BY DEF SuccessBook
<1>1. Count("requests", <<kind, "ok">>)' = Count("requests", <<kind, "ok">>)
  <2>1. <<kind, "ok">> \in KeysOf("requests")
    BY LabelSets DEF Audited, PathAssumption
  <2> QED
    BY <2>1, LabelSets DEF CountsStay
<1>2. g \in AllSucceeding(kind)' <=> g \in AllSucceeding(kind)
  BY DEF AllSucceeding
<1>3. Cardinality(AllSucceeding(kind)') = Cardinality(AllSucceeding(kind))
  BY <1>2, AllMove DEF Moved, Audited
<1> QED
  BY <1>1, <1>3 DEF SuccessBook

-----------------------------------------------------------------------------
(* The steps that change no book.                                            *)

SameStanding(r, m, s, n) ==
    /\ Waits(s, n) <=> Waits(r, m)
    /\ Passes(s, n) <=> Passes(r, m)
    /\ \A p \in Paths : Untimed(s, n, p) <=> Untimed(r, m, p)
    /\ \A kind \in Audited :
          /\ Unlogged(s, kind) <=> Unlogged(r, kind)
          /\ Succeeds(s, n, kind) <=> Succeeds(r, m, kind)

LEMMA MetersStay ==
    ASSUME MetricsTypeOK, UNCHANGED meterVars
    PROVE  MetricsTypeOK' /\ CountsStay
<1>1. UNCHANGED <<series, value, meter>>
  BY DEF meterVars
<1> QED
  BY <1>1 DEF MetricsTypeOK, CountsStay, Count

LEMMA QuietBooks ==
    ASSUME LimiterAssumption, PathAssumption, BooksInv, MetricsTypeOK, MetricsTypeOK', CountsStay,
           NEW g \in Goroutines, Alone(g),
           SameStanding(request[g], meter[g], request'[g], meter'[g]),
           UNCHANGED <<arrived, panicked, counters, entries>>, AllAdmitted' = AllAdmitted
    PROVE  BooksInv'
<1>1. ArrivalBook'
  BY ArrivalStays DEF BooksInv, SameStanding
<1>2. TimeBook'
  BY TimeStays DEF BooksInv, SameStanding
<1>3. AdmissionBook'
  BY AdmissionStays DEF BooksInv, SameStanding
<1>4. LogBook'
  BY LogStays DEF BooksInv, SameStanding
<1>5. SuccessBook'
  BY SuccessStays DEF BooksInv, SameStanding
<1> QED
  BY <1>1, <1>2, <1>3, <1>4, <1>5 DEF BooksInv

\* What the outcomes of handlers have in common.
LEMMA OutcomesAgree ==
    ASSUME PathAssumption, NEW kind \in Kinds, NEW o \in Outcomes[kind]
    PROVE  /\ o.status \in Statuses \ {"limited"}
           /\ o.counter = "none" \/ o.counter \in Counters
           /\ \A k \in Audited : o.counter = k <=> (k = kind /\ o.status = "ok")
           /\ kind \in Audited => (o.logged = "ok" <=> o.status = "ok")
           /\ o.logged # "none" => kind \in Audited
<1>1. kind \in {"issue", "verify", "revoke", "split", "reconstruct", "ready"}
  BY DEF PathAssumption
<1>2. /\ o.status \in {"ok", "bad", "denied", "failed"}
      /\ o.counter \in {"none", "errors", kind}
      /\ kind = "verify" => o.counter = "verify" /\ o.logged = "none"
      /\ kind # "ready"
      /\ kind # "verify" => /\ o.counter = kind <=> o.status = "ok"
                            /\ o.logged = "ok" <=> o.status = "ok"
  BY <1>1 DEF Outcomes, HandleIssueToken, HandleVerifyToken, HandleRevokeToken, HandleVaultSplit,
      HandleVaultReconstruct, Counted, Rejected, Outcome
<1>3. "errors" \notin Kinds /\ "none" \notin Kinds
  BY DEF PathAssumption
<1> QED
  BY <1>2, <1>3 DEF Audited, Counters, PathAssumption

\* A request at these places waits; it has not been timed, nor counted.
LEMMA UnderWay ==
    ASSUME NEW r, r.pc \in {"limit", "auth", "handle", "log", "count", "set", "verify", "requests"}
    PROVE  /\ r # NoRequest
           /\ \A m : Waits(r, m) /\ \A p : ~Untimed(r, m, p)
BY DEF NoRequest, Waits, Untimed

LEMMA AtRestStands ==
    ASSUME NEW m
    PROVE  /\ ~Waits(NoRequest, m) /\ ~Passes(NoRequest, m)
           /\ \A p : ~Untimed(NoRequest, m, p)
           /\ \A kind : ~Unlogged(NoRequest, kind) /\ ~Succeeds(NoRequest, m, kind)
BY DEF NoRequest, Waits, Passes, Untimed, Unlogged, Succeeds

\* An outcome that a request carries is one of its handlers'.
LEMMA CarriedOutcome ==
    ASSUME PathAssumption, LoggedInv, NEW g \in Goroutines, request[g].pc \in {"log", "count", "set"}
    PROVE  /\ request[g].kind \in Kinds
           /\ request[g].outcome.status \in Statuses \ {"limited"}
<1>1. request[g].kind \in Kinds /\ request[g].outcome \in AllOutcomes
  BY Shapes
<1>2. \E kind \in Kinds : request[g].outcome \in Outcomes[kind]
  BY <1>1 DEF AllOutcomes
<1> QED
  BY <1>1, <1>2, OutcomesAgree

LEMMA QuietStanding ==
    ASSUME PathAssumption, LoggedInv, MeterInv, NEW g \in Goroutines,
           Authorize(g) \/ CountEntries(g) \/ SetGauge(g) \/ ReadyCopies(g) \/ ReadyVerifies(g)
           \/ Done(g)
    PROVE  SameStanding(request[g], meter[g], request'[g], meter'[g])
<1> DEFINE r == request[g]
           s == request'[g]
           m == meter[g]
<1>0. meter'[g] = m
  BY DEF Authorize, CountEntries, SetGauge, ReadyCopies, ReadyVerifies, Done, meterVars
<1>1. CASE Authorize(g)
  <2>1. r.pc = "auth" /\ r \in [pc: {"limit", "auth", "handle"}, kind: Kinds]
    BY <1>1, Shapes DEF Authorize, At
  <2>2. \/ s = [r EXCEPT !.pc = "handle"]
        \/ s = [pc |-> "requests", kind |-> r.kind, status |-> "denied"]
    BY <1>1, RequestIs DEF Authorize, GoTo, Answer
  <2>3. s.pc \in {"handle", "requests"} /\ (s.pc = "requests" => s.status = "denied")
    BY <2>1, <2>2
  <2> HIDE DEF r, s, m
  <2> QED
    BY <1>0, <2>1, <2>3, UnderWay DEF SameStanding, Passes, Unlogged, Succeeds, r, s, m
<1>2. CASE CountEntries(g)
  <2>1. r.pc = "count"
    BY <1>2 DEF CountEntries, At
  <2>2. s = [pc |-> "set", kind |-> r.kind, outcome |-> r.outcome, n |-> Len(entries)]
    BY <1>2, RequestIs DEF CountEntries
  <2>3. s.pc = "set" /\ s.kind = r.kind /\ s.outcome = r.outcome
    BY <2>2
  <2> HIDE DEF r, s, m
  <2> QED
    BY <1>0, <2>1, <2>3, UnderWay DEF SameStanding, Passes, Unlogged, Succeeds, r, s, m
<1>3. CASE SetGauge(g)
  <2>1. r.pc = "set" /\ r.outcome.status # "limited"
    BY <1>3, CarriedOutcome DEF SetGauge, At
  <2>2. s = [pc |-> "requests", kind |-> r.kind, status |-> r.outcome.status]
    BY <1>3, RequestIs DEF SetGauge, Answer
  <2>3. s.pc = "requests" /\ s.kind = r.kind /\ s.status = r.outcome.status
    BY <2>2
  <2> HIDE DEF r, s, m
  <2> QED
    BY <1>0, <2>1, <2>3, UnderWay DEF SameStanding, Passes, Unlogged, Succeeds, r, s, m
<1>4. CASE ReadyCopies(g)
  <2>1. r.pc = "handle" /\ r.kind = "ready"
    BY <1>4 DEF ReadyCopies, At
  <2>2. s = [pc |-> "verify", kind |-> r.kind, n |-> Len(entries)]
    BY <1>4, RequestIs DEF ReadyCopies
  <2>3. s.pc = "verify" /\ s.kind = "ready"
    BY <2>1, <2>2
  <2> HIDE DEF r, s, m
  <2> QED
    BY <1>0, <2>1, <2>3, UnderWay DEF SameStanding, Passes, Unlogged, Succeeds, r, s, m
<1>5. CASE ReadyVerifies(g)
  <2>1. r.pc = "verify" /\ r.kind = "ready"
    BY <1>5, Shapes DEF ReadyVerifies, At
  <2>2. \E status \in {"ok", "unavailable"} :
            s = [pc |-> "requests", kind |-> r.kind, status |-> status]
    BY <1>5, RequestIs DEF ReadyVerifies, Answer
  <2>3. s.pc = "requests" /\ s.kind = "ready" /\ s.status # "limited"
    BY <2>1, <2>2
  <2> HIDE DEF r, s, m
  <2> QED
    BY <1>0, <2>1, <2>3, UnderWay DEF SameStanding, Passes, Unlogged, Succeeds, Audited, r, s, m
<1>6. CASE Done(g)
  <2>1. r.pc = "timing" /\ m = NotMetering
    BY <1>6 DEF Done, At
  <2>2. s = NoRequest
    BY <1>6, RequestIs DEF Done
  <2>3. ~Waits(r, m) /\ ~Passes(r, m) /\ (\A p : ~Untimed(r, m, p))
        /\ (\A kind : ~Unlogged(r, kind) /\ ~Succeeds(r, m, kind))
    BY <2>1 DEF Waits, Passes, Untimed, Unlogged, Succeeds
  <2> HIDE DEF r, s, m
  <2> QED
    BY <1>0, <2>2, <2>3, AtRestStands DEF SameStanding, r, s, m
<1> QED
  BY <1>1, <1>2, <1>3, <1>4, <1>5, <1>6

\* A step of g that leaves the meters alone.
LEMMA OnlyOwn ==
    ASSUME LoggedInv, NEW g \in Goroutines, Step(g), UNCHANGED meterVars
    PROVE  Alone(g)
BY OthersStay DEF Alone, meterVars

LEMMA QuietSteps ==
    ASSUME LimiterAssumption, PathAssumption, LoggedInv, MeterInv, BooksInv, NEW g \in Goroutines,
           Authorize(g) \/ CountEntries(g) \/ SetGauge(g) \/ ReadyCopies(g) \/ ReadyVerifies(g)
           \/ Done(g)
    PROVE  BooksInv'
<1>1. /\ UNCHANGED meterVars
      /\ UNCHANGED <<arrived, panicked, counters, entries, admitted>>
  BY DEF Authorize, CountEntries, SetGauge, ReadyCopies, ReadyVerifies, Done, limiterVars, auditVars
<1>2. Step(g)
  BY DEF Step
<1>3. MetricsTypeOK /\ MetricsTypeOK' /\ CountsStay
  BY <1>1, MetersStay DEF MeterInv
<1>4. AllAdmitted' = AllAdmitted
  BY <1>1 DEF AllAdmitted, AdmittedSince
<1> QED
  BY <1>1, <1>2, <1>3, <1>4, OnlyOwn, QuietStanding, QuietBooks

\* The two calls of With, and the making of a series, which no count shows.
LEMMA WithBooks ==
    ASSUME LimiterAssumption, PathAssumption, LoggedInv, MeterInv, BooksInv, NEW g \in Goroutines,
           CountRequest(g) \/ TimeRequest(g)
    PROVE  BooksInv'
<1> DEFINE r == request[g]
           s == request'[g]
           m == meter[g]
           n == meter'[g]
<1>1. /\ MeterInv' /\ Alone(g) /\ UNCHANGED <<series, value>>
  BY CountRequestMeter, TimeRequestMeter
<1>2. MetricsTypeOK /\ MetricsTypeOK' /\ CountsStay
  BY <1>1 DEF MeterInv, CountsStay, Count
<1>3. /\ UNCHANGED <<arrived, panicked, counters, entries>> /\ AllAdmitted' = AllAdmitted
  BY DEF CountRequest, TimeRequest, limiterVars, auditVars, AllAdmitted, AdmittedSince
<1>4. SameStanding(r, m, s, n)
  <2>1. CASE CountRequest(g)
    <3>1. r.pc = "requests" /\ r \in [pc: {"requests", "counting", "timing"}, kind: Kinds, status: Statuses]
      BY <2>1, Shapes DEF CountRequest, At
    <3>2. s = [r EXCEPT !.pc = "counting"]
      BY <2>1, RequestIs DEF CountRequest, GoTo
    <3>3. s.pc = "counting" /\ s.kind = r.kind /\ s.status = r.status /\ s # NoRequest
      BY <3>1, <3>2 DEF NoRequest
    <3>4. n # NotMetering
      <4>1. <<r.kind, r.status>> \in KeysOf("requests") /\ "requests" \in Families
        BY <3>1, LabelsAre DEF At
      <4>2. With(g, "requests", <<r.kind, r.status>>)
        BY <2>1 DEF CountRequest
      <4> QED
        BY <1>2, <4>1, <4>2, WithStep
    <3> HIDE DEF r, s, m, n
    <3> QED
      BY <3>1, <3>3, <3>4, UnderWay DEF SameStanding, Waits, Passes, Untimed, Unlogged, Succeeds
  <2>2. CASE TimeRequest(g)
    <3>1. r.pc = "counting" /\ r \in [pc: {"requests", "counting", "timing"}, kind: Kinds, status: Statuses]
      BY <2>2, Shapes DEF TimeRequest, At
    <3>2. s = [r EXCEPT !.pc = "timing"]
      BY <2>2, RequestIs DEF TimeRequest, GoTo
    <3>3. s.pc = "timing" /\ s.kind = r.kind
      BY <3>1, <3>2
    <3>4. m = NotMetering /\ n # NotMetering
      BY <2>2, TimeRequestMeter DEF TimeRequest, With
    <3> HIDE DEF r, s, m, n
    <3> QED
      BY <3>1, <3>3, <3>4 DEF SameStanding, Waits, Passes, Untimed, Unlogged, Succeeds
  <2> QED
    BY <2>1, <2>2
<1> QED
  BY <1>1, <1>2, <1>3, <1>4, QuietBooks

LEMMA CreateBooks ==
    ASSUME LimiterAssumption, PathAssumption, LoggedInv, MeterInv, BooksInv, NEW g \in Goroutines,
           InMetrics(g), Create(g)
    PROVE  BooksInv'
<1>1. /\ UNCHANGED <<request, arrived, panicked, counters, entries>> /\ AllAdmitted' = AllAdmitted
  BY DEF InMetrics, pathVars, auditVars, limiterVars, AllAdmitted, AdmittedSince
<1>2. /\ MetricsTypeOK /\ MetricsTypeOK' /\ CountsStay
      /\ meter[g] # NotMetering /\ meter'[g] # NotMetering
  BY CreateStep DEF MeterInv, CountsStay
<1>3. Alone(g)
  BY InMetricsMeter
<1>4. SameStanding(request[g], meter[g], request'[g], meter'[g])
  BY <1>1, <1>2 DEF SameStanding, Waits, Passes, Untimed, Unlogged, Succeeds
<1> QED
  BY <1>1, <1>2, <1>3, <1>4, QuietBooks

\* Steps that touch nothing the books are about.
LEMMA BooksAlone ==
    ASSUME BooksInv,
           UNCHANGED <<request, meter, series, value, arrived, panicked, counters, entries, admitted>>
    PROVE  BooksInv'
<1>1. /\ \A keys : CountOfAll(keys)' = CountOfAll(keys)
      /\ \A f, key : Count(f, key)' = Count(f, key)
  BY DEF CountOfAll, Count
<1>2. AllAdmitted' = AllAdmitted /\ \A e : Logged(e)' = Logged(e)
  BY DEF AllAdmitted, AdmittedSince, Logged
<1>3. /\ AllWaiting' = AllWaiting /\ AllPassed' = AllPassed
      /\ \A p : AllUntimed(p)' = AllUntimed(p)
      /\ \A kind : AllUnlogged(kind)' = AllUnlogged(kind)
                   /\ AllSucceeding(kind)' = AllSucceeding(kind)
  BY DEF AllWaiting, AllPassed, AllUntimed, AllUnlogged, AllSucceeding
<1> QED
  BY <1>1, <1>2, <1>3 DEF BooksInv, ArrivalBook, TimeBook, AdmissionBook, LogBook, SuccessBook

-----------------------------------------------------------------------------
(* The steps that write in a book.                                           *)

LEMMA ArriveBooks ==
    ASSUME LimiterAssumption, PathAssumption, LoggedInv, MeterInv, BooksInv, NEW g \in Goroutines,
           NEW k \in Clients, NEW kind \in Kinds, Arrive(g, k, kind)
    PROVE  BooksInv'
<1> DEFINE s == request'[g]
           m == meter[g]
<1>1. /\ request[g] = NoRequest /\ UNCHANGED meterVars /\ UNCHANGED <<counters, entries, panicked>>
      /\ arrived' = arrived + 1 /\ AllAdmitted' = AllAdmitted
  BY DEF Arrive, Lookup, auditVars, AllAdmitted, AdmittedSince
<1>2. s.pc = "limit" /\ meter'[g] = m
  <2>1. s = [pc |-> "limit", kind |-> kind]
    BY RequestIs DEF Arrive
  <2> QED
    BY <1>1, <2>1 DEF meterVars
<1>3. MetricsTypeOK /\ MetricsTypeOK' /\ CountsStay
  BY <1>1, MetersStay DEF MeterInv
<1>4. Alone(g)
  <2>1. Step(g)
    BY DEF Step
  <2> QED
    BY <1>1, <2>1, OnlyOwn
<1>5. /\ Waits(s, m) /\ ~Passes(s, m) /\ (\A p \in Paths : ~Untimed(s, m, p))
      /\ \A a \in Audited : ~Unlogged(s, a) /\ ~Succeeds(s, m, a)
  BY <1>2, UnderWay DEF Passes, Unlogged, Succeeds
<1>6. /\ ~Waits(request[g], m) /\ ~Passes(request[g], m)
      /\ (\A p \in Paths : ~Untimed(request[g], m, p))
      /\ \A a \in Audited : ~Unlogged(request[g], a) /\ ~Succeeds(request[g], m, a)
  BY <1>1, AtRestStands
<1>7. ArrivalBook'
  <2>1. CountOfAll(Paths \X Statuses)' = CountOfAll(Paths \X Statuses)
        /\ CountOfAll(Paths \X Statuses) \in Nat
    BY <1>3, SumsStay, SomeKeys
  <2>2. g \in AllWaiting' /\ g \notin AllWaiting
    BY <1>2, <1>5, <1>6 DEF AllWaiting
  <2>3. Cardinality(AllWaiting') = Cardinality(AllWaiting) + 1 /\ Cardinality(AllWaiting) \in Nat
    BY <1>4, <2>2, AllMove DEF Moved
  <2> QED
    BY <1>1, <2>1, <2>3 DEF BooksInv, ArrivalBook
<1>8. TimeBook'
  BY <1>2, <1>3, <1>4, <1>5, <1>6, TimeStays DEF BooksInv
<1>9. AdmissionBook'
  BY <1>1, <1>2, <1>3, <1>4, <1>5, <1>6, AdmissionStays DEF BooksInv
<1>10. LogBook'
  BY <1>1, <1>2, <1>4, <1>5, <1>6, LogStays DEF BooksInv
<1>11. SuccessBook'
  BY <1>1, <1>2, <1>3, <1>4, <1>5, <1>6, SuccessStays DEF BooksInv
<1> QED
  BY <1>1, <1>7, <1>8, <1>9, <1>10, <1>11 DEF BooksInv

LEMMA PanicBooks ==
    ASSUME LimiterAssumption, PathAssumption, LoggedInv, MeterInv, LimiterTypeOK, BooksInv,
           NEW g \in Goroutines, HandlerPanics(g)
    PROVE  BooksInv'
<1> DEFINE r == request[g]
           m == meter[g]
<1>1. /\ r.pc = "handle" /\ UNCHANGED meterVars /\ UNCHANGED <<counters, entries, arrived>>
      /\ panicked' = panicked + 1 /\ AllAdmitted' = AllAdmitted
  BY DEF HandlerPanics, At, limiterVars, auditVars, AllAdmitted, AdmittedSince
<1>2. request'[g] = NoRequest /\ meter'[g] = m
  <2>1. request'[g] = NoRequest
    BY RequestIs DEF HandlerPanics
  <2> QED
    BY <1>1, <2>1 DEF meterVars
<1>3. MetricsTypeOK /\ MetricsTypeOK' /\ CountsStay
  BY <1>1, MetersStay DEF MeterInv
<1>4. Alone(g)
  <2>1. Step(g)
    BY DEF Step
  <2> QED
    BY <1>1, <2>1, OnlyOwn
<1>5. /\ Waits(r, m) /\ Passes(r, m) /\ (\A p \in Paths : ~Untimed(r, m, p))
      /\ \A a \in Audited : ~Unlogged(r, a) /\ ~Succeeds(r, m, a)
  BY <1>1, UnderWay DEF Passes, Unlogged, Succeeds
<1>6. /\ ~Waits(request'[g], m) /\ ~Passes(request'[g], m)
      /\ (\A p \in Paths : ~Untimed(request'[g], m, p))
      /\ \A a \in Audited : ~Unlogged(request'[g], a) /\ ~Succeeds(request'[g], m, a)
  BY <1>2, AtRestStands
<1>7. ArrivalBook'
  <2>1. CountOfAll(Paths \X Statuses)' = CountOfAll(Paths \X Statuses)
        /\ CountOfAll(Paths \X Statuses) \in Nat
    BY <1>3, SumsStay, SomeKeys
  <2>2. g \in AllWaiting /\ g \notin AllWaiting'
    BY <1>2, <1>5, <1>6 DEF AllWaiting
  <2>3. Cardinality(AllWaiting) = Cardinality(AllWaiting') + 1 /\ Cardinality(AllWaiting') \in Nat
    BY <1>4, <2>2, AllMove DEF Moved
  <2> QED
    BY <1>1, <2>1, <2>3 DEF BooksInv, ArrivalBook
<1>8. TimeBook'
  BY <1>2, <1>3, <1>4, <1>5, <1>6, TimeStays DEF BooksInv
<1>9. AdmissionBook'
  <2> DEFINE keys == Paths \X (Statuses \ {"limited"})
  <2>1. CountOfAll(keys)' = CountOfAll(keys) /\ CountOfAll(keys) \in Nat
    BY <1>3, SumsStay, SomeKeys
  <2>2. g \in AllPassed /\ g \notin AllPassed'
    BY <1>2, <1>5, <1>6 DEF AllPassed
  <2>3. Cardinality(AllPassed) = Cardinality(AllPassed') + 1 /\ Cardinality(AllPassed') \in Nat
    BY <1>4, <2>2, AllMove DEF Moved
  <2> QED
    BY <1>1, <2>1, <2>3 DEF BooksInv, AdmissionBook
<1>10. LogBook'
  BY <1>1, <1>2, <1>4, <1>5, <1>6, LogStays DEF BooksInv
<1>11. SuccessBook'
  BY <1>1, <1>2, <1>3, <1>4, <1>5, <1>6, SuccessStays DEF BooksInv
<1> QED
  BY <1>1, <1>7, <1>8, <1>9, <1>10, <1>11 DEF BooksInv

LEMMA LoggedIsNat == ASSUME ChainInv, NEW e PROVE Logged(e) \in Nat
<1> DEFINE S == {i \in DOMAIN entries : entries[i].Event = e}
<1>1. Len(entries) \in Nat /\ DOMAIN entries = 1..Len(entries)
  BY DEF ChainInv
<1>2. IsFiniteSet(1..Len(entries))
  BY <1>1, FS_Interval
<1>3. IsFiniteSet(S)
  BY <1>1, <1>2, FS_Subset
<1> QED
  BY <1>3, FS_CardinalityType DEF Logged

LEMMA PassBooks ==
    ASSUME LimiterAssumption, PathAssumption, LoggedInv, MeterInv, LimiterInv, BooksInv,
           NEW g \in Goroutines, PassLimiter(g)
    PROVE  BooksInv'
<1> DEFINE r == request[g]
           s == request'[g]
           m == meter[g]
<1>1. /\ Decide(g) /\ UNCHANGED meterVars /\ UNCHANGED <<counters, entries, arrived, panicked>>
  BY DEF PassLimiter, auditVars
<1>2. r.pc = "limit" /\ r \in [pc: {"limit", "auth", "handle"}, kind: Kinds]
  <2>1. call[g] # NoCall
    BY <1>1 DEF Decide, NoCall
  <2> QED
    BY <2>1, Shapes DEF LoggedInv, At
<1>3. /\ Admits(g) => \/ s.pc \in {"handle", "auth"}
                      \/ s.pc = "requests" /\ s.status = "bad"
      /\ ~Admits(g) => s.pc = "requests" /\ s.status = "limited"
  <2>1. \/ /\ Admits(g)
           /\ \/ \E pc \in {"handle", "auth"} : s = [r EXCEPT !.pc = pc]
              \/ s = [pc |-> "requests", kind |-> r.kind, status |-> "bad"]
        \/ ~Admits(g) /\ s = [pc |-> "requests", kind |-> r.kind, status |-> "limited"]
    BY RequestIs DEF PassLimiter, GoTo, Answer
  <2> QED
    BY <1>2, <2>1
<1>4. meter'[g] = m
  BY <1>1 DEF meterVars
<1>5. MetricsTypeOK /\ MetricsTypeOK' /\ CountsStay
  BY <1>1, MetersStay DEF MeterInv
<1>6. Alone(g)
  <2>1. Step(g)
    BY DEF Step
  <2> QED
    BY <1>1, <2>1, OnlyOwn
<1>7. /\ Waits(r, m) /\ ~Passes(r, m) /\ (\A p \in Paths : ~Untimed(r, m, p))
      /\ \A a \in Audited : ~Unlogged(r, a) /\ ~Succeeds(r, m, a)
  BY <1>2, UnderWay DEF Passes, Unlogged, Succeeds
<1>8. /\ Waits(s, m) /\ (Passes(s, m) <=> Admits(g)) /\ (\A p \in Paths : ~Untimed(s, m, p))
      /\ \A a \in Audited : ~Unlogged(s, a) /\ ~Succeeds(s, m, a)
  <2> HIDE DEF s, m
  <2>1. s.pc \in {"handle", "auth", "requests"}
    BY <1>3
  <2>2. Waits(s, m) /\ \A p \in Paths : ~Untimed(s, m, p)
    BY <2>1, UnderWay
  <2> QED
    BY <1>3, <2>1, <2>2 DEF Passes, Unlogged, Succeeds
<1>9. /\ AllAdmitted \in Nat
      /\ Admits(g) => AllAdmitted' = AllAdmitted + 1
      /\ ~Admits(g) => AllAdmitted' = AllAdmitted
  BY <1>1, AdmittedUp
<1>10. ArrivalBook'
  BY <1>1, <1>4, <1>5, <1>6, <1>7, <1>8, ArrivalStays DEF BooksInv
<1>11. TimeBook'
  BY <1>4, <1>5, <1>6, <1>7, <1>8, TimeStays DEF BooksInv
<1>12. AdmissionBook'
  <2>1. CASE ~Admits(g)
    BY <1>1, <1>4, <1>5, <1>6, <1>7, <1>8, <1>9, <2>1, AdmissionStays DEF BooksInv
  <2>2. CASE Admits(g)
    <3> DEFINE keys == Paths \X (Statuses \ {"limited"})
    <3>1. CountOfAll(keys)' = CountOfAll(keys) /\ CountOfAll(keys) \in Nat
      BY <1>5, SumsStay, SomeKeys
    <3>2. g \notin AllPassed /\ g \in AllPassed'
      BY <1>4, <1>7, <1>8, <2>2 DEF AllPassed
    <3>3. Cardinality(AllPassed') = Cardinality(AllPassed) + 1 /\ Cardinality(AllPassed) \in Nat
      BY <1>6, <3>2, AllMove DEF Moved
    <3> QED
      BY <1>1, <1>9, <2>2, <3>1, <3>3 DEF BooksInv, AdmissionBook
  <2> QED
    BY <2>1, <2>2
<1>13. LogBook'
  BY <1>1, <1>4, <1>6, <1>7, <1>8, LogStays DEF BooksInv
<1>14. SuccessBook'
  BY <1>1, <1>4, <1>5, <1>6, <1>7, <1>8, SuccessStays DEF BooksInv
<1> QED
  BY <1>1, <1>10, <1>11, <1>12, <1>13, <1>14 DEF BooksInv

LEMMA HandleBooks ==
    ASSUME LimiterAssumption, PathAssumption, LoggedInv, MeterInv, ChainInv, BooksInv,
           NEW g \in Goroutines, Handle(g)
    PROVE  BooksInv'
<1> DEFINE r == request[g]
           s == request'[g]
           m == meter[g]
<1>1. /\ r.pc = "handle" /\ UNCHANGED meterVars /\ UNCHANGED <<entries, arrived, panicked>>
      /\ AllAdmitted' = AllAdmitted
  BY DEF Handle, At, auditVars, limiterVars, AllAdmitted, AdmittedSince
<1>2. r.kind \in Kinds
  BY <1>1, Shapes
<1>3. PICK o \in Outcomes[r.kind] :
          /\ counters' = IF o.counter = "none" THEN counters
                         ELSE [counters EXCEPT ![o.counter] = counters[o.counter] + 1]
          /\ IF o.logged = "none"
             THEN s = [pc |-> "requests", kind |-> r.kind, status |-> o.status]
             ELSE s = [pc |-> "log", kind |-> r.kind, outcome |-> o]
  <2>1. PICK o \in Outcomes[r.kind] :
            /\ counters' = IF o.counter = "none" THEN counters
                           ELSE [counters EXCEPT ![o.counter] = counters[o.counter] + 1]
            /\ IF o.logged = "none"
               THEN request' = [request EXCEPT ![g] =
                        [pc |-> "requests", kind |-> r.kind, status |-> o.status]]
               ELSE request' = [request EXCEPT ![g] =
                        [pc |-> "log", kind |-> r.kind, outcome |-> o]]
    BY Zenon DEF Handle, Answer
  <2>2. CASE o.logged = "none"
    <3>1. s = [pc |-> "requests", kind |-> r.kind, status |-> o.status]
      BY <2>1, <2>2, RequestIs
    <3> QED
      BY <2>1, <2>2, <3>1
  <2>3. CASE o.logged # "none"
    <3>1. s = [pc |-> "log", kind |-> r.kind, outcome |-> o]
      BY <2>1, <2>3, RequestIs
    <3> QED
      BY <2>1, <2>3, <3>1
  <2> QED
    BY <2>2, <2>3
<1>4. /\ o.status \in Statuses \ {"limited"}
      /\ o.counter = "none" \/ o.counter \in Counters
      /\ \A k \in Audited : o.counter = k <=> (k = r.kind /\ o.status = "ok")
      /\ r.kind \in Audited => (o.logged = "ok" <=> o.status = "ok")
      /\ o.logged # "none" => r.kind \in Audited
  BY <1>2, OutcomesAgree
<1>5. /\ s.kind = r.kind
      /\ o.logged = "none" => s.pc = "requests" /\ s.status = o.status
      /\ o.logged # "none" => s.pc = "log" /\ s.outcome = o
  BY <1>3
<1>6. counters \in [Counters -> Nat] /\ counters' \in [Counters -> Nat]
  BY <1>3, <1>4 DEF BooksInv
<1>7. \A k \in Audited :
          /\ k = r.kind /\ o.status = "ok" => counters'[k] = counters[k] + 1
          /\ ~(k = r.kind /\ o.status = "ok") => counters'[k] = counters[k]
  <2>1. "none" \notin Audited /\ \A k \in Audited : k \in Counters
    BY DEF Audited, Counters, PathAssumption
  <2> QED
    BY <1>3, <1>4, <1>6, <2>1
<1>8. meter'[g] = m
  BY <1>1 DEF meterVars
<1>9. MetricsTypeOK /\ MetricsTypeOK' /\ CountsStay
  BY <1>1, MetersStay DEF MeterInv
<1>10. Alone(g)
  <2>1. Step(g)
    BY DEF Step
  <2> QED
    BY <1>1, <2>1, OnlyOwn
<1>11. /\ Waits(r, m) /\ Passes(r, m) /\ (\A p \in Paths : ~Untimed(r, m, p))
       /\ \A a \in Audited : ~Unlogged(r, a) /\ ~Succeeds(r, m, a)
  <2>1. r.pc = "handle"
    BY <1>1
  <2> HIDE DEF r, m
  <2>2. Waits(r, m) /\ \A p \in Paths : ~Untimed(r, m, p)
    BY <2>1, UnderWay
  <2> QED
    BY <2>1, <2>2 DEF Passes, Unlogged, Succeeds
<1>12. /\ Waits(s, m) /\ Passes(s, m) /\ (\A p \in Paths : ~Untimed(s, m, p))
       /\ \A a \in Audited : /\ Unlogged(s, a) <=> (a = r.kind /\ o.status = "ok")
                             /\ Succeeds(s, m, a) <=> (a = r.kind /\ o.status = "ok")
  <2> HIDE DEF r, s, m
  <2>1. s.pc \in {"log", "requests"}
    BY <1>5
  <2>2. Waits(s, m) /\ \A p \in Paths : ~Untimed(s, m, p)
    BY <2>1, UnderWay
  <2>3. Passes(s, m)
    BY <1>4, <1>5, <2>2 DEF Passes
  <2>4. ASSUME NEW a \in Audited PROVE Unlogged(s, a) <=> (a = r.kind /\ o.status = "ok")
    <3>1. o.status = "ok" /\ a = r.kind => o.logged # "none"
      BY <1>4
    <3> QED
      BY <1>4, <1>5, <3>1 DEF Unlogged
  <2>5. ASSUME NEW a \in Audited PROVE Succeeds(s, m, a) <=> (a = r.kind /\ o.status = "ok")
    BY <1>4, <1>5, <2>2 DEF Succeeds
  <2> QED
    BY <2>2, <2>3, <2>4, <2>5
<1>13. ArrivalBook'
  BY <1>1, <1>8, <1>9, <1>10, <1>11, <1>12, ArrivalStays DEF BooksInv
<1>14. TimeBook'
  BY <1>8, <1>9, <1>10, <1>11, <1>12, TimeStays DEF BooksInv
<1>15. AdmissionBook'
  BY <1>1, <1>8, <1>9, <1>10, <1>11, <1>12, AdmissionStays DEF BooksInv
<1>16. LogBook'
  <2> SUFFICES ASSUME NEW k \in Audited
               PROVE  counters'[k] = Logged(<<k, "ok">>)' + Cardinality(AllUnlogged(k)')
    BY DEF LogBook
  <2>1. Logged(<<k, "ok">>)' = Logged(<<k, "ok">>)
    BY <1>1 DEF Logged
  <2>2. counters[k] = Logged(<<k, "ok">>) + Cardinality(AllUnlogged(k)) /\ counters[k] \in Nat
    BY <1>6 DEF BooksInv, LogBook, Audited, Counters
  <2>3. g \notin AllUnlogged(k) /\ (g \in AllUnlogged(k)' <=> (k = r.kind /\ o.status = "ok"))
    BY <1>11, <1>12 DEF AllUnlogged
  <2>4. Moved(AllUnlogged(k), AllUnlogged(k)', g)
    BY <1>10, AllMove DEF Audited
  <2>5. Logged(<<k, "ok">>) \in Int
    BY LoggedIsNat
  <2> QED
    BY <1>7, <2>1, <2>2, <2>3, <2>4, <2>5 DEF Moved
<1>17. SuccessBook'
  <2> SUFFICES ASSUME NEW k \in Audited
               PROVE  counters'[k] = Count("requests", <<k, "ok">>)' + Cardinality(AllSucceeding(k)')
    BY DEF SuccessBook
  <2>1. Count("requests", <<k, "ok">>)' = Count("requests", <<k, "ok">>)
        /\ Count("requests", <<k, "ok">>) \in Nat
    <3>1. <<k, "ok">> \in KeysOf("requests") /\ "requests" \in Families
      BY LabelSets DEF Audited, PathAssumption
    <3> QED
      BY <1>9, <3>1, CountIsNat DEF CountsStay
  <2>2. counters[k] = Count("requests", <<k, "ok">>) + Cardinality(AllSucceeding(k))
    BY DEF BooksInv, SuccessBook
  <2>3. g \notin AllSucceeding(k) /\ (g \in AllSucceeding(k)' <=> (k = r.kind /\ o.status = "ok"))
    BY <1>8, <1>11, <1>12 DEF AllSucceeding
  <2>4. Moved(AllSucceeding(k), AllSucceeding(k)', g)
    BY <1>10, AllMove DEF Audited
  <2> QED
    BY <1>7, <2>1, <2>2, <2>3, <2>4 DEF Moved
<1> QED
  BY <1>1, <1>6, <1>13, <1>14, <1>15, <1>16, <1>17 DEF BooksInv

LEMMA LogBooks ==
    ASSUME LimiterAssumption, PathAssumption, LoggedInv, MeterInv, ChainInv, BooksInv,
           NEW g \in Goroutines, LogOutcome(g)
    PROVE  BooksInv'
<1> DEFINE r == request[g]
           s == request'[g]
           m == meter[g]
           event == <<r.kind, r.outcome.logged>>
<1>1. /\ r.pc = "log" /\ UNCHANGED meterVars /\ UNCHANGED <<counters, arrived, panicked>>
      /\ AllAdmitted' = AllAdmitted /\ Log(event)
  BY DEF LogOutcome, At, limiterVars, AllAdmitted, AdmittedSince
<1>2. /\ r.kind \in Kinds /\ r.outcome.status \in Statuses \ {"limited"}
      /\ r.outcome.logged \in {"ok", "failed"}
      /\ r \in [pc: {"log", "count"}, kind: Kinds, outcome: AllOutcomes]
  <2>1. r.outcome.logged \in {"ok", "failed"}
    BY <1>1 DEF LoggedInv, At
  <2>2. r \in [pc: {"log", "count"}, kind: Kinds, outcome: AllOutcomes]
    BY <1>1, Shapes
  <2> QED
    BY <1>1, <2>1, <2>2, CarriedOutcome
<1>3. /\ s.kind = r.kind
      /\ \/ s.pc = "count" /\ s.outcome = r.outcome
         \/ s.pc = "requests" /\ s.status = r.outcome.status
  <2>1. \/ s = [r EXCEPT !.pc = "count"]
        \/ s = [pc |-> "requests", kind |-> r.kind, status |-> r.outcome.status]
    BY RequestIs DEF LogOutcome, GoTo, Answer
  <2> QED
    BY <1>2, <2>1
<1>4. meter'[g] = m
  BY <1>1 DEF meterVars
<1>5. MetricsTypeOK /\ MetricsTypeOK' /\ CountsStay
  BY <1>1, MetersStay DEF MeterInv
<1>6. Alone(g)
  <2>1. Step(g)
    BY DEF Step
  <2> QED
    BY <1>1, <2>1, OnlyOwn
<1>7. event \in Events
  BY <1>2 DEF PathAssumption
<1> HIDE DEF r, s, m, event
<1>8. /\ Waits(r, m) /\ Passes(r, m) /\ (\A p \in Paths : ~Untimed(r, m, p))
      /\ \A a \in Audited : Succeeds(r, m, a) <=> (a = r.kind /\ r.outcome.status = "ok")
  <2>1. Waits(r, m) /\ \A p \in Paths : ~Untimed(r, m, p)
    BY <1>1, UnderWay
  <2> QED
    BY <1>1, <2>1 DEF Passes, Succeeds
<1>9. /\ Waits(s, m) /\ Passes(s, m) /\ (\A p \in Paths : ~Untimed(s, m, p))
      /\ \A a \in Audited : ~Unlogged(s, a)
      /\ \A a \in Audited : Succeeds(s, m, a) <=> (a = r.kind /\ r.outcome.status = "ok")
  <2>1. Waits(s, m) /\ \A p \in Paths : ~Untimed(s, m, p)
    BY <1>3, UnderWay
  <2> QED
    BY <1>2, <1>3, <2>1 DEF Passes, Unlogged, Succeeds
<1>10. ArrivalBook'
  BY <1>1, <1>4, <1>5, <1>6, <1>8, <1>9, ArrivalStays DEF BooksInv, r, s, m
<1>11. TimeBook'
  BY <1>4, <1>5, <1>6, <1>8, <1>9, TimeStays DEF BooksInv, r, s, m
<1>12. AdmissionBook'
  BY <1>1, <1>4, <1>5, <1>6, <1>8, <1>9, AdmissionStays DEF BooksInv, r, s, m
<1>13. LogBook'
  <2> SUFFICES ASSUME NEW k \in Audited
               PROVE  counters'[k] = Logged(<<k, "ok">>)' + Cardinality(AllUnlogged(k)')
    BY DEF LogBook
  <2> DEFINE e == <<k, "ok">>
  <2>1. e = event <=> Unlogged(r, k)
    BY <1>1 DEF Unlogged, event
  <2> HIDE DEF e
  <2>2. /\ Logged(e) \in Nat
        /\ e = event => Logged(e)' = Logged(e) + 1
        /\ e # event => Logged(e)' = Logged(e)
    BY <1>1, <1>7, LoggedUp
  <2>3. counters[k] = Logged(e) + Cardinality(AllUnlogged(k)) /\ counters'[k] = counters[k]
    BY <1>1 DEF BooksInv, LogBook, e
  <2>4. g \notin AllUnlogged(k)' /\ (g \in AllUnlogged(k) <=> Unlogged(r, k))
    BY <1>9 DEF AllUnlogged, r, s
  <2>5. Moved(AllUnlogged(k), AllUnlogged(k)', g)
    BY <1>6, AllMove DEF Audited
  <2>6. counters'[k] = Logged(e)' + Cardinality(AllUnlogged(k)')
    BY <2>1, <2>2, <2>3, <2>4, <2>5 DEF Moved
  <2> QED
    BY <2>6 DEF e
<1>14. SuccessBook'
  BY <1>1, <1>4, <1>5, <1>6, <1>8, <1>9, SuccessStays DEF BooksInv, r, s, m
<1> QED
  BY <1>1, <1>10, <1>11, <1>12, <1>13, <1>14 DEF BooksInv

LEMMA IncBooks ==
    ASSUME LimiterAssumption, PathAssumption, LoggedInv, MeterInv, BooksInv,
           NEW g \in Goroutines, InMetrics(g), Add(g, "requests")
    PROVE  BooksInv'
<1> DEFINE r == request[g]
           m == meter[g]
           n == meter'[g]
           key == <<r.kind, r.status>>
<1>1. /\ UNCHANGED <<request, arrived, panicked, counters, entries>> /\ AllAdmitted' = AllAdmitted
  BY DEF InMetrics, pathVars, auditVars, limiterVars, AllAdmitted, AdmittedSince
<1>2. /\ MetricsTypeOK /\ MetricsTypeOK'
      /\ m # NotMetering /\ n = NotMetering /\ m.family = "requests"
      /\ \A e \in Families : \A k \in KeysOf(e) :
             /\ e = "requests" /\ k = m.key => Count(e, k)' = Count(e, k) + 1
             /\ e # "requests" \/ k # m.key => Count(e, k)' = Count(e, k)
  BY LabelSets, AddStep DEF MeterInv
<1>3. r.pc = "counting" /\ m.key = key
  BY <1>2 DEF MeterInv, At
<1>4. r.kind \in Kinds /\ r.status \in Statuses /\ key \in Paths \X Statuses
  BY <1>3, Shapes DEF PathAssumption
<1>5. Alone(g)
  BY InMetricsMeter
<1>6. /\ \A k \in Paths \X Statuses :
            /\ k = key => Count("requests", k)' = Count("requests", k) + 1
            /\ k # key => Count("requests", k)' = Count("requests", k)
      /\ \A k \in KeysOf("durations") : Count("durations", k)' = Count("durations", k)
  BY <1>2, <1>3, LabelSets
<1>7. request'[g] = r
  BY <1>1
<1>8. r # NoRequest
  BY <1>3 DEF NoRequest
<1> HIDE DEF r, m, n
<1>9. /\ Waits(r, m) /\ ~Waits(r, n)
      /\ Passes(r, m) <=> r.status # "limited"
      /\ ~Passes(r, n)
      /\ \A p \in Paths : ~Untimed(r, m, p) /\ (Untimed(r, n, p) <=> p = r.kind)
      /\ \A a \in Audited : /\ Succeeds(r, m, a) <=> <<a, "ok">> = key
                            /\ ~Succeeds(r, n, a)
                            /\ ~Unlogged(r, a)
  BY <1>2, <1>3, <1>8 DEF Waits, Passes, Untimed, Succeeds, Unlogged
<1> HIDE DEF key
<1>10. \A keys \in SUBSET (Paths \X Statuses) :
           /\ CountOfAll(keys) \in Nat
           /\ key \in keys => CountOfAll(keys)' = CountOfAll(keys) + 1
           /\ key \notin keys => CountOfAll(keys)' = CountOfAll(keys)
  <2> SUFFICES ASSUME NEW keys \in SUBSET (Paths \X Statuses)
               PROVE  /\ CountOfAll(keys) \in Nat
                      /\ key \in keys => CountOfAll(keys)' = CountOfAll(keys) + 1
                      /\ key \notin keys => CountOfAll(keys)' = CountOfAll(keys)
    OBVIOUS
  <2>1. CountOfAll(keys) \in Nat
    BY <1>2, CountsSum
  <2>2. ASSUME key \in keys PROVE CountOfAll(keys)' = CountOfAll(keys) + 1
    <3>1. PICK one \in keys : one = key
      BY <2>2
    <3>2. /\ Count("requests", one)' = Count("requests", one) + 1
          /\ \A k \in keys \ {one} : Count("requests", k)' = Count("requests", k)
      BY <1>4, <1>6, <3>1
    <3> QED
      BY <1>2, <3>2, CountsSum
  <2>3. ASSUME key \notin keys PROVE CountOfAll(keys)' = CountOfAll(keys)
    <3>1. \A k \in keys : Count("requests", k)' = Count("requests", k)
      BY <1>6, <2>3
    <3> QED
      BY <1>2, <3>1, CountsSum
  <2> QED
    BY <2>1, <2>2, <2>3
<1>11. ArrivalBook'
  <2> DEFINE all == Paths \X Statuses
  <2>1. CountOfAll(all)' = CountOfAll(all) + 1 /\ CountOfAll(all) \in Nat
    BY <1>4, <1>10
  <2>2. g \in AllWaiting /\ g \notin AllWaiting'
    BY <1>7, <1>9 DEF AllWaiting, r, m, n
  <2>3. Cardinality(AllWaiting) = Cardinality(AllWaiting') + 1 /\ Cardinality(AllWaiting') \in Nat
    BY <1>5, <2>2, AllMove DEF Moved
  <2> QED
    BY <1>1, <2>1, <2>3 DEF BooksInv, ArrivalBook
<1>12. TimeBook'
  <2> SUFFICES ASSUME NEW p \in Paths
               PROVE  CountOfAll({p} \X Statuses)' =
                          Count("durations", <<p>>)' + Cardinality(AllUntimed(p)')
    BY DEF TimeBook
  <2> DEFINE some == {p} \X Statuses
  <2>1. <<p>> \in KeysOf("durations")
    BY DEF KeysOf
  <2>2. Count("durations", <<p>>)' = Count("durations", <<p>>) /\ Count("durations", <<p>>) \in Nat
    BY <1>2, <1>6, <2>1, LabelSets, CountIsNat
  <2>3. CountOfAll(some) = Count("durations", <<p>>) + Cardinality(AllUntimed(p))
    BY DEF BooksInv, TimeBook
  <2>4. some \in SUBSET (Paths \X Statuses) /\ (key \in some <=> p = r.kind)
    BY <1>4 DEF key
  <2>5. g \notin AllUntimed(p) /\ (g \in AllUntimed(p)' <=> p = r.kind)
    BY <1>7, <1>9 DEF AllUntimed, r, m, n
  <2>6. Moved(AllUntimed(p), AllUntimed(p)', g)
    BY <1>5, AllMove
  <2>7. /\ p = r.kind => CountOfAll(some)' = CountOfAll(some) + 1
        /\ p # r.kind => CountOfAll(some)' = CountOfAll(some)
    BY <1>10, <2>4
  <2> HIDE DEF some
  <2>8. CountOfAll(some)' = Count("durations", <<p>>)' + Cardinality(AllUntimed(p)')
    BY <2>2, <2>3, <2>5, <2>6, <2>7 DEF Moved
  <2> QED
    BY <2>8 DEF some
<1>13. AdmissionBook'
  <2> DEFINE keys == Paths \X (Statuses \ {"limited"})
  <2>1. keys \in SUBSET (Paths \X Statuses) /\ (key \in keys <=> r.status # "limited")
    BY <1>4 DEF key
  <2>2. CountOfAll(keys) \in Nat
    BY <1>10, <2>1
  <2>3. g \notin AllPassed' /\ (g \in AllPassed <=> r.status # "limited")
    BY <1>7, <1>9 DEF AllPassed, r, m, n
  <2>4. Moved(AllPassed, AllPassed', g)
    BY <1>5, AllMove
  <2>5. AllAdmitted = CountOfAll(keys) + Cardinality(AllPassed) + panicked
        /\ panicked \in Nat /\ panicked' = panicked
    BY <1>1 DEF BooksInv, AdmissionBook
  <2>6. /\ r.status # "limited" => CountOfAll(keys)' = CountOfAll(keys) + 1
        /\ r.status = "limited" => CountOfAll(keys)' = CountOfAll(keys)
    BY <1>10, <2>1
  <2> HIDE DEF keys
  <2>7. AllAdmitted' = CountOfAll(keys)' + Cardinality(AllPassed') + panicked'
    BY <1>1, <2>2, <2>3, <2>4, <2>5, <2>6 DEF Moved
  <2> QED
    BY <2>7 DEF keys, AdmissionBook
<1>14. LogBook'
  BY <1>1, <1>5, <1>7, LogStays DEF BooksInv, r
<1>15. SuccessBook'
  <2> SUFFICES ASSUME NEW k \in Audited
               PROVE  counters'[k] = Count("requests", <<k, "ok">>)' + Cardinality(AllSucceeding(k)')
    BY DEF SuccessBook
  <2> DEFINE e == <<k, "ok">>
  <2>1. e \in Paths \X Statuses
    BY DEF Audited, PathAssumption
  <2>2. g \notin AllSucceeding(k)' /\ (g \in AllSucceeding(k) <=> e = key)
    BY <1>7, <1>9 DEF AllSucceeding, r, m, n
  <2>3. Moved(AllSucceeding(k), AllSucceeding(k)', g)
    BY <1>5, AllMove DEF Audited
  <2>4. counters[k] = Count("requests", e) + Cardinality(AllSucceeding(k)) /\ counters'[k] = counters[k]
    BY <1>1 DEF BooksInv, SuccessBook
  <2>5. Count("requests", e) \in Nat
    BY <1>2, <2>1, LabelSets, CountIsNat
  <2> HIDE DEF e
  <2>6. /\ e = key => Count("requests", e)' = Count("requests", e) + 1
        /\ e # key => Count("requests", e)' = Count("requests", e)
    BY <1>6, <2>1
  <2>7. counters'[k] = Count("requests", e)' + Cardinality(AllSucceeding(k)')
    BY <2>2, <2>3, <2>4, <2>5, <2>6 DEF Moved
  <2> QED
    BY <2>7 DEF e
<1> QED
  BY <1>1, <1>11, <1>12, <1>13, <1>14, <1>15 DEF BooksInv

LEMMA ObserveBooks ==
    ASSUME LimiterAssumption, PathAssumption, LoggedInv, MeterInv, BooksInv,
           NEW g \in Goroutines, InMetrics(g), Add(g, "durations")
    PROVE  BooksInv'
<1> DEFINE r == request[g]
           m == meter[g]
           n == meter'[g]
           key == <<r.kind>>
<1>1. /\ UNCHANGED <<request, arrived, panicked, counters, entries>> /\ AllAdmitted' = AllAdmitted
  BY DEF InMetrics, pathVars, auditVars, limiterVars, AllAdmitted, AdmittedSince
<1>2. /\ MetricsTypeOK /\ MetricsTypeOK'
      /\ m # NotMetering /\ n = NotMetering /\ m.family = "durations"
      /\ \A e \in Families : \A k \in KeysOf(e) :
             /\ e = "durations" /\ k = m.key => Count(e, k)' = Count(e, k) + 1
             /\ e # "durations" \/ k # m.key => Count(e, k)' = Count(e, k)
  BY LabelSets, AddStep DEF MeterInv
<1>3. r.pc = "timing" /\ m.key = key
  BY <1>2 DEF MeterInv, At
<1>4. Alone(g)
  BY InMetricsMeter
<1>5. /\ \A k \in Paths \X Statuses : Count("requests", k)' = Count("requests", k)
      /\ \A k \in KeysOf("durations") :
            /\ k = key => Count("durations", k)' = Count("durations", k) + 1
            /\ k # key => Count("durations", k)' = Count("durations", k)
  BY <1>2, <1>3, LabelSets
<1>6. request'[g] = r
  BY <1>1
<1> HIDE DEF r, m, n
<1>7. /\ ~Waits(r, m) /\ ~Waits(r, n) /\ ~Passes(r, m) /\ ~Passes(r, n)
      /\ \A p \in Paths : ~Untimed(r, n, p) /\ (Untimed(r, m, p) <=> p = r.kind)
      /\ \A a \in Audited : ~Succeeds(r, m, a) /\ ~Succeeds(r, n, a) /\ ~Unlogged(r, a)
  BY <1>2, <1>3 DEF Waits, Passes, Untimed, Succeeds, Unlogged
<1>8. \A keys \in SUBSET (Paths \X Statuses) :
          CountOfAll(keys) \in Nat /\ CountOfAll(keys)' = CountOfAll(keys)
  <2> SUFFICES ASSUME NEW keys \in SUBSET (Paths \X Statuses)
               PROVE  CountOfAll(keys) \in Nat /\ CountOfAll(keys)' = CountOfAll(keys)
    OBVIOUS
  <2>1. \A k \in keys : Count("requests", k)' = Count("requests", k)
    BY <1>5
  <2> QED
    BY <1>2, <2>1, CountsSum
<1>9. /\ Cardinality(AllWaiting') = Cardinality(AllWaiting)
      /\ Cardinality(AllPassed') = Cardinality(AllPassed)
      /\ \A k \in Audited : Cardinality(AllSucceeding(k)') = Cardinality(AllSucceeding(k))
  <2>1. /\ g \notin AllWaiting /\ g \notin AllWaiting' /\ g \notin AllPassed /\ g \notin AllPassed'
        /\ \A k \in Audited : g \notin AllSucceeding(k) /\ g \notin AllSucceeding(k)'
    BY <1>6, <1>7 DEF AllWaiting, AllPassed, AllSucceeding, r, m, n
  <2> QED
    BY <1>4, <2>1, AllMove DEF Moved, Audited
<1>10. ArrivalBook'
  BY <1>1, <1>8, <1>9, SomeKeys DEF BooksInv, ArrivalBook
<1>11. TimeBook'
  <2> SUFFICES ASSUME NEW p \in Paths
               PROVE  CountOfAll({p} \X Statuses)' =
                          Count("durations", <<p>>)' + Cardinality(AllUntimed(p)')
    BY DEF TimeBook
  <2>1. <<p>> \in KeysOf("durations") /\ (<<p>> = key <=> p = r.kind)
    BY DEF KeysOf
  <2>2. Count("durations", <<p>>) \in Nat
    BY <1>2, <2>1, LabelSets, CountIsNat
  <2>3. /\ p = r.kind => Count("durations", <<p>>)' = Count("durations", <<p>>) + 1
        /\ p # r.kind => Count("durations", <<p>>)' = Count("durations", <<p>>)
    BY <1>5, <2>1
  <2>4. CountOfAll({p} \X Statuses) = Count("durations", <<p>>) + Cardinality(AllUntimed(p))
    BY DEF BooksInv, TimeBook
  <2>5. CountOfAll({p} \X Statuses)' = CountOfAll({p} \X Statuses)
    BY <1>8, SomeKeys
  <2>6. g \notin AllUntimed(p)' /\ (g \in AllUntimed(p) <=> p = r.kind)
    BY <1>6, <1>7 DEF AllUntimed, r, m, n
  <2>7. Moved(AllUntimed(p), AllUntimed(p)', g)
    BY <1>4, AllMove
  <2> QED
    BY <2>2, <2>3, <2>4, <2>5, <2>6, <2>7 DEF Moved
<1>12. AdmissionBook'
  BY <1>1, <1>8, <1>9, SomeKeys DEF BooksInv, AdmissionBook
<1>13. LogBook'
  BY <1>1, <1>4, <1>6, LogStays DEF BooksInv, r
<1>14. SuccessBook'
  <2>1. \A k \in Audited : <<k, "ok">> \in Paths \X Statuses
    BY DEF Audited, PathAssumption
  <2>2. \A k \in Audited : Count("requests", <<k, "ok">>)' = Count("requests", <<k, "ok">>)
    BY <1>5, <2>1
  <2> QED
    BY <1>1, <1>9, <2>2 DEF BooksInv, SuccessBook
<1> QED
  BY <1>1, <1>10, <1>11, <1>12, <1>13, <1>14 DEF BooksInv

LEMMA BooksInit == LimiterAssumption /\ PathAssumption /\ Init => BooksInv
<1> SUFFICES ASSUME LimiterAssumption, PathAssumption, Init PROVE BooksInv
  OBVIOUS
<1>1. /\ arrived = 0 /\ panicked = 0 /\ counters = [c \in Counters |-> 0]
      /\ request = [g \in Goroutines |-> NoRequest] /\ entries = <<>>
      /\ admitted = [k \in Clients |-> [t \in Instants |-> 0]]
      /\ series = [f \in Families |-> [key \in KeysOf(f) |-> NoSeries]]
  BY DEF Init, LimiterInit, AuditInit, MetricsInit
<1>2. \A f \in Families : \A key \in KeysOf(f) : Count(f, key) = 0
  BY <1>1 DEF Count
<1>3. \A keys \in SUBSET (Paths \X Statuses) : CountOfAll(keys) = 0
  <2> SUFFICES ASSUME NEW keys \in SUBSET (Paths \X Statuses) PROVE CountOfAll(keys) = 0
    OBVIOUS
  <2> DEFINE f == [key \in keys |-> Count("requests", key)]
  <2>1. \A key \in keys : Count("requests", key) = 0
    BY <1>2, LabelSets
  <2>2. f \in [keys -> Nat] /\ \A key \in keys : f[key] = 0
    BY <2>1
  <2>3. CountOfAll(keys) = Total(f)
    BY DEF CountOfAll
  <2> HIDE DEF f
  <2> QED
    BY <2>2, <2>3, TotalOfZeros
<1>4. AllAdmitted = 0
  <2> DEFINE f == [k \in Clients |-> AdmittedSince(k, 0)]
  <2>1. \A k \in Clients : AdmittedSince(k, 0) = 0
    <3> SUFFICES ASSUME NEW k \in Clients PROVE AdmittedSince(k, 0) = 0
      OBVIOUS
    <3> DEFINE since == {v \in Instants : v >= 0}
               h == [u \in since |-> admitted[k][u]]
    <3>1. h \in [since -> Nat] /\ \A u \in since : h[u] = 0
      BY <1>1
    <3>2. AdmittedSince(k, 0) = Total(h)
      BY DEF AdmittedSince
    <3> HIDE DEF h, since
    <3> QED
      BY <3>1, <3>2, TotalOfZeros
  <2>2. f \in [Clients -> Nat] /\ \A k \in Clients : f[k] = 0
    BY <2>1
  <2>3. AllAdmitted = Total(f)
    BY DEF AllAdmitted
  <2> HIDE DEF f
  <2> QED
    BY <2>2, <2>3, TotalOfZeros
<1>5. \A e : Logged(e) = 0
  <2>1. \A e : {i \in DOMAIN entries : entries[i].Event = e} = {}
    BY <1>1
  <2> QED
    BY <2>1, FS_EmptySet DEF Logged
<1>6. /\ AllWaiting = {} /\ AllPassed = {}
      /\ \A p : AllUntimed(p) = {}
      /\ \A kind : AllUnlogged(kind) = {} /\ AllSucceeding(kind) = {}
  BY <1>1, AtRestStands DEF AllWaiting, AllPassed, AllUntimed, AllUnlogged, AllSucceeding
<1>7. Cardinality({}) = 0
  BY FS_EmptySet
<1>8. ArrivalBook /\ AdmissionBook
  BY <1>1, <1>3, <1>4, <1>6, <1>7, SomeKeys DEF ArrivalBook, AdmissionBook
<1>9. TimeBook
  <2>1. \A p \in Paths : Count("durations", <<p>>) = 0
    BY <1>2, LabelSets DEF KeysOf
  <2>2. \A p \in Paths : CountOfAll({p} \X Statuses) = 0
    BY <1>3, SomeKeys
  <2>3. \A p \in Paths : Cardinality(AllUntimed(p)) = 0
    BY <1>6, <1>7
  <2>4. ASSUME NEW p \in Paths
        PROVE  CountOfAll({p} \X Statuses) = Count("durations", <<p>>) + Cardinality(AllUntimed(p))
    <3>1. CountOfAll({p} \X Statuses) = 0 /\ Count("durations", <<p>>) = 0
          /\ Cardinality(AllUntimed(p)) = 0
      BY <2>1, <2>2, <2>3
    <3> QED
      BY <3>1
  <2> QED
    BY <2>4 DEF TimeBook
<1>10. LogBook /\ SuccessBook
  <2>1. \A k \in Audited : Count("requests", <<k, "ok">>) = 0 /\ counters[k] = 0
    <3>1. \A k \in Audited : <<k, "ok">> \in KeysOf("requests") /\ k \in Counters
      BY LabelSets DEF Audited, PathAssumption, Counters
    <3> QED
      BY <1>1, <1>2, <3>1, LabelSets
  <2> QED
    BY <1>5, <1>6, <1>7, <2>1 DEF LogBook, SuccessBook
<1> QED
  BY <1>1, <1>8, <1>9, <1>10 DEF BooksInv

LEMMA BooksNext ==
    ASSUME LimiterAssumption, PathAssumption, LoggedInv, MeterInv, ChainInv, LimiterInv, BooksInv,
           [Next]_vars
    PROVE  BooksInv'
<1>1. CASE UNCHANGED vars
  BY <1>1, BooksAlone DEF vars, meterVars, pathVars, auditVars, limiterVars
<1>2. CASE Background
  BY <1>2, BooksAlone DEF Background, CleanTick, Clean, Tick, meterVars, pathVars, auditVars
<1>3. ASSUME NEW g \in Goroutines, Step(g)
      PROVE  BooksInv'
  <2>1. CASE \E k \in Clients, kind \in Kinds : Arrive(g, k, kind)
    BY <2>1, ArriveBooks
  <2>2. CASE InLimiter(g)
    BY <2>2, BooksAlone DEF InLimiter, ReadClock, meterVars, pathVars, auditVars
  <2>3. CASE PassLimiter(g)
    BY <2>3, PassBooks
  <2>4. CASE Handle(g)
    BY <2>4, HandleBooks
  <2>5. CASE HandlerPanics(g)
    BY <2>5, PanicBooks DEF LimiterInv
  <2>6. CASE LogOutcome(g)
    BY <2>6, LogBooks
  <2>7. CASE Authorize(g) \/ CountEntries(g) \/ SetGauge(g) \/ ReadyCopies(g) \/ ReadyVerifies(g)
             \/ Done(g)
    BY <2>7, QuietSteps
  <2>8. CASE CountRequest(g) \/ TimeRequest(g)
    BY <2>8, WithBooks
  <2>9. CASE InMetrics(g)
    BY <2>9, CreateBooks, IncBooks, ObserveBooks DEF InMetrics, Inc, Observe
  <2> QED
    BY <1>3, <2>1, <2>2, <2>3, <2>4, <2>5, <2>6, <2>7, <2>8, <2>9 DEF Step
<1> QED
  BY <1>1, <1>2, <1>3 DEF Next

-----------------------------------------------------------------------------
(* The gauge, and the types of the whole.                                    *)

\* Whatever has been read of the length of the log, the log is that long.
GaugeInv ==
    /\ bound \in Bounds /\ arrived \in Nat /\ arrived <= bound.requests
    /\ gauge \in Nat /\ gauge <= Len(entries)
    /\ \A g \in Goroutines : request[g].pc \in {"set", "verify"} => request[g].n <= Len(entries)

LEMMA GaugeInit == PathAssumption /\ Init => GaugeInv
<1> SUFFICES ASSUME PathAssumption, Init PROVE GaugeInv
  OBVIOUS
<1>1. bound.requests \in Nat
  BY DEF PathAssumption, Init
<1> QED
  BY <1>1 DEF GaugeInv, Init, AuditInit, NoRequest

LEMMA GaugeNext ==
    ASSUME PathAssumption, LoggedInv, ChainInv, GaugeInv, [Next]_vars
    PROVE  GaugeInv'
<1>1. Len(entries) \in Nat /\ Len(entries') \in Nat /\ Len(entries) <= Len(entries')
  <2>1. Len(entries) \in Nat /\ entries \in Seq(LogEntry)
    BY DEF ChainInv
  <2>2. CASE UNCHANGED auditVars
    BY <2>1, <2>2 DEF auditVars
  <2>3. ASSUME NEW event \in Events, Log(event)
        PROVE  Len(entries') = Len(entries) + 1
    <3>1. \E e : entries' = Append(entries, e)
      BY <2>3 DEF Log
    <3> QED
      BY <2>1, <3>1
  <2> QED
    BY <2>1, <2>2, <2>3, StepsLog
<1>2. CASE UNCHANGED <<request, gauge, arrived, bound>>
  <2>1. \A g \in Goroutines : request[g].pc \in {"set", "verify"} => request[g].n \in Nat
    BY Shapes
  <2> QED
    BY <1>1, <1>2, <2>1 DEF GaugeInv
<1>3. ASSUME NEW g \in Goroutines, Step(g), ~InLimiter(g), ~InMetrics(g)
      PROVE  GaugeInv'
  <2>1. /\ UNCHANGED bound
        /\ \/ UNCHANGED arrived
           \/ arrived' = arrived + 1 /\ arrived < bound.requests
        /\ \/ UNCHANGED gauge
           \/ request[g].pc = "set" /\ gauge' = request[g].n
    BY <1>3 DEF Step, Arrive, PassLimiter, Authorize, Handle, HandlerPanics, LogOutcome,
        CountEntries, SetGauge, ReadyCopies, ReadyVerifies, CountRequest, TimeRequest, Done, At
  <2>2. request'[g].pc \in {"set", "verify"} => request'[g].n = Len(entries)
    <3>1. CASE \E k \in Clients, kind \in Kinds : Arrive(g, k, kind)
      <4>1. \E kind \in Kinds : request'[g] = [pc |-> "limit", kind |-> kind]
        BY <3>1, RequestIs DEF Arrive
      <4> QED
        BY <4>1
    <3>2. ASSUME NEW status, Answer(g, status) PROVE request'[g].pc = "requests"
      <4>1. request'[g] = [pc |-> "requests", kind |-> request[g].kind, status |-> status]
        BY <3>2, RequestIs DEF Answer
      <4> QED
        BY <4>1
    <3>3. ASSUME NEW pc \in {"handle", "auth", "count", "counting", "timing"}, GoTo(g, pc),
                 \E place \in {"limit", "auth", "log", "requests", "counting"} : At(g, place)
          PROVE  request'[g].pc = pc
      <4>1. request'[g] = [request[g] EXCEPT !.pc = pc]
        BY <3>3, RequestIs DEF GoTo
      <4>2. \/ request[g] \in [pc: {"limit", "auth", "handle"}, kind: Kinds]
            \/ request[g] \in [pc: {"log", "count"}, kind: Kinds, outcome: AllOutcomes]
            \/ request[g] \in [pc: {"requests", "counting", "timing"}, kind: Kinds, status: Statuses]
        BY <3>3, Shapes DEF At
      <4> QED
        BY <4>1, <4>2
    <3>4. PassLimiter(g) => At(g, "limit")
      <4>1. call[g].pc = "lock" => call[g] # NoCall
        BY DEF NoCall
      <4> QED
        BY <4>1 DEF PassLimiter, Decide, LoggedInv
    <3>5. CASE PassLimiter(g) \/ Authorize(g) \/ LogOutcome(g) \/ SetGauge(g) \/ ReadyVerifies(g)
               \/ CountRequest(g) \/ TimeRequest(g)
      <4>1. \/ \E status : Answer(g, status)
            \/ \E pc \in {"handle", "auth", "count", "counting", "timing"} :
                  /\ GoTo(g, pc)
                  /\ \E place \in {"limit", "auth", "log", "requests", "counting"} : At(g, place)
        BY <3>4, <3>5 DEF PassLimiter, Authorize, LogOutcome, SetGauge, ReadyVerifies,
            CountRequest, TimeRequest
      <4> QED
        BY <3>2, <3>3, <4>1
    <3>6. CASE Handle(g)
      <4>1. \/ \E status : Answer(g, status)
            \/ \E o : request' = [request EXCEPT ![g] =
                   [pc |-> "log", kind |-> request[g].kind, outcome |-> o]]
        BY <3>6 DEF Handle
      <4>2. ASSUME NEW o, request' = [request EXCEPT ![g] =
                       [pc |-> "log", kind |-> request[g].kind, outcome |-> o]]
            PROVE  request'[g].pc = "log"
        <5>1. request'[g] = [pc |-> "log", kind |-> request[g].kind, outcome |-> o]
          BY <4>2, RequestIs
        <5> QED
          BY <5>1
      <4> QED
        BY <3>2, <4>1, <4>2
    <3>7. CASE HandlerPanics(g) \/ Done(g)
      <4>1. request'[g] = NoRequest
        BY <3>7, RequestIs DEF HandlerPanics, Done
      <4> QED
        BY <4>1 DEF NoRequest
    <3>8. CASE CountEntries(g)
      <4>1. request'[g] = [pc |-> "set", kind |-> request[g].kind, outcome |-> request[g].outcome,
                           n |-> Len(entries)]
        BY <3>8, RequestIs DEF CountEntries
      <4> QED
        BY <4>1
    <3>9. CASE ReadyCopies(g)
      <4>1. request'[g] = [pc |-> "verify", kind |-> request[g].kind, n |-> Len(entries)]
        BY <3>9, RequestIs DEF ReadyCopies
      <4> QED
        BY <4>1
    <3> QED
      BY <1>3, <3>1, <3>5, <3>6, <3>7, <3>8, <3>9 DEF Step
  <2>3. \A h \in Goroutines \ {g} : request'[h] = request[h]
    BY <1>3, OthersStay
  <2>4. \A h \in Goroutines :
            request[h].pc \in {"set", "verify"} => request[h].n \in Nat /\ request[h].n <= Len(entries)
    BY Shapes DEF GaugeInv
  <2>5. \A h \in Goroutines :
            request'[h].pc \in {"set", "verify"} => request'[h].n <= Len(entries')
    BY <1>1, <2>2, <2>3, <2>4
  <2>6. bound.requests \in Nat
    BY DEF GaugeInv, PathAssumption
  <2> QED
    BY <1>1, <2>1, <2>4, <2>5, <2>6 DEF GaugeInv
<1>4. UNCHANGED <<request, gauge, arrived, bound>>
      \/ \E g \in Goroutines : Step(g) /\ ~InLimiter(g) /\ ~InMetrics(g)
  <2>1. CASE UNCHANGED vars
    BY <2>1 DEF vars, pathVars
  <2>2. CASE Background
    BY <2>2 DEF Background, pathVars
  <2>3. ASSUME NEW g \in Goroutines, InLimiter(g) \/ InMetrics(g)
        PROVE  UNCHANGED <<request, gauge, arrived, bound>>
    BY <2>3 DEF InLimiter, InMetrics, pathVars
  <2> QED
    BY <2>1, <2>2, <2>3 DEF Next
<1> QED
  BY <1>2, <1>3, <1>4

\* Every entry has the number of its place.
LEMMA AuditTypesNext ==
    ASSUME PathAssumption, LoggedInv, ChainInv, AuditTypeOK, [Next]_vars
    PROVE  AuditTypeOK'
<1>1. entries \in Seq(LogEntry)
  BY DEF ChainInv
<1>2. CASE UNCHANGED auditVars
  BY <1>2 DEF AuditTypeOK, auditVars
<1>3. ASSUME NEW event \in Events, Log(event)
      PROVE  AuditTypeOK'
  <2> DEFINE e == Signed([Sequence |-> Len(entries), Event |-> event, PrevHash |-> prevHash])
  <2>1. entries' = Append(entries, e) /\ e.Sequence = Len(entries) /\ e.Event = event
    BY <1>3 DEF Log, Signed
  <2> HIDE DEF e
  <2> QED
    BY <1>1, <2>1 DEF AuditTypeOK
<1> QED
  BY <1>2, <1>3, StepsLog

LEMMA SumIsNat ==
    ASSUME PathAssumption, MetricsTypeOK, NEW keys \in SUBSET (Paths \X Statuses)
    PROVE  CountOfAll(keys) \in Nat
<1> DEFINE f == [key \in keys |-> Count("requests", key)]
<1>1. f \in [keys -> Nat]
  <2>1. \A key \in keys : key \in KeysOf("requests")
    BY LabelSets
  <2> QED
    BY <2>1, LabelSets, CountIsNat
<1>2. IsFiniteSet(keys) /\ CountOfAll(keys) = Total(f)
  BY LabelSets, FS_Subset DEF CountOfAll
<1> HIDE DEF f
<1> QED
  BY <1>1, <1>2, TotalIsNat

\* All that holds of a request on its way and of what it passes.
PathInv ==
    /\ LoggedInv /\ ChainInv /\ AuditTypeOK
    /\ LimiterInv /\ MeterInv /\ BooksInv /\ GaugeInv

LEMMA PathInvariance == Spec => []PathInv
<1>1. Init => PathInv
  <2> SUFFICES ASSUME Init PROVE PathInv
    OBVIOUS
  <2>1. AuditTypeOK
    BY DEF Init, AuditInit, AuditTypeOK
  <2>2. LimiterInv
    BY LimiterAssumption, LimiterInitInv DEF Init
  <2> QED
    BY <2>1, <2>2, LimiterAssumption, PathAssumption, LoggedInit, ChainInit, MeterInit, BooksInit,
       GaugeInit DEF PathInv
<1>2. PathInv /\ [Next]_vars => PathInv'
  <2> SUFFICES ASSUME PathInv, [Next]_vars PROVE PathInv'
    OBVIOUS
  <2>1. LoggedInv' /\ ChainInv'
    BY PathAssumption, StepsLog, LoggedNext, LogKeepsChain, ChainUnchanged DEF PathInv
  <2>2. AuditTypeOK' /\ MeterInv' /\ GaugeInv'
    BY PathAssumption, AuditTypesNext, MeterNext, GaugeNext DEF PathInv
  <2>3. LimiterInv'
    BY LimiterAssumption, StepsLimit, LimiterStepInv DEF PathInv
  <2>4. BooksInv'
    BY LimiterAssumption, PathAssumption, BooksNext DEF PathInv
  <2> QED
    BY <2>1, <2>2, <2>3, <2>4 DEF PathInv
<1> QED
  BY <1>1, <1>2, PTL DEF Spec

\* Types, and what they say beyond types: a bucket holds at most Limit
\* timestamps, every entry of the log has the number of its place, and the
\* gauge of the log is never ahead of it.
THEOREM PathTyped == Spec => []TypeOK
<1>1. PathInv => TypeOK
  <2> SUFFICES ASSUME PathInv PROVE TypeOK
    OBVIOUS
  <2>1. arrived \in 0..bound.requests
    <3>1. bound.requests \in Nat
      BY PathAssumption DEF PathInv, GaugeInv, PathAssumption
    <3> QED
      BY <3>1 DEF PathInv, GaugeInv
  <2>2. panicked \in 0..arrived
    <3>1. CountOfAll(Paths \X Statuses) \in Nat
      BY PathAssumption, SumIsNat, SomeKeys DEF PathInv, MeterInv
    <3>2. Cardinality(AllWaiting) \in Nat
      <4>1. AllWaiting \in SUBSET Goroutines
        BY DEF AllWaiting
      <4> QED
        BY <4>1, LimiterAssumption, FS_Subset, FS_CardinalityType DEF LimiterAssumption
    <3> QED
      BY <3>1, <3>2 DEF PathInv, BooksInv, ArrivalBook
  <2>3. gauge \in 0..Len(entries)
    <3>1. Len(entries) \in Nat
      BY DEF PathInv, ChainInv
    <3> QED
      BY <3>1 DEF PathInv, GaugeInv
  <2> QED
    BY <2>1, <2>2, <2>3 DEF TypeOK, PathInv, LimiterInv, MeterInv, LoggedInv, BooksInv
<1> QED
  BY <1>1, PathInvariance, PTL

\* When no request is under way, the books of the server agree, however its
\* requests have overlapped: the middleware's counts and times, the limiter's
\* admissions, the handlers' counters and the audit log.
THEOREM BooksBalance == Spec => []BooksAgree
<1>1. PathInv => BooksAgree
  <2> SUFFICES ASSUME PathInv, AtRest
               PROVE  /\ CountOfAll(Paths \X Statuses) = arrived - panicked
                      /\ \A p \in Paths : Count("durations", <<p>>) = CountOfAll({p} \X Statuses)
                      /\ CountOfAll(Paths \X (Statuses \ {"limited"})) = AllAdmitted - panicked
                      /\ \A kind \in Audited :
                            /\ Logged(<<kind, "ok">>) = counters[kind]
                            /\ counters[kind] = Count("requests", <<kind, "ok">>)
    BY DEF BooksAgree, AllAdmitted, Audited
  <2>1. /\ AllWaiting = {} /\ AllPassed = {}
        /\ \A p : AllUntimed(p) = {}
        /\ \A kind : AllUnlogged(kind) = {} /\ AllSucceeding(kind) = {}
    BY AtRestStands DEF AtRest, AllWaiting, AllPassed, AllUntimed, AllUnlogged, AllSucceeding
  <2>2. Cardinality({}) = 0
    BY FS_EmptySet
  <2>3. /\ \A keys \in SUBSET (Paths \X Statuses) : CountOfAll(keys) \in Nat
        /\ \A p \in Paths : Count("durations", <<p>>) \in Nat
        /\ \A kind \in Audited : Count("requests", <<kind, "ok">>) \in Nat
                                 /\ Logged(<<kind, "ok">>) \in Nat
    <3>1. \A keys \in SUBSET (Paths \X Statuses) : CountOfAll(keys) \in Nat
      BY PathAssumption, SumIsNat DEF PathInv, MeterInv
    <3>2. \A p \in Paths : <<p>> \in KeysOf("durations")
      BY DEF KeysOf
    <3>3. \A kind \in Audited : <<kind, "ok">> \in KeysOf("requests")
      BY PathAssumption, LabelSets DEF Audited, PathAssumption
    <3> QED
      BY <3>1, <3>2, <3>3, PathAssumption, LabelSets, CountIsNat, LoggedIsNat DEF PathInv, MeterInv
  <2>4. CountOfAll(Paths \X Statuses) = arrived - panicked
    BY <2>1, <2>2, <2>3, SomeKeys DEF PathInv, BooksInv, ArrivalBook
  <2>5. ASSUME NEW p \in Paths PROVE Count("durations", <<p>>) = CountOfAll({p} \X Statuses)
    <3>1. CountOfAll({p} \X Statuses) = Count("durations", <<p>>) + Cardinality(AllUntimed(p))
      BY DEF PathInv, BooksInv, TimeBook
    <3>2. Cardinality(AllUntimed(p)) = 0 /\ Count("durations", <<p>>) \in Nat
      BY <2>1, <2>2, <2>3
    <3> QED
      BY <3>1, <3>2
  <2>6. CountOfAll(Paths \X (Statuses \ {"limited"})) = AllAdmitted - panicked
    <3>1. AllAdmitted \in Nat
      BY LimiterAssumption, AdmittedIsNat DEF PathInv, LimiterInv
    <3> QED
      BY <2>1, <2>2, <2>3, <3>1, SomeKeys DEF PathInv, BooksInv, AdmissionBook
  <2>7. ASSUME NEW kind \in Audited
        PROVE  /\ Logged(<<kind, "ok">>) = counters[kind]
               /\ counters[kind] = Count("requests", <<kind, "ok">>)
    <3>1. /\ counters[kind] = Logged(<<kind, "ok">>) + Cardinality(AllUnlogged(kind))
          /\ counters[kind] = Count("requests", <<kind, "ok">>) + Cardinality(AllSucceeding(kind))
      BY DEF PathInv, BooksInv, LogBook, SuccessBook
    <3>2. /\ Cardinality(AllUnlogged(kind)) = 0 /\ Cardinality(AllSucceeding(kind)) = 0
          /\ Count("requests", <<kind, "ok">>) \in Nat /\ Logged(<<kind, "ok">>) \in Nat
      BY <2>1, <2>2, <2>3
    <3> QED
      BY <3>1, <3>2
  <2> QED
    BY <2>4, <2>5, <2>6, <2>7
<1> QED
  BY <1>1, PathInvariance, PTL

-----------------------------------------------------------------------------
(* The vault: the indexes of up to 127 shards are different and none is zero, *)
(* and no answer is wrong, whatever shards were handed in.                    *)

\* Split's comment "even values, all distinct and non-zero" (vault.go), for as
\* many shards as it is true of.
THEOREM CoordinatesDistinct ==
    \A i, j \in 1..127 : Coordinate(i) # 0 /\ (i # j => Coordinate(i) # Coordinate(j))
BY DEF Coordinate

\* ... and why it is not true of 128 shards, which Split accepts.
THEOREM Coordinate128IsZero == Coordinate(128) = 0 /\ Coordinate(129) = Coordinate(1)
BY DEF Coordinate

-----------------------------------------------------------------------------
\* A shard as it may be handed in: if its checksum is intact, Split made it.
GenuineChecksum(c, s) ==
    \E i \in 1..s.n : c = Checksum(s.secret, Coordinate(i), ShardValue(s, i))
HandedIn(shard, s) ==
    \E index, bytes, c :
        /\ shard = [Index |-> index, Value |-> bytes, Checksum |-> c]
        /\ c.intact = TRUE => GenuineChecksum(c, s)

HandInv ==
    /\ sharing = NoSharing => hand = <<>>
    /\ \E S : hand \in Seq(S) /\ \A shard \in S : HandedIn(shard, sharing)

VaultInv == HandInv /\ OnlyTheSecret

LEMMA ShardHandedIn ==
    ASSUME NEW s, NEW i \in 1..s.n
    PROVE  HandedIn(Shard(s, i), s)
BY DEF HandedIn, Shard, GenuineChecksum, Checksum

LEMMA DamagedHandedIn ==
    ASSUME NEW s, NEW i \in 1..s.n, NEW d \in Damaged(Shard(s, i))
    PROVE  HandedIn(d, s)
<1> DEFINE v == ShardValue(s, i)
           c == Checksum(s.secret, Coordinate(i), v)
           shard == [Index |-> Coordinate(i), Value |-> v, Checksum |-> c]
<1>1. Shard(s, i) = shard
  BY DEF Shard
<1>2. GenuineChecksum(c, s)
  BY DEF GenuineChecksum
<1>3. \/ \E x : d = [Index |-> x, Value |-> v, Checksum |-> c]
      \/ \E x : d = [Index |-> Coordinate(i), Value |-> x, Checksum |-> c]
      \/ d = [Index |-> Coordinate(i), Value |-> v, Checksum |-> [c EXCEPT !.intact = FALSE]]
  BY <1>1 DEF Damaged
<1>4. [c EXCEPT !.intact = FALSE].intact = FALSE
  BY DEF Checksum
<1> QED
  BY <1>2, <1>3, <1>4 DEF HandedIn

\* What the comparison of all checksums buys: the candidate is the secret that
\* was split, and every shard is one of its shards.
LEMMA MatchingShards ==
    ASSUME NEW s, NEW shards, NEW S, shards \in Seq(S),
           \A shard \in S : HandedIn(shard, s),
           NEW k, NEW secret, Len(shards) # 0,
           ChecksumsMatch(Decoded(shards), k, secret)
    PROVE  /\ secret = s.secret
           /\ \A p \in DOMAIN shards : \E i \in 1..s.n : Decoded(shards)[p] = Shard(s, i)
<1>1. ASSUME NEW p \in DOMAIN shards
      PROVE  secret = s.secret /\ \E i \in 1..s.n : Decoded(shards)[p] = Shard(s, i)
  <2>1. PICK index, bytes, c :
            /\ shards[p] = [Index |-> index, Value |-> bytes, Checksum |-> c]
            /\ c.intact = TRUE => GenuineChecksum(c, s)
    BY DEF HandedIn
  <2>2. Decoded(shards)[p] = [Index |-> index % 256, Value |-> bytes, Checksum |-> c]
    BY <2>1 DEF Decoded
  <2>3. c = Checksum(secret, index % 256, bytes)
    <3>1. p \in DOMAIN Decoded(shards)
      BY DEF Decoded
    <3> QED
      BY <2>2, <3>1 DEF ChecksumsMatch
  <2>4. PICK i \in 1..s.n : c = Checksum(s.secret, Coordinate(i), ShardValue(s, i))
    BY <2>1, <2>3 DEF Checksum, GenuineChecksum
  <2>5. secret = s.secret /\ index % 256 = Coordinate(i) /\ bytes = ShardValue(s, i)
    BY <2>3, <2>4 DEF Checksum
  <2> QED
    BY <2>2, <2>4, <2>5 DEF Shard
<1>2. 1 \in DOMAIN shards
  OBVIOUS
<1> QED
  BY <1>1, <1>2

-----------------------------------------------------------------------------
LEMMA VaultInitInv == VaultInit => VaultInv
<1> SUFFICES ASSUME VaultInit PROVE VaultInv
  OBVIOUS
<1>1. hand \in Seq({})
  BY DEF VaultInit
<1> QED
  BY <1>1 DEF VaultInit, VaultInv, HandInv, OnlyTheSecret, NoAnswer

LEMMA SplitInv ==
    ASSUME VaultInv, NEW secret, NEW n, NEW k, Split(secret, n, k)
    PROVE  VaultInv'
<1>1. hand' = <<>> /\ hand' \in Seq({})
  BY DEF VaultInv, HandInv, Split
<1>2. answer'.result # "ok"
  BY DEF Split, NoAnswer, Refused
<1>3. \A shard \in {} : HandedIn(shard, sharing')
  OBVIOUS
<1>4. \E S : hand' \in Seq(S) /\ \A shard \in S : HandedIn(shard, sharing')
  <2> DEFINE S == {}
  <2>1. hand' \in Seq(S) /\ \A shard \in S : HandedIn(shard, sharing')
    BY <1>1, <1>3
  <2> HIDE DEF S
  <2> QED
    BY <2>1
<1>5. HandInv'
  BY <1>1, <1>4 DEF HandInv
<1> QED
  BY <1>2, <1>5 DEF VaultInv, OnlyTheSecret

LEMMA PutIntoHandInv ==
    ASSUME VaultInv, sharing # NoSharing, NEW shard, HandedIn(shard, sharing),
           NEW position, PutIntoHand(shard, position)
    PROVE  VaultInv'
<1>1. PICK S : hand \in Seq(S) /\ \A e \in S : HandedIn(e, sharing)
  BY DEF VaultInv, HandInv
<1>2. hand' \in Seq(S \cup {shard})
  BY <1>1 DEF PutIntoHand
<1>3. sharing' = sharing /\ answer'.result # "ok"
  BY DEF PutIntoHand, NoAnswer
<1>4. \A e \in S \cup {shard} : HandedIn(e, sharing')
  BY <1>1, <1>3
<1> QED
  BY <1>2, <1>3, <1>4 DEF VaultInv, HandInv, OnlyTheSecret

LEMMA ReconstructInv ==
    ASSUME VaultInv, NEW k, Reconstruct(k)
    PROVE  VaultInv'
<1>1. PICK S : hand \in Seq(S) /\ \A e \in S : HandedIn(e, sharing)
  BY DEF VaultInv, HandInv
<1>2. ASSUME answer'.result = "ok"
      PROVE  /\ answer'.secret = sharing.secret
             /\ \A p \in DOMAIN hand : \E i \in 1..sharing.n : Decoded(hand)[p] = Shard(sharing, i)
  <2> DEFINE secret == Interpolated(Decoded(hand), k)
  <2> HIDE DEF secret
  <2>1. /\ ~Malformed(Decoded(hand), k)
        /\ ChecksumsMatch(Decoded(hand), k, secret)
        /\ answer' = Answered(secret, k)
    BY <1>2 DEF Reconstruct, Reconstructed, Refused, Panicked, secret
  <2>2. Len(hand) # 0
    <3>1. Len(Decoded(hand)) # 0
      BY <2>1 DEF Malformed
    <3>2. Decoded(hand) = [p \in 1..Len(hand) |-> Decoded(hand)[p]]
      BY <1>1 DEF Decoded
    <3> QED
      BY <1>1, <3>1, <3>2
  <2>3. /\ secret = sharing.secret
        /\ \A p \in DOMAIN hand : \E i \in 1..sharing.n : Decoded(hand)[p] = Shard(sharing, i)
    BY <1>1, <2>1, <2>2, MatchingShards
  <2> QED
    BY <2>1, <2>3 DEF Answered
<1>3. sharing' = sharing /\ hand' = hand
  BY DEF Reconstruct
<1>4. Decoded(hand)' = Decoded(hand)
  BY <1>3 DEF Decoded
<1> QED
  BY <1>1, <1>2, <1>3, <1>4 DEF VaultInv, HandInv, OnlyTheSecret

LEMMA VaultNextInv == VaultInv /\ [VaultNext]_vaultVars => VaultInv'
<1> SUFFICES ASSUME VaultInv, [VaultNext]_vaultVars PROVE VaultInv'
  OBVIOUS
<1> USE VaultAssumption
<1>1. ASSUME NEW secret \in Secrets, NEW n \in Counts, NEW k \in Thresholds, Split(secret, n, k)
      PROVE  VaultInv'
  BY <1>1, SplitInv
<1>2. ASSUME NEW i \in Positions, i <= sharing.n
      PROVE  sharing # NoSharing /\ i \in 1..sharing.n
  BY <1>2 DEF NoSharing
<1>3. ASSUME NEW i \in Positions, HandIn(i)
      PROVE  VaultInv'
  BY <1>2, <1>3, ShardHandedIn, PutIntoHandInv DEF HandIn
<1>4. ASSUME NEW i \in Positions, HandInDamaged(i)
      PROVE  VaultInv'
  BY <1>2, <1>4, DamagedHandedIn, PutIntoHandInv DEF HandInDamaged
<1>5. ASSUME NEW k \in Thresholds, Reconstruct(k)
      PROVE  VaultInv'
  BY <1>5, ReconstructInv
<1>6. CASE UNCHANGED vaultVars
  BY <1>6 DEF vaultVars, VaultInv, HandInv, OnlyTheSecret, Decoded
<1> QED
  BY <1>1, <1>3, <1>4, <1>5, <1>6 DEF VaultNext

\* /vault/reconstruct never answers with anything but the secret that was split,
\* and only if every shard it was handed is genuine: for all secrets, shares,
\* thresholds, orders, repetitions and damages.
THEOREM NoWrongAnswer == VaultSpec => []OnlyTheSecret
<1>1. VaultInv => OnlyTheSecret
  BY DEF VaultInv
<1> QED
  BY VaultInitInv, VaultNextInv, <1>1, PTL DEF VaultSpec

-----------------------------------------------------------------------------
(* The types of the vault client's sharing, shards and answers.              *)

\* Products, sums and roundings to eight bits are bytes.
LEMMA BytesMade ==
    /\ \A a, b : gfMul(a, b) \in Byte
    /\ \A a, b \in Byte : a ^^ b \in Byte
    /\ \A n : ByteOf(n) \in Byte
BY DEF gfMul, Byte, ^^, ByteOf

\* What Horner's rule makes of a function: its fixed point is the rule's result.
HornerRow(coeffs, b, x, r) ==
    [c \in 1..(Len(coeffs) + 1) |->
        IF c > Len(coeffs) THEN Zero ELSE gfMul(r[c + 1], x) ^^ coeffs[c][b]]

\* Horner's rule ends: the function it defines from the last coefficient to the
\* first exists, by the least number of coefficients for which it would not.
LEMMA HornerDefined ==
    ASSUME NEW coeffs, Len(coeffs) \in Nat, NEW b, NEW x
    PROVE  \E r : r = HornerRow(coeffs, b, x, r)
<1> DEFINE L == Len(coeffs)
           Horner(h, c) == IF c > L THEN Zero ELSE gfMul(h[c + 1], x) ^^ coeffs[c][b]
           Good(m, h) == \A c \in (L + 1 - m)..(L + 1) : h[c] = Horner(h, c)
           Bad == {m \in 0..L : ~\E h : Good(m, h)}
<1>0. L \in Nat
  OBVIOUS
<1> HIDE DEF L
<1>1. Bad = {}
  <2> SUFFICES ASSUME Bad # {} PROVE FALSE
    OBVIOUS
  <2>1. PICK m \in Bad : \A y \in Bad : m <= y
    <3>1. Bad \in SUBSET Nat
      BY <1>0
    <3> HIDE DEF Bad
    <3> QED
      BY <3>1, LeastOf
  <2>2. m \in 0..L /\ ~\E h : Good(m, h)
    OBVIOUS
  <2>3. CASE m = 0
    <3> DEFINE h == [c \in {L + 1} |-> Zero]
    <3>1. Good(0, h)
      BY <1>0
    <3> QED
      BY <2>2, <2>3, <3>1
  <2>4. CASE m # 0
    <3>1. m - 1 \in 0..L /\ ~(m - 1 \in Bad)
      BY <1>0, <2>1, <2>2, <2>4
    <3>2. PICK h : Good(m - 1, h)
      BY <3>1
    <3> DEFINE first == L + 1 - m
               g == [c \in first..(L + 1) |-> IF c = first THEN Horner(h, c) ELSE h[c]]
    <3>3. ASSUME NEW c \in first..(L + 1)
          PROVE  g[c] = Horner(g, c)
      <4>1. c <= L => g[c + 1] = h[c + 1]
        BY <1>0, <2>2
      <4>2. Horner(g, c) = Horner(h, c)
        BY <1>0, <2>2, <4>1
      <4>3. c # first => h[c] = Horner(h, c)
        BY <1>0, <2>2, <3>2
      <4> QED
        BY <4>2, <4>3
    <3>4. Good(m, g)
      BY <3>3
    <3> QED
      BY <2>2, <3>4
  <2> QED
    BY <2>3, <2>4
<1>2. PICK h : Good(L, h)
  <2>1. L \notin Bad
    <3> HIDE DEF Bad
    <3> QED
      BY <1>1
  <2>2. L \in 0..L
    BY <1>0
  <2> QED
    BY <2>1, <2>2
<1> DEFINE r == [c \in 1..(L + 1) |-> h[c]]
<1>3. ASSUME NEW c \in 1..(L + 1)
      PROVE  r[c] = Horner(r, c)
  <2>1. h[c] = Horner(h, c)
    BY <1>0, <1>2
  <2>2. c <= L => r[c + 1] = h[c + 1]
    BY <1>0
  <2> QED
    BY <1>0, <2>1, <2>2
<1>4. r = [c \in 1..(L + 1) |-> Horner(r, c)]
  BY <1>3
<1>5. r = HornerRow(coeffs, b, x, r)
  BY <1>4 DEF L, HornerRow
<1> QED
  BY <1>5

\* A polynomial over bytes has bytes as values.
LEMMA PolynomialIsByte ==
    ASSUME NEW coeffs, Len(coeffs) \in Nat \ {0}, NEW b, NEW x, coeffs[1][b] \in Byte
    PROVE  PolynomialAt(coeffs, b, x) \in Byte
<1> DEFINE result == CHOOSE r : r = HornerRow(coeffs, b, x, r)
<1>1. PolynomialAt(coeffs, b, x) = result[1]
  BY Zenon DEF PolynomialAt, HornerRow
<1>2. result = HornerRow(coeffs, b, x, result)
  <2>1. Len(coeffs) \in Nat
    OBVIOUS
  <2>2. \E r : r = HornerRow(coeffs, b, x, r)
    BY <2>1, HornerDefined
  <2> QED
    BY <2>2, Zenon
<1> HIDE DEF result
<1>3. result[1] = gfMul(result[2], x) ^^ coeffs[1][b]
  BY <1>2 DEF HornerRow
<1> QED
  BY <1>1, <1>3, BytesMade

\* Every shard Split makes is one a request may hold, its index within one byte.
LEMMA ShardTyped ==
    ASSUME NEW s \in Sharings, NEW i \in Nat
    PROVE  /\ Shard(s, i) \in Shards
           /\ Shard(s, i).Index \in 0..255
<1> DEFINE index == Coordinate(i)
           bytes == ShardValue(s, i)
           all   == <<s.secret>> \o s.coeffs
           c     == Checksum(s.secret, index, bytes)
<1>1. s.secret \in Seq(Byte) /\ s.coeffs \in Seq(Seq(Byte)) /\ Len(s.secret) \in Nat
  BY DEF Sharings
<1>2. index \in 0..255 /\ index \in Numbers
  BY DEF Coordinate, Numbers
<1>3. Len(all) \in Nat \ {0} /\ all[1] = s.secret
  BY <1>1
<1> HIDE DEF all
<1>4. bytes \in Seq(Byte)
  <2>1. ASSUME NEW b \in 1..Len(s.secret)
        PROVE  PolynomialAt(all, b, ByteOf(index)) \in Byte
    <3>1. all[1][b] \in Byte
      BY <1>1, <1>3
    <3> QED
      BY <1>3, <3>1, PolynomialIsByte
  <2>2. bytes = [b \in 1..Len(s.secret) |-> PolynomialAt(all, b, ByteOf(index))]
    BY DEF ShardValue, all
  <2> HIDE DEF bytes, index
  <2>3. bytes \in [1..Len(s.secret) -> Byte]
    BY <2>1, <2>2
  <2> QED
    BY <1>1, <2>3
<1>5. c \in [intact: BOOLEAN, key: Seq(Byte), index: Numbers, value: Seq(Byte)]
  <2> HIDE DEF index, bytes
  <2> QED
    BY <1>1, <1>2, <1>4 DEF Checksum
<1>6. Shard(s, i) = [Index |-> index, Value |-> bytes, Checksum |-> c]
  BY DEF Shard
<1> HIDE DEF index, bytes, c
<1> QED
  BY <1>2, <1>4, <1>5, <1>6 DEF Shards

\* A damaged shard is still one the request can hold: its numbers are numbers and
\* its bytes are bytes.
LEMMA DamagedTyped ==
    ASSUME VaultAssumption, NEW shard \in Shards, NEW index \in 0..255, shard.Index = index,
           NEW d \in Damaged(shard)
    PROVE  d \in Shards
<1>1. /\ shard.Value \in Seq(Byte)
      /\ shard.Checksum \in [intact: BOOLEAN, key: Seq(Byte), index: Numbers, value: Seq(Byte)]
  <2>1. shard.Value \in Seq(Byte)
    BY DEF Shards
  <2>2. shard.Checksum \in [intact: BOOLEAN, key: Seq(Byte), index: Numbers, value: Seq(Byte)]
    BY DEF Shards
  <2> QED
    BY <2>1, <2>2
<1>2. ASSUME NEW b \in OtherBytes \cup {0}, d = [shard EXCEPT !.Index = ((shard.Index + b) % 256) + 256]
      PROVE  d \in Shards
  <2> DEFINE low == (index + b) % 256
             high == low + 256
  <2>1. low \in 0..255
    <3>1. b \in 0..255
      BY DEF VaultAssumption
    <3>2. index + b \in Int
      BY <3>1
    <3> QED
      BY <3>2
  <2> HIDE DEF low
  <2>2. high = 256 + low
    BY <2>1
  <2>3. high \in Numbers
    BY <2>1, <2>2 DEF Numbers
  <2>4. d = [shard EXCEPT !.Index = high]
    BY <1>2 DEF low
  <2> HIDE DEF high
  <2> QED
    BY <2>3, <2>4 DEF Shards
<1>3. ASSUME NEW v \in Seq(Byte), d = [shard EXCEPT !.Value = v]
      PROVE  d \in Shards
  BY <1>3 DEF Shards
<1>4. ASSUME NEW b \in OtherBytes, d = [shard EXCEPT !.Value[1] = @ ^^ ByteOf(b)]
      PROVE  d \in Shards
  <2> DEFINE v == [shard.Value EXCEPT ![1] = shard.Value[1] ^^ ByteOf(b)]
  <2>1. d = [shard EXCEPT !.Value = v]
    BY <1>4
  <2>2. v \in Seq(Byte)
    <3>1. shard.Value \in [1..Len(shard.Value) -> Byte] /\ Len(shard.Value) \in Nat
      BY <1>1
    <3>2. ASSUME NEW p \in 1..Len(shard.Value)
          PROVE  v[p] \in Byte
      <4>1. CASE p = 1
        <5>1. shard.Value[1] \in Byte /\ ByteOf(b) \in Byte
          BY <3>1, <4>1, BytesMade
        <5>2. shard.Value[1] ^^ ByteOf(b) \in Byte
          BY <5>1, BytesMade
        <5> QED
          BY <3>1, <4>1, <5>2
      <4>2. CASE p # 1
        BY <3>1, <4>2
      <4> QED
        BY <4>1, <4>2
    <3>3. v \in [1..Len(shard.Value) -> Byte]
      BY <3>1, <3>2
    <3> QED
      BY <3>1, <3>3
  <2> HIDE DEF v
  <2> QED
    BY <1>3, <2>1, <2>2
<1>5. ASSUME d = [shard EXCEPT !.Value = SubSeq(shard.Value, 1, Len(shard.Value) - 1)]
      PROVE  d \in Shards
  <2>1. SubSeq(shard.Value, 1, Len(shard.Value) - 1) \in Seq(Byte)
    BY <1>1
  <2> QED
    BY <1>3, <1>5, <2>1
<1>6. ASSUME d = [shard EXCEPT !.Checksum.intact = FALSE]
      PROVE  d \in Shards
  <2> DEFINE c == [shard.Checksum EXCEPT !.intact = FALSE]
  <2>1. c \in [intact: BOOLEAN, key: Seq(Byte), index: Numbers, value: Seq(Byte)]
    BY <1>1
  <2>2. d = [shard EXCEPT !.Checksum = c]
    BY <1>6
  <2> HIDE DEF c
  <2> QED
    BY <2>1, <2>2 DEF Shards
<1> QED
  BY <1>2, <1>4, <1>5, <1>6 DEF Damaged

\* Split keeps the types: it makes a coefficient for every power below k.
LEMMA SplitTyped ==
    ASSUME VaultAssumption, VaultTypeOK, NEW secret \in Secrets, NEW n \in Counts,
           NEW k \in Thresholds, Split(secret, n, k)
    PROVE  VaultTypeOK'
<1>1. UNCHANGED <<hand, from>>
  BY DEF Split
<1>2. CASE ValidParameters(secret, n, k)
  <2>1. PICK coeffs \in [1..(k - 1) -> [1..Len(secret) -> Randoms]] :
            /\ sharing' = [secret |-> secret, n |-> n, k |-> k, coeffs |-> coeffs]
            /\ answer' = NoAnswer
    BY <1>2 DEF Split
  <2>2. secret \in Seq(Byte) /\ n \in 2..255 /\ k \in 2..255 /\ k <= n
    BY <1>2 DEF ValidParameters, VaultAssumption
  <2>3. coeffs \in Seq(Seq(Byte)) /\ Len(coeffs) = k - 1
    <3>1. [1..Len(secret) -> Randoms] \subseteq Seq(Byte)
      BY <2>2 DEF VaultAssumption
    <3>2. coeffs \in [1..(k - 1) -> Seq(Byte)] /\ k - 1 \in Nat
      BY <2>2, <3>1
    <3> QED
      BY <3>2
  <2> QED
    BY <1>1, <2>1, <2>2, <2>3 DEF VaultTypeOK, Sharings, Answers
<1>3. CASE ~ValidParameters(secret, n, k)
  BY <1>1, <1>3 DEF Split, VaultTypeOK, Answers
<1> QED
  BY <1>2, <1>3

\* Putting a shard into the request keeps the types.
LEMMA PutTyped ==
    ASSUME VaultTypeOK, NEW shard \in Shards, NEW position \in 0..255, PutIntoHand(shard, position)
    PROVE  VaultTypeOK'
<1>1. hand' \in Seq(Shards) /\ from' \in Seq(0..255) /\ Len(from') = Len(hand')
  BY DEF PutIntoHand, VaultTypeOK
<1> QED
  BY <1>1 DEF PutIntoHand, VaultTypeOK

\* Reconstruct answers a sequence of bytes, because what it answers is the secret.
LEMMA ReconstructTyped ==
    ASSUME VaultAssumption, VaultTypeOK, VaultInv', NEW k \in Thresholds, Reconstruct(k)
    PROVE  VaultTypeOK'
<1>1. /\ sharing # NoSharing /\ UNCHANGED <<sharing, hand, from>>
      /\ answer' = Reconstructed(Decoded(hand), k)
  BY DEF Reconstruct
<1>2. answer' = Refused \/ answer' = Panicked \/ \E secret : answer' = Answered(secret, k)
  BY <1>1 DEF Reconstructed
<1>3. ASSUME NEW secret, answer' = Answered(secret, k)
      PROVE  answer' \in Answers
  <2>1. answer' = [result |-> "ok", secret |-> secret, threshold |-> k]
    BY <1>3 DEF Answered
  <2>2. secret = sharing.secret
    BY <1>1, <2>1 DEF VaultInv, OnlyTheSecret
  <2>3. sharing.secret \in Seq(Byte) /\ k \in Int
    BY <1>1 DEF VaultTypeOK, Sharings, VaultAssumption
  <2> QED
    BY <2>1, <2>2, <2>3 DEF Answers
<1>4. answer' \in Answers
  BY <1>2, <1>3 DEF Answers
<1> QED
  BY <1>1, <1>4 DEF VaultTypeOK

\* A sharing has a coefficient for every power below its threshold, and whatever
\* is split, damaged and handed in, values are bytes, numbers are those of one
\* byte or damaged ones, and an answer is a sequence of bytes.
THEOREM VaultTyped == VaultSpec => []VaultTypeOK
<1> USE VaultAssumption
<1>1. VaultInit => VaultInv /\ VaultTypeOK
  BY VaultInitInv DEF VaultInit, VaultTypeOK, Answers
<1>2. VaultInv /\ VaultTypeOK /\ [VaultNext]_vaultVars => VaultInv' /\ VaultTypeOK'
  <2> SUFFICES ASSUME VaultInv, VaultTypeOK, [VaultNext]_vaultVars PROVE VaultInv' /\ VaultTypeOK'
    OBVIOUS
  <2>1. VaultInv'
    BY VaultNextInv
  <2>2. ASSUME NEW secret \in Secrets, NEW n \in Counts, NEW k \in Thresholds, Split(secret, n, k)
        PROVE  VaultTypeOK'
    BY <2>2, SplitTyped
  <2>3. ASSUME NEW i \in Positions, i <= sharing.n
        PROVE  /\ i \in 0..255
               /\ Shard(sharing, i) \in Shards
               /\ Shard(sharing, i).Index \in 0..255
    <3>1. i \in 1..255
      BY DEF VaultAssumption
    <3>2. sharing \in Sharings
      BY <2>3, <3>1 DEF VaultTypeOK, NoSharing
    <3>3. i \in Nat /\ i \in 0..255
      BY <3>1
    <3> QED
      BY <3>2, <3>3, ShardTyped
  <2>4. ASSUME NEW i \in Positions, HandIn(i) PROVE VaultTypeOK'
    <3>1. i <= sharing.n /\ PutIntoHand(Shard(sharing, i), i)
      BY <2>4 DEF HandIn
    <3>2. i \in 0..255 /\ Shard(sharing, i) \in Shards
      BY <2>3, <3>1
    <3> QED
      BY <3>1, <3>2, PutTyped
  <2>5. ASSUME NEW i \in Positions, HandInDamaged(i) PROVE VaultTypeOK'
    <3>1. i <= sharing.n
      BY <2>5 DEF HandInDamaged
    <3>2. PICK d \in Damaged(Shard(sharing, i)) : PutIntoHand(d, 0)
      BY <2>5 DEF HandInDamaged
    <3>3. PICK index \in 0..255 : Shard(sharing, i).Index = index
      BY <2>3, <3>1
    <3>5. d \in Shards
      BY <2>3, <3>1, <3>3, DamagedTyped
    <3>4. 0 \in 0..255
      OBVIOUS
    <3> QED
      BY <3>2, <3>4, <3>5, PutTyped
  <2>6. ASSUME NEW k \in Thresholds, Reconstruct(k) PROVE VaultTypeOK'
    BY <2>1, <2>6, ReconstructTyped
  <2>7. CASE UNCHANGED vaultVars
    BY <2>1, <2>7 DEF vaultVars, VaultTypeOK
  <2>8. CASE VaultNext
    BY <2>1, <2>2, <2>4, <2>5, <2>6, <2>8 DEF VaultNext
  <2> QED
    BY <2>1, <2>7, <2>8
<1> QED
  BY <1>1, <1>2, PTL DEF VaultSpec

-----------------------------------------------------------------------------
(* The sum of bytes, and functions that respect it.                          *)

\* ^ on bytes is a group in which every byte is its own inverse.
LEMMA SumLaws ==
    /\ \A a, b \in Byte : a ^^ b \in Byte
    /\ \A a, b : a ^^ b = b ^^ a
    /\ \A a, b, c : (a ^^ b) ^^ c = a ^^ (b ^^ c)
    /\ \A a : a ^^ a = {} /\ a ^^ {} = a /\ {} ^^ a = a
    /\ {} \in Byte
BY DEF ^^, Byte

\* One of two sets has an odd number of elements iff their sum does.
LEMMA OddSum ==
    ASSUME NEW S, NEW T, IsFiniteSet(S), IsFiniteSet(T)
    PROVE  Odd(S ^^ T) <=> (Odd(S) # Odd(T))
<1> DEFINE A == S \ T
           B == T \ S
           C == S \cap T
<1>1. IsFiniteSet(A) /\ IsFiniteSet(B) /\ IsFiniteSet(C)
  BY FS_Difference, FS_Intersection
<1>2. A \cap B = {} /\ A \cap C = {} /\ B \cap C = {}
  OBVIOUS
<1>3. S = A \cup C /\ T = B \cup C /\ S ^^ T = A \cup B
  BY DEF ^^
<1> HIDE DEF A, B, C
<1>4. /\ Cardinality(A \cup C) = Cardinality(A) + Cardinality(C)
      /\ Cardinality(B \cup C) = Cardinality(B) + Cardinality(C)
      /\ Cardinality(A \cup B) = Cardinality(A) + Cardinality(B)
  <2>1. Cardinality({}) = 0
    BY FS_EmptySet
  <2>3. Cardinality(A) \in Nat /\ Cardinality(B) \in Nat /\ Cardinality(C) \in Nat
    BY <1>1, FS_CardinalityType
  <2>4. Cardinality(A \cup C) = Cardinality(A) + Cardinality(C) - Cardinality(A \cap C)
    BY <1>1, FS_Union
  <2>5. Cardinality(B \cup C) = Cardinality(B) + Cardinality(C) - Cardinality(B \cap C)
    BY <1>1, FS_Union
  <2>6. Cardinality(A \cup B) = Cardinality(A) + Cardinality(B) - Cardinality(A \cap B)
    BY <1>1, FS_Union
  <2>7. /\ Cardinality(A \cap C) = 0 /\ Cardinality(B \cap C) = 0
        /\ Cardinality(A \cap B) = 0
    BY <1>2, <2>1, Zenon
  <2> QED
    BY <2>3, <2>4, <2>5, <2>6, <2>7
<1> DEFINE x == Cardinality(A)
           y == Cardinality(B)
           z == Cardinality(C)
<1>5. x \in Nat /\ y \in Nat /\ z \in Nat
  BY <1>1, FS_CardinalityType
<1> HIDE DEF x, y, z
<1>6. Odd(S) <=> (x + z) % 2 = 1
  BY <1>3, <1>4 DEF Odd, x, z
<1>7. Odd(T) <=> (y + z) % 2 = 1
  BY <1>3, <1>4 DEF Odd, y, z
<1>8. Odd(S ^^ T) <=> (x + y) % 2 = 1
  BY <1>3, <1>4 DEF Odd, x, y
<1>9. ((x + y) % 2 = 1) <=> ~((x + z) % 2 = 1 <=> (y + z) % 2 = 1)
  BY <1>5
<1>10. Odd(S) \in BOOLEAN /\ Odd(T) \in BOOLEAN
  BY DEF Odd
<1> QED
  BY <1>6, <1>7, <1>8, <1>9, <1>10

Additive(f) == f \in [Byte -> Byte] /\ \A a, b \in Byte : f[a ^^ b] = f[a] ^^ f[b]

\* Additive functions that agree on the eight bytes of one bit are the same.
LEMMA AdditiveEqual ==
    ASSUME NEW f, NEW g, Additive(f), Additive(g), \A i \in 0..7 : f[{i}] = g[{i}]
    PROVE  \A a \in Byte : f[a] = g[a]
<1> DEFINE Bad == {n \in 0..8 : \E a \in Byte : Cardinality(a) = n /\ f[a] # g[a]}
<1>1. \A a \in Byte : IsFiniteSet(a) /\ Cardinality(a) \in 0..8
  <2>1. IsFiniteSet(0..7) /\ Cardinality(0..7) = 8
    <3>1. 0 \in Int /\ 7 \in Int /\ ~(0 > 7) /\ 7 - 0 + 1 = 8
      OBVIOUS
    <3> QED
      BY <3>1, FS_Interval
  <2> SUFFICES ASSUME NEW a \in Byte PROVE IsFiniteSet(a) /\ Cardinality(a) \in 0..8
    OBVIOUS
  <2>2. IsFiniteSet(a) /\ Cardinality(a) <= 8
    BY <2>1, FS_Subset DEF Byte
  <2>3. Cardinality(a) \in Nat
    BY <2>2, FS_CardinalityType
  <2> QED
    BY <2>2, <2>3
<1>2. f[{}] = {} /\ g[{}] = {}
  BY SumLaws DEF Additive
<1>3. Bad = {}
  <2> SUFFICES ASSUME Bad # {} PROVE FALSE
    OBVIOUS
  <2>1. PICK n \in Bad : \A m \in Bad : n <= m
    <3>1. Bad \in SUBSET Nat
      OBVIOUS
    <3> HIDE DEF Bad
    <3> QED
      BY <3>1, LeastOf
  <2>2. PICK a \in Byte : Cardinality(a) = n /\ f[a] # g[a]
    OBVIOUS
  <2>3. a # {}
    BY <1>2, <2>2
  <2>4. PICK i \in 0..7 : i \in a
    BY <2>3 DEF Byte
  <2> DEFINE c == a \ {i}
  <2>5. c \in Byte /\ {i} \in Byte /\ a = c ^^ {i}
    BY <2>4 DEF Byte, ^^
  <2>6. Cardinality(c) = n - 1
    BY <1>1, <2>2, <2>4, FS_RemoveElement
  <2>7. f[c] = g[c]
    BY <1>1, <2>1, <2>2, <2>5, <2>6
  <2> HIDE DEF c
  <2>8. f[a] = f[c] ^^ f[{i}] /\ g[a] = g[c] ^^ g[{i}]
    BY <2>5 DEF Additive
  <2> QED
    BY <2>2, <2>7, <2>8
<1> QED
  BY <1>1, <1>3

-----------------------------------------------------------------------------
(* Multiplication: the rows of gfMul, and what it respects.                  *)

\* Multiplying by x is additive.
LEMMA TimesAdditive ==
    /\ \A a \in Byte : Times_x(a) \in Byte
    /\ \A a, b \in Byte : Times_x(a ^^ b) = Times_x(a) ^^ Times_x(b)
<1>1. ASSUME NEW a \in Byte, NEW e
      PROVE  e \in Times_x(a) <=>
                /\ e \in 0..7
                /\ (e - 1 \in a) # (7 \in a /\ e \in {4, 3, 1, 0})
  <2>1. gfPoly \ {8} = {4, 3, 1, 0}
    BY DEF gfPoly
  <2>2. e \in {d + 1 : d \in a \ {7}} <=> e \in 1..7 /\ e - 1 \in a
    BY DEF Byte
  <2> DEFINE low == {d + 1 : d \in a \ {7}}
             out == IF 7 \in a THEN {4, 3, 1, 0} ELSE {}
  <2>3. Times_x(a) = (low \ out) \cup (out \ low)
    BY <2>1 DEF Times_x, ^^
  <2>4. e \in 0..7 /\ e - 1 \in a => e \in 1..7
    BY DEF Byte
  <2> HIDE DEF low
  <2>5. e \in low <=> e \in 1..7 /\ e - 1 \in a
    BY <2>2 DEF low
  <2>6. e \in out <=> 7 \in a /\ e \in {4, 3, 1, 0}
    OBVIOUS
  <2> HIDE DEF out
  <2> QED
    BY <2>3, <2>4, <2>5, <2>6
<1>2. \A a \in Byte : Times_x(a) \in Byte
  BY <1>1 DEF Byte
<1>3. ASSUME NEW a \in Byte, NEW b \in Byte
      PROVE  Times_x(a ^^ b) = Times_x(a) ^^ Times_x(b)
  <2>1. a ^^ b \in Byte
    BY SumLaws
  <2>2. \A e : e \in Times_x(a ^^ b) <=> e \in Times_x(a) ^^ Times_x(b)
    <3> TAKE e
    <3>1. /\ e \in Times_x(a) <=> e \in 0..7 /\ (e - 1 \in a) # (7 \in a /\ e \in {4, 3, 1, 0})
          /\ e \in Times_x(b) <=> e \in 0..7 /\ (e - 1 \in b) # (7 \in b /\ e \in {4, 3, 1, 0})
          /\ e \in Times_x(a ^^ b) <=>
                e \in 0..7 /\ (e - 1 \in a ^^ b) # (7 \in a ^^ b /\ e \in {4, 3, 1, 0})
      BY <1>1, <2>1
    <3> QED
      BY <3>1 DEF ^^
  <2> QED
    BY <2>2
<1> QED
  BY <1>2, <1>3

\* What the rounds of gfMul make of a function: its fixed point has their rows.
ShiftedRow(a, r) == [i \in 0..7 |-> IF i = 0 THEN a ELSE Times_x(r[i - 1])]
Rows(a) == CHOOSE r : r = ShiftedRow(a, r)

\* The rows are a, shifted as often as their number says.
LEMMA RowsAre ==
    ASSUME NEW a
    PROVE  /\ Rows(a)[0] = a
           /\ \A i \in 0..6 : Rows(a)[i + 1] = Times_x(Rows(a)[i])
<1> DEFINE x1 == Times_x(a)
           x2 == Times_x(x1)
           x3 == Times_x(x2)
           x4 == Times_x(x3)
           x5 == Times_x(x4)
           x6 == Times_x(x5)
           x7 == Times_x(x6)
           r == [i \in 0..7 |-> CASE i = 0 -> a [] i = 1 -> x1 [] i = 2 -> x2 [] i = 3 -> x3
                                 [] i = 4 -> x4 [] i = 5 -> x5 [] i = 6 -> x6 [] i = 7 -> x7]
<1>1. \A i \in 0..7 : r[i] = IF i = 0 THEN a ELSE Times_x(r[i - 1])
  <2>1. /\ r[0] = a /\ r[1] = x1 /\ r[2] = x2 /\ r[3] = x3
        /\ r[4] = x4 /\ r[5] = x5 /\ r[6] = x6 /\ r[7] = x7
    <3> HIDE DEF x1, x2, x3, x4, x5, x6, x7
    <3> QED
      OBVIOUS
  <2> HIDE DEF r
  <2>2. \A i \in 0..7 : i = 0 \/ i = 1 \/ i = 2 \/ i = 3 \/ i = 4 \/ i = 5 \/ i = 6 \/ i = 7
    OBVIOUS
  <2>3. /\ r[1] = Times_x(r[0]) /\ r[2] = Times_x(r[1]) /\ r[3] = Times_x(r[2])
        /\ r[4] = Times_x(r[3]) /\ r[5] = Times_x(r[4]) /\ r[6] = Times_x(r[5])
        /\ r[7] = Times_x(r[6])
    BY <2>1, Zenon
  <2> HIDE DEF x1, x2, x3, x4, x5, x6, x7
  <2> QED
    BY <2>1, <2>2, <2>3
<1>2. r = ShiftedRow(a, r)
  <2>1. r = [i \in 0..7 |-> r[i]]
    OBVIOUS
  <2> HIDE DEF r
  <2> QED
    BY <1>1, <2>1 DEF ShiftedRow
<1> HIDE DEF r
<1>3. \E q : q = ShiftedRow(a, q)
  BY <1>2
<1>4. Rows(a) = ShiftedRow(a, Rows(a))
  BY <1>3, Zenon DEF Rows
<1> DEFINE q == Rows(a)
<1>5. q = ShiftedRow(a, q)
  BY <1>4
<1> HIDE DEF q
<1>6. q[0] = a /\ \A i \in 0..6 : q[i + 1] = Times_x(q[i])
  BY <1>5 DEF ShiftedRow
<1> QED
  BY <1>6 DEF q

\* A product adds the rows whose bits are set.
LEMMA MulIs ==
    ASSUME NEW a, NEW b
    PROVE  gfMul(a, b) = {e \in 0..7 : Odd({i \in b : e \in Rows(a)[i]})}
BY Zenon DEF gfMul, Rows, ShiftedRow

\* The rows of a byte are bytes, of a sum of bytes their sums, and of x times a
\* byte x times its rows.
LEMMA RowsAdditive ==
    /\ \A a \in Byte : \A i \in 0..7 : Rows(a)[i] \in Byte
    /\ \A a, b \in Byte : \A i \in 0..7 : Rows(a ^^ b)[i] = Rows(a)[i] ^^ Rows(b)[i]
    /\ \A a \in Byte : \A i \in 0..7 : Rows(Times_x(a))[i] = Times_x(Rows(a)[i])
<1> DEFINE Good(a, b, i) ==
              /\ Rows(a)[i] \in Byte /\ Rows(b)[i] \in Byte
              /\ Rows(a ^^ b)[i] = Rows(a)[i] ^^ Rows(b)[i]
              /\ Rows(Times_x(a))[i] = Times_x(Rows(a)[i])
<1>1. ASSUME NEW a \in Byte, NEW b \in Byte
      PROVE  Good(a, b, 0)
  BY RowsAre
<1>2. ASSUME NEW a \in Byte, NEW b \in Byte, NEW i \in 0..6, Good(a, b, i)
      PROVE  Good(a, b, i + 1)
  <2>1. /\ Rows(a)[i + 1] = Times_x(Rows(a)[i])
        /\ Rows(b)[i + 1] = Times_x(Rows(b)[i])
        /\ Rows(a ^^ b)[i + 1] = Times_x(Rows(a ^^ b)[i])
        /\ Rows(Times_x(a))[i + 1] = Times_x(Rows(Times_x(a))[i])
    BY RowsAre
  <2> QED
    BY <1>2, <2>1, TimesAdditive
<1> HIDE DEF Good
<1>3. ASSUME NEW a \in Byte, NEW b \in Byte
      PROVE  \A i \in 0..7 : Good(a, b, i)
  <2>1. Good(a, b, 0) /\ 0 \in 0..6
    BY <1>1
  <2>2. Good(a, b, 1)
    BY <1>2, <2>1
  <2>3. Good(a, b, 2)
    BY <1>2, <2>2
  <2>4. Good(a, b, 3)
    BY <1>2, <2>3
  <2>5. Good(a, b, 4)
    BY <1>2, <2>4
  <2>6. Good(a, b, 5)
    BY <1>2, <2>5
  <2>7. Good(a, b, 6)
    BY <1>2, <2>6
  <2>8. Good(a, b, 7)
    BY <1>2, <2>7
  <2>9. \A i \in 0..7 : i = 0 \/ i = 1 \/ i = 2 \/ i = 3 \/ i = 4 \/ i = 5 \/ i = 6 \/ i = 7
    OBVIOUS
  <2> QED
    BY <2>1, <2>2, <2>3, <2>4, <2>5, <2>6, <2>7, <2>8, <2>9
<1> QED
  BY <1>3 DEF Good

\* Products are additive in both factors.
LEMMA MulAdditive ==
    /\ \A a, b : gfMul(a, b) \in Byte
    /\ \A a, b, c \in Byte : gfMul(a, b ^^ c) = gfMul(a, b) ^^ gfMul(a, c)
    /\ \A a, b, c \in Byte : gfMul(a ^^ b, c) = gfMul(a, c) ^^ gfMul(b, c)
<1> DEFINE Bits(a, b, e) == {i \in b : e \in Rows(a)[i]}
<1>1. \A a, e : \A b \in Byte : IsFiniteSet(Bits(a, b, e))
  <2>1. IsFiniteSet(0..7)
    <3>1. 0 \in Int /\ 7 \in Int
      OBVIOUS
    <3> QED
      BY <3>1, FS_Interval
  <2> SUFFICES ASSUME NEW a, NEW e, NEW b \in Byte PROVE IsFiniteSet(Bits(a, b, e))
    OBVIOUS
  <2>2. Bits(a, b, e) \in SUBSET (0..7)
    BY DEF Byte
  <2> QED
    BY <2>1, <2>2, FS_Subset
<1>2. ASSUME NEW p, NEW q, NEW u, NEW v, NEW s, NEW t,
             \A e \in 0..7 : Odd(Bits(p, q, e)) <=> (Odd(Bits(u, v, e)) # Odd(Bits(s, t, e)))
      PROVE  gfMul(p, q) = gfMul(u, v) ^^ gfMul(s, t)
  <2>1. \A e : e \in gfMul(p, q) <=> e \in 0..7 /\ Odd(Bits(p, q, e))
    BY MulIs
  <2>2. \A e : e \in gfMul(u, v) <=> e \in 0..7 /\ Odd(Bits(u, v, e))
    BY MulIs
  <2>3. \A e : e \in gfMul(s, t) <=> e \in 0..7 /\ Odd(Bits(s, t, e))
    BY MulIs
  <2>4. \A x, y, e : (Odd(Bits(x, y, e))) \in BOOLEAN
    BY DEF Odd
  <2> HIDE DEF Bits
  <2>5. \A e : e \in gfMul(p, q) <=> ((e \in gfMul(u, v)) # (e \in gfMul(s, t)))
    BY <1>2, <2>1, <2>2, <2>3, <2>4
  <2> QED
    BY <2>5 DEF ^^
<1>3. ASSUME NEW a \in Byte, NEW b \in Byte, NEW c \in Byte
      PROVE  gfMul(a, b ^^ c) = gfMul(a, b) ^^ gfMul(a, c)
  <2>1. ASSUME NEW e \in 0..7
        PROVE  Odd(Bits(a, b ^^ c, e)) <=> (Odd(Bits(a, b, e)) # Odd(Bits(a, c, e)))
    <3>1. Bits(a, b ^^ c, e) = Bits(a, b, e) ^^ Bits(a, c, e)
      BY DEF ^^
    <3> HIDE DEF Bits
    <3> QED
      BY <1>1, <3>1, OddSum
  <2> HIDE DEF Bits
  <2> QED
    BY <1>2, <2>1
<1>4. ASSUME NEW a \in Byte, NEW b \in Byte, NEW c \in Byte
      PROVE  gfMul(a ^^ b, c) = gfMul(a, c) ^^ gfMul(b, c)
  <2>1. ASSUME NEW e \in 0..7
        PROVE  Odd(Bits(a ^^ b, c, e)) <=> (Odd(Bits(a, c, e)) # Odd(Bits(b, c, e)))
    <3>1. \A i \in c : Rows(a ^^ b)[i] = Rows(a)[i] ^^ Rows(b)[i]
      BY RowsAdditive DEF Byte
    <3>2. \A i : i \in Bits(a ^^ b, c, e) <=> i \in Bits(a, c, e) ^^ Bits(b, c, e)
      BY <3>1 DEF ^^
    <3> HIDE DEF Bits
    <3>3. Bits(a ^^ b, c, e) = Bits(a, c, e) ^^ Bits(b, c, e)
      <4>1. \A S, T : S ^^ T = {i \in S \cup T : i \in S ^^ T}
        BY DEF ^^
      <4> QED
        BY <3>2
    <3> QED
      BY <1>1, <3>3, OddSum
  <2> HIDE DEF Bits
  <2> QED
    BY <1>2, <2>1
<1>5. \A a, b : gfMul(a, b) \in Byte
  BY MulIs DEF Byte
<1> QED
  BY <1>3, <1>4, <1>5

\* By a byte of one bit, gfMul takes one row.
LEMMA MulBit ==
    \A a \in Byte : \A i \in 0..7 : gfMul(a, {i}) = Rows(a)[i]
<1> SUFFICES ASSUME NEW a \in Byte, NEW i \in 0..7 PROVE gfMul(a, {i}) = Rows(a)[i]
  OBVIOUS
<1>1. Rows(a)[i] \in Byte
  BY RowsAdditive
<1>2. Odd({i}) /\ ~Odd({})
  <2>1. Cardinality({i}) = 1 /\ Cardinality({}) = 0
    BY FS_Singleton, FS_EmptySet
  <2> QED
    BY <2>1 DEF Odd
<1>3. \A e : e \in gfMul(a, {i}) <=> e \in 0..7 /\ e \in Rows(a)[i]
  <2> TAKE e
  <2>1. e \in gfMul(a, {i}) <=> e \in 0..7 /\ Odd({j \in {i} : e \in Rows(a)[j]})
    BY MulIs
  <2>2. CASE e \in Rows(a)[i]
    <3>1. {j \in {i} : e \in Rows(a)[j]} = {i}
      BY <2>2
    <3> QED
      BY <1>2, <2>1, <2>2, <3>1
  <2>3. CASE e \notin Rows(a)[i]
    <3>1. {j \in {i} : e \in Rows(a)[j]} = {}
      BY <2>3
    <3> QED
      BY <1>2, <2>1, <2>3, <3>1
  <2> QED
    BY <2>2, <2>3
<1> QED
  BY <1>1, <1>3, MulAdditive DEF Byte

\* Multiplying a product by x multiplies a factor by x.
LEMMA MulTimes == \A a, b \in Byte : Times_x(gfMul(a, b)) = gfMul(Times_x(a), b)
<1> SUFFICES ASSUME NEW a \in Byte PROVE \A b \in Byte : Times_x(gfMul(a, b)) = gfMul(Times_x(a), b)
  OBVIOUS
<1> DEFINE f == [b \in Byte |-> Times_x(gfMul(a, b))]
           g == [b \in Byte |-> gfMul(Times_x(a), b)]
<1>1. Times_x(a) \in Byte
  BY TimesAdditive
<1>2. Additive(f) /\ Additive(g)
  <2>1. f \in [Byte -> Byte] /\ g \in [Byte -> Byte]
    BY TimesAdditive, MulAdditive
  <2>2. ASSUME NEW b \in Byte, NEW c \in Byte
        PROVE  f[b ^^ c] = f[b] ^^ f[c] /\ g[b ^^ c] = g[b] ^^ g[c]
    <3>1. b ^^ c \in Byte /\ gfMul(a, b) \in Byte /\ gfMul(a, c) \in Byte
      BY SumLaws, MulAdditive
    <3>2. gfMul(a, b ^^ c) = gfMul(a, b) ^^ gfMul(a, c)
      BY MulAdditive
    <3>3. gfMul(Times_x(a), b ^^ c) = gfMul(Times_x(a), b) ^^ gfMul(Times_x(a), c)
      BY <1>1, MulAdditive
    <3> QED
      BY <3>1, <3>2, <3>3, TimesAdditive
  <2> HIDE DEF f, g
  <2> QED
    BY <2>1, <2>2 DEF Additive
<1>3. \A i \in 0..7 : f[{i}] = g[{i}]
  <2> TAKE i \in 0..7
  <2>1. {i} \in Byte
    BY DEF Byte
  <2>2. gfMul(a, {i}) = Rows(a)[i] /\ gfMul(Times_x(a), {i}) = Rows(Times_x(a))[i]
    BY <1>1, MulBit
  <2>3. Rows(Times_x(a))[i] = Times_x(Rows(a)[i])
    BY RowsAdditive
  <2> QED
    BY <2>1, <2>2, <2>3
<1>4. \A b \in Byte : f[b] = g[b]
  <2> HIDE DEF f, g
  <2> QED
    BY <1>2, <1>3, AdditiveEqual
<1> QED
  BY <1>4

\* The rows of One are the bytes of one bit.
LEMMA RowsOfOne == One \in Byte /\ \A i \in 0..7 : Rows(One)[i] = {i}
<1>1. \A i \in 0..6 : Times_x({i}) = {i + 1}
  <2> TAKE i \in 0..6
  <2>1. {d + 1 : d \in {i} \ {7}} = {i + 1} /\ 7 \notin {i}
    OBVIOUS
  <2> QED
    BY <2>1, SumLaws DEF Times_x
<1>2. Rows(One)[0] = {0}
  BY RowsAre DEF One
<1>3. ASSUME NEW i \in 0..6, Rows(One)[i] = {i}
      PROVE  Rows(One)[i + 1] = {i + 1}
  <2>1. Rows(One)[i + 1] = Times_x(Rows(One)[i])
    BY RowsAre
  <2>2. Times_x({i}) = {i + 1}
    BY <1>1
  <2> QED
    BY <1>3, <2>1, <2>2
<1>4. /\ Rows(One)[1] = {1} /\ Rows(One)[2] = {2} /\ Rows(One)[3] = {3} /\ Rows(One)[4] = {4}
      /\ Rows(One)[5] = {5} /\ Rows(One)[6] = {6} /\ Rows(One)[7] = {7}
  <2>1. Rows(One)[1] = {1}
    BY <1>2, <1>3
  <2>2. Rows(One)[2] = {2}
    BY <2>1, <1>3
  <2>3. Rows(One)[3] = {3}
    BY <2>2, <1>3
  <2>4. Rows(One)[4] = {4}
    BY <2>3, <1>3
  <2>5. Rows(One)[5] = {5}
    BY <2>4, <1>3
  <2>6. Rows(One)[6] = {6}
    BY <2>5, <1>3
  <2>7. Rows(One)[7] = {7}
    BY <2>6, <1>3
  <2> QED
    BY <2>1, <2>2, <2>3, <2>4, <2>5, <2>6, <2>7
<1>5. One \in Byte
  BY DEF One, Byte
<1>6. \A i \in 0..7 : i = 0 \/ i = 1 \/ i = 2 \/ i = 3 \/ i = 4 \/ i = 5 \/ i = 6 \/ i = 7
  OBVIOUS
<1> QED
  BY <1>2, <1>4, <1>5, <1>6

\* One is neutral.
LEMMA MulOne == \A b \in Byte : gfMul(One, b) = b
<1> DEFINE f == [b \in Byte |-> gfMul(One, b)]
           g == [b \in Byte |-> b]
<1>1. Additive(f) /\ Additive(g)
  <2>1. f \in [Byte -> Byte] /\ g \in [Byte -> Byte]
    BY MulAdditive
  <2>2. ASSUME NEW b \in Byte, NEW c \in Byte
        PROVE  f[b ^^ c] = f[b] ^^ f[c] /\ g[b ^^ c] = g[b] ^^ g[c]
    BY SumLaws, MulAdditive, RowsOfOne
  <2> HIDE DEF f, g
  <2> QED
    BY <2>1, <2>2 DEF Additive
<1>2. \A i \in 0..7 : f[{i}] = g[{i}]
  <2> TAKE i \in 0..7
  <2>1. {i} \in Byte
    BY DEF Byte
  <2> QED
    BY <2>1, MulBit, RowsOfOne
<1>3. \A b \in Byte : f[b] = g[b]
  <2> HIDE DEF f, g
  <2> QED
    BY <1>1, <1>2, AdditiveEqual
<1> QED
  BY <1>3

\* The factors may change places.
LEMMA MulCommutes == \A a, b \in Byte : gfMul(a, b) = gfMul(b, a)
<1> SUFFICES ASSUME NEW a \in Byte PROVE \A b \in Byte : gfMul(a, b) = gfMul(b, a)
  OBVIOUS
<1> DEFINE f == [b \in Byte |-> gfMul(a, b)]
           g == [b \in Byte |-> gfMul(b, a)]
<1>1. Additive(f) /\ Additive(g)
  <2>1. f \in [Byte -> Byte] /\ g \in [Byte -> Byte]
    BY MulAdditive
  <2>2. ASSUME NEW b \in Byte, NEW c \in Byte
        PROVE  f[b ^^ c] = f[b] ^^ f[c] /\ g[b ^^ c] = g[b] ^^ g[c]
    BY SumLaws, MulAdditive
  <2> HIDE DEF f, g
  <2> QED
    BY <2>1, <2>2 DEF Additive
<1>2. \A i \in 0..7 : gfMul({i}, a) = Rows(a)[i]
  <2>1. gfMul({0}, a) = Rows(a)[0]
    BY MulOne, RowsAre DEF One
  <2>2. ASSUME NEW i \in 0..6, gfMul({i}, a) = Rows(a)[i]
        PROVE  gfMul({i + 1}, a) = Rows(a)[i + 1]
    <3>1. {i} \in Byte /\ {i} = Rows(One)[i] /\ {i + 1} = Rows(One)[i + 1]
      BY RowsOfOne DEF Byte
    <3>2. {i + 1} = Times_x({i})
      BY <3>1, RowsAre
    <3>3. gfMul({i + 1}, a) = Times_x(gfMul({i}, a))
      BY <3>1, <3>2, MulTimes
    <3> QED
      BY <2>2, <3>3, RowsAre
  <2>3. gfMul({1}, a) = Rows(a)[1]
    BY <2>1, <2>2
  <2>4. gfMul({2}, a) = Rows(a)[2]
    BY <2>3, <2>2
  <2>5. gfMul({3}, a) = Rows(a)[3]
    BY <2>4, <2>2
  <2>6. gfMul({4}, a) = Rows(a)[4]
    BY <2>5, <2>2
  <2>7. gfMul({5}, a) = Rows(a)[5]
    BY <2>6, <2>2
  <2>8. gfMul({6}, a) = Rows(a)[6]
    BY <2>7, <2>2
  <2>9. gfMul({7}, a) = Rows(a)[7]
    BY <2>8, <2>2
  <2>10. \A i \in 0..7 : i = 0 \/ i = 1 \/ i = 2 \/ i = 3 \/ i = 4 \/ i = 5 \/ i = 6 \/ i = 7
    OBVIOUS
  <2> QED
    BY <2>1, <2>3, <2>4, <2>5, <2>6, <2>7, <2>8, <2>9, <2>10
<1>3. \A i \in 0..7 : f[{i}] = g[{i}]
  <2> TAKE i \in 0..7
  <2>1. {i} \in Byte
    BY DEF Byte
  <2> QED
    BY <1>2, <2>1, MulBit
<1>4. \A b \in Byte : f[b] = g[b]
  <2> HIDE DEF f, g
  <2> QED
    BY <1>1, <1>3, AdditiveEqual
<1> QED
  BY <1>4

\* Products may be put together in any order.
LEMMA MulAssociates ==
    \A a, b, c \in Byte : gfMul(gfMul(a, b), c) = gfMul(a, gfMul(b, c))
<1> SUFFICES ASSUME NEW a \in Byte, NEW b \in Byte
             PROVE  \A c \in Byte : gfMul(gfMul(a, b), c) = gfMul(a, gfMul(b, c))
  OBVIOUS
<1> DEFINE f == [c \in Byte |-> gfMul(gfMul(a, b), c)]
           g == [c \in Byte |-> gfMul(a, gfMul(b, c))]
<1>1. Additive(f) /\ Additive(g)
  <2>1. f \in [Byte -> Byte] /\ g \in [Byte -> Byte]
    BY MulAdditive
  <2>2. ASSUME NEW c \in Byte, NEW d \in Byte
        PROVE  f[c ^^ d] = f[c] ^^ f[d] /\ g[c ^^ d] = g[c] ^^ g[d]
    <3>1. /\ c ^^ d \in Byte /\ gfMul(a, b) \in Byte
          /\ gfMul(b, c) \in Byte /\ gfMul(b, d) \in Byte
      BY SumLaws, MulAdditive
    <3>2. gfMul(gfMul(a, b), c ^^ d) = gfMul(gfMul(a, b), c) ^^ gfMul(gfMul(a, b), d)
      BY <3>1, MulAdditive
    <3>3. gfMul(b, c ^^ d) = gfMul(b, c) ^^ gfMul(b, d)
      BY MulAdditive
    <3>4. gfMul(a, gfMul(b, c) ^^ gfMul(b, d)) = gfMul(a, gfMul(b, c)) ^^ gfMul(a, gfMul(b, d))
      BY <3>1, MulAdditive
    <3> QED
      BY <3>1, <3>2, <3>3, <3>4
  <2> HIDE DEF f, g
  <2> QED
    BY <2>1, <2>2 DEF Additive
<1>2. \A p, q \in Byte : Times_x(gfMul(p, q)) = gfMul(p, Times_x(q))
  <2> TAKE p, q \in Byte
  <2>1. Times_x(q) \in Byte
    BY TimesAdditive
  <2> QED
    BY <2>1, MulCommutes, MulTimes
<1>3. \A i \in 0..7 : Rows(gfMul(a, b))[i] = gfMul(a, Rows(b)[i])
  <2> DEFINE Same(i) == Rows(gfMul(a, b))[i] = gfMul(a, Rows(b)[i])
  <2>1. Same(0)
    BY RowsAre
  <2>2. ASSUME NEW i \in 0..6, Same(i) PROVE Same(i + 1)
    <3>1. Rows(b)[i] \in Byte
      BY RowsAdditive
    <3>2. /\ Rows(gfMul(a, b))[i + 1] = Times_x(Rows(gfMul(a, b))[i])
          /\ Rows(b)[i + 1] = Times_x(Rows(b)[i])
      BY RowsAre
    <3> QED
      BY <1>2, <2>2, <3>1, <3>2
  <2> HIDE DEF Same
  <2>3. Same(1)
    BY <2>1, <2>2
  <2>4. Same(2)
    BY <2>3, <2>2
  <2>5. Same(3)
    BY <2>4, <2>2
  <2>6. Same(4)
    BY <2>5, <2>2
  <2>7. Same(5)
    BY <2>6, <2>2
  <2>8. Same(6)
    BY <2>7, <2>2
  <2>9. Same(7)
    BY <2>8, <2>2
  <2>10. \A i \in 0..7 : i = 0 \/ i = 1 \/ i = 2 \/ i = 3 \/ i = 4 \/ i = 5 \/ i = 6 \/ i = 7
    OBVIOUS
  <2>11. \A i \in 0..7 : Same(i)
    BY <2>1, <2>3, <2>4, <2>5, <2>6, <2>7, <2>8, <2>9, <2>10
  <2> QED
    BY <2>11 DEF Same
<1>4. \A i \in 0..7 : f[{i}] = g[{i}]
  <2> TAKE i \in 0..7
  <2>1. {i} \in Byte /\ gfMul(a, b) \in Byte
    BY MulAdditive DEF Byte
  <2>2. gfMul(gfMul(a, b), {i}) = Rows(gfMul(a, b))[i] /\ gfMul(b, {i}) = Rows(b)[i]
    BY <2>1, MulBit
  <2> QED
    BY <1>3, <2>1, <2>2
<1>5. \A c \in Byte : f[c] = g[c]
  <2> HIDE DEF f, g
  <2> QED
    BY <1>1, <1>4, AdditiveEqual
<1> QED
  BY <1>5

-----------------------------------------------------------------------------
(* The field, bit by bit: it has no divisors of zero, and squaring eight     *)
(* times changes nothing.                                                    *)

Parity(p0, p1, p2, p3, p4, p5, p6, p7) == p0 # (p1 # (p2 # (p3 # (p4 # (p5 # (p6 # p7))))))

\* Whether a set of bits is odd depends on each of them.
LEMMA OddBits ==
    ASSUME NEW S \in SUBSET (0..7)
    PROVE  Odd(S) <=> Parity(0 \in S, 1 \in S, 2 \in S, 3 \in S, 4 \in S, 5 \in S, 6 \in S, 7 \in S)
<1> DEFINE D(i) == IF i \in S THEN {i} ELSE {}
           s6 == D(6) ^^ D(7)
           s5 == D(5) ^^ s6
           s4 == D(4) ^^ s5
           s3 == D(3) ^^ s4
           s2 == D(2) ^^ s3
           s1 == D(1) ^^ s2
           s0 == D(0) ^^ s1
<1>1. \A i \in 0..7 : IsFiniteSet(D(i)) /\ (Odd(D(i)) <=> i \in S)
  <2>1. \A i : IsFiniteSet({i}) /\ Cardinality({i}) = 1
    BY FS_Singleton
  <2>2. IsFiniteSet({}) /\ Cardinality({}) = 0
    BY FS_EmptySet
  <2>3. ~Odd({}) /\ \A i : Odd({i})
    <3>1. \A n : n = 1 => n % 2 = 1
      OBVIOUS
    <3>2. \A n : n = 0 => ~(n % 2 = 1)
      OBVIOUS
    <3>3. \A i : Odd({i})
      BY <2>1, <3>1 DEF Odd
    <3>4. ~Odd({})
      BY <2>2, <3>2 DEF Odd
    <3> QED
      BY <3>3, <3>4
  <2> TAKE i \in 0..7
  <2> QED
    BY <2>1, <2>2, <2>3
<1>2. \A A, B : IsFiniteSet(A) /\ IsFiniteSet(B) => IsFiniteSet(A ^^ B)
  BY FS_Union, FS_Difference DEF ^^
<1>3. \A A, B : IsFiniteSet(A) /\ IsFiniteSet(B) => (Odd(A ^^ B) <=> (Odd(A) # Odd(B)))
  BY OddSum
<1>4. S = s0
  <2>1. \A e : e \in s0 <=> e \in S
    <3> TAKE e
    <3>1. \A i : e \in D(i) <=> e = i /\ i \in S
      OBVIOUS
    <3> HIDE DEF D
    <3>2. e \in s0 <=> Parity(e \in D(0), e \in D(1), e \in D(2), e \in D(3),
                                e \in D(4), e \in D(5), e \in D(6), e \in D(7))
      BY DEF ^^, Parity
    <3>3. e \in S => \/ e = 0 \/ e = 1 \/ e = 2 \/ e = 3 \/ e = 4 \/ e = 5 \/ e = 6 \/ e = 7
      OBVIOUS
    <3> QED
      BY <3>1, <3>2, <3>3 DEF Parity
  <2> HIDE DEF s0
  <2> QED
    BY <2>1
<1>5. \A A : Odd(A) \in BOOLEAN
  BY DEF Odd
<1> HIDE DEF D
<1>6. IsFiniteSet(s6) /\ (Odd(s6) <=> ((6 \in S) # (7 \in S)))
  BY <1>1, <1>2, <1>3, <1>5
<1> HIDE DEF s6
<1>7. IsFiniteSet(s5) /\ (Odd(s5) <=> ((5 \in S) # Odd(s6)))
  BY <1>1, <1>2, <1>3, <1>5, <1>6
<1> HIDE DEF s5
<1>8. IsFiniteSet(s4) /\ (Odd(s4) <=> ((4 \in S) # Odd(s5)))
  BY <1>1, <1>2, <1>3, <1>5, <1>7
<1> HIDE DEF s4
<1>9. IsFiniteSet(s3) /\ (Odd(s3) <=> ((3 \in S) # Odd(s4)))
  BY <1>1, <1>2, <1>3, <1>5, <1>8
<1> HIDE DEF s3
<1>10. IsFiniteSet(s2) /\ (Odd(s2) <=> ((2 \in S) # Odd(s3)))
  BY <1>1, <1>2, <1>3, <1>5, <1>9
<1> HIDE DEF s2
<1>11. IsFiniteSet(s1) /\ (Odd(s1) <=> ((1 \in S) # Odd(s2)))
  BY <1>1, <1>2, <1>3, <1>5, <1>10
<1> HIDE DEF s1
<1>12. Odd(s0) <=> ((0 \in S) # Odd(s1))
  BY <1>1, <1>3, <1>5, <1>11
<1> HIDE DEF s0
<1> QED
  BY <1>4, <1>5, <1>6, <1>7, <1>8, <1>9, <1>10, <1>11, <1>12 DEF Parity

\* One bit of a product.
LEMMA MulBits ==
    ASSUME NEW a, NEW b \in Byte, NEW e \in 0..7
    PROVE  e \in gfMul(a, b) <=>
              Parity(0 \in b /\ e \in Rows(a)[0], 1 \in b /\ e \in Rows(a)[1],
                     2 \in b /\ e \in Rows(a)[2], 3 \in b /\ e \in Rows(a)[3],
                     4 \in b /\ e \in Rows(a)[4], 5 \in b /\ e \in Rows(a)[5],
                     6 \in b /\ e \in Rows(a)[6], 7 \in b /\ e \in Rows(a)[7])
<1> DEFINE S == {i \in b : e \in Rows(a)[i]}
<1>1. e \in gfMul(a, b) <=> Odd(S)
  BY MulIs
<1>2. S \in SUBSET (0..7)
  BY DEF Byte
<1>3. \A i : i \in S <=> i \in b /\ e \in Rows(a)[i]
  OBVIOUS
<1> HIDE DEF S
<1>4. Odd(S) <=> Parity(0 \in S, 1 \in S, 2 \in S, 3 \in S, 4 \in S, 5 \in S, 6 \in S, 7 \in S)
  BY <1>2, OddBits
<1> QED
  BY <1>1, <1>3, <1>4 DEF Parity

\* The bits of r are those of x times a.
Shifts(a, r) ==
    /\ 0 \in r <=> 7 \in a
    /\ 1 \in r <=> ((0 \in a) # (7 \in a))
    /\ 2 \in r <=> 1 \in a
    /\ 3 \in r <=> ((2 \in a) # (7 \in a))
    /\ 4 \in r <=> ((3 \in a) # (7 \in a))
    /\ 5 \in r <=> 4 \in a
    /\ 6 \in r <=> 5 \in a
    /\ 7 \in r <=> 6 \in a

\* Shifting a byte, bit by bit.
LEMMA TimesBits == \A a \in Byte : Shifts(a, Times_x(a))
<1> SUFFICES ASSUME NEW a \in Byte PROVE Shifts(a, Times_x(a))
  OBVIOUS
<1> DEFINE low == {d + 1 : d \in a \ {7}}
           out == IF 7 \in a THEN {4, 3, 1, 0} ELSE {}
<1>1. gfPoly \ {8} = {4, 3, 1, 0}
  BY DEF gfPoly
<1>2. Times_x(a) = (low \ out) \cup (out \ low)
  BY <1>1 DEF Times_x, ^^
<1>3. \A e \in 0..7 : e \in low <=> e # 0 /\ e - 1 \in a
  BY DEF Byte
<1> HIDE DEF low
<1>4. /\ 0 \notin low /\ (1 \in low <=> 0 \in a) /\ (2 \in low <=> 1 \in a)
      /\ (3 \in low <=> 2 \in a) /\ (4 \in low <=> 3 \in a) /\ (5 \in low <=> 4 \in a)
      /\ (6 \in low <=> 5 \in a) /\ (7 \in low <=> 6 \in a)
  BY <1>3
<1> QED
  BY <1>2, <1>4 DEF Shifts

\* The bits of all rows.
LEMMA RowBits ==
    ASSUME NEW a \in Byte
    PROVE  /\ Rows(a)[0] = a
           /\ Shifts(Rows(a)[0], Rows(a)[1]) /\ Shifts(Rows(a)[1], Rows(a)[2])
           /\ Shifts(Rows(a)[2], Rows(a)[3]) /\ Shifts(Rows(a)[3], Rows(a)[4])
           /\ Shifts(Rows(a)[4], Rows(a)[5]) /\ Shifts(Rows(a)[5], Rows(a)[6])
           /\ Shifts(Rows(a)[6], Rows(a)[7])
<1>1. Rows(a)[0] = a /\ \A i \in 0..6 : Rows(a)[i + 1] = Times_x(Rows(a)[i])
  BY RowsAre
<1>2. \A i \in 0..6 : Rows(a)[i] \in Byte
  BY RowsAdditive
<1>3. \A i \in 0..6 : Shifts(Rows(a)[i], Rows(a)[i + 1])
  BY <1>1, <1>2, TimesBits
<1>4. /\ 0 + 1 = 1 /\ 1 + 1 = 2 /\ 2 + 1 = 3 /\ 3 + 1 = 4 /\ 4 + 1 = 5 /\ 5 + 1 = 6 /\ 6 + 1 = 7
      /\ 0 \in 0..6 /\ 1 \in 0..6 /\ 2 \in 0..6 /\ 3 \in 0..6 /\ 4 \in 0..6 /\ 5 \in 0..6
      /\ 6 \in 0..6
  OBVIOUS
<1> HIDE DEF Shifts
<1> QED
  BY <1>1, <1>3, <1>4

NoBits(a) == /\ 0 \notin a /\ 1 \notin a /\ 2 \notin a /\ 3 \notin a
             /\ 4 \notin a /\ 5 \notin a /\ 6 \notin a /\ 7 \notin a

\* x^8 + x^4 + x^3 + x + 1 is irreducible: no product of two bytes is zero unless
\* one of them is.
LEMMA NoDivisorsOfZero ==
    ASSUME NEW a \in Byte, NEW b \in Byte, gfMul(a, b) = {}
    PROVE  a = {} \/ b = {}
<1> DEFINE Bit(e) ==
              Parity(0 \in b /\ e \in Rows(a)[0], 1 \in b /\ e \in Rows(a)[1],
                     2 \in b /\ e \in Rows(a)[2], 3 \in b /\ e \in Rows(a)[3],
                     4 \in b /\ e \in Rows(a)[4], 5 \in b /\ e \in Rows(a)[5],
                     6 \in b /\ e \in Rows(a)[6], 7 \in b /\ e \in Rows(a)[7])
<1>1. ~Bit(0) /\ ~Bit(1) /\ ~Bit(2) /\ ~Bit(3) /\ ~Bit(4) /\ ~Bit(5) /\ ~Bit(6) /\ ~Bit(7)
  <2>1. \A e \in 0..7 : ~Bit(e)
    BY MulBits
  <2> HIDE DEF Bit
  <2> QED
    BY <2>1
<1> DEFINE r1 == Rows(a)[1]
           r2 == Rows(a)[2]
           r3 == Rows(a)[3]
           r4 == Rows(a)[4]
           r5 == Rows(a)[5]
           r6 == Rows(a)[6]
           r7 == Rows(a)[7]
<1>2. /\ Rows(a)[0] = a
      /\ Shifts(a, r1) /\ Shifts(r1, r2) /\ Shifts(r2, r3) /\ Shifts(r3, r4)
      /\ Shifts(r4, r5) /\ Shifts(r5, r6) /\ Shifts(r6, r7)
  BY RowBits
<1>3. NoBits(a) \/ NoBits(b)
  BY <1>1, <1>2, SMTT(60) DEF Shifts, Parity, NoBits
<1>4. \A c \in Byte : NoBits(c) => c = {}
  BY DEF Byte, NoBits
<1> QED
  BY <1>3, <1>4

\* The bits of r are those of the square of a.
Squares(a, r) ==
    /\ 0 \in r <=> ((0 \in a) # ((4 \in a) # (6 \in a)))
    /\ 1 \in r <=> ((4 \in a) # ((6 \in a) # (7 \in a)))
    /\ 2 \in r <=> ((1 \in a) # (5 \in a))
    /\ 3 \in r <=> ((4 \in a) # ((5 \in a) # ((6 \in a) # (7 \in a))))
    /\ 4 \in r <=> ((2 \in a) # ((4 \in a) # (7 \in a)))
    /\ 5 \in r <=> ((5 \in a) # (6 \in a))
    /\ 6 \in r <=> ((3 \in a) # (5 \in a))
    /\ 7 \in r <=> ((6 \in a) # (7 \in a))

\* A square, bit by bit: the bits of a byte move to the even powers, reduced.
LEMMA SquareBits == \A a \in Byte : Squares(a, gfMul(a, a))
<1> SUFFICES ASSUME NEW a \in Byte PROVE Squares(a, gfMul(a, a))
  OBVIOUS
<1> DEFINE Bit(e) ==
              Parity(0 \in a /\ e \in Rows(a)[0], 1 \in a /\ e \in Rows(a)[1],
                     2 \in a /\ e \in Rows(a)[2], 3 \in a /\ e \in Rows(a)[3],
                     4 \in a /\ e \in Rows(a)[4], 5 \in a /\ e \in Rows(a)[5],
                     6 \in a /\ e \in Rows(a)[6], 7 \in a /\ e \in Rows(a)[7])
           r == gfMul(a, a)
<1>1. /\ 0 \in r <=> Bit(0)
      /\ 1 \in r <=> Bit(1)
      /\ 2 \in r <=> Bit(2)
      /\ 3 \in r <=> Bit(3)
      /\ 4 \in r <=> Bit(4)
      /\ 5 \in r <=> Bit(5)
      /\ 6 \in r <=> Bit(6)
      /\ 7 \in r <=> Bit(7)
  <2>1. \A e \in 0..7 : e \in r <=> Bit(e)
    BY MulBits
  <2> HIDE DEF Bit, r
  <2> QED
    BY <2>1
<1> DEFINE r1 == Rows(a)[1]
           r2 == Rows(a)[2]
           r3 == Rows(a)[3]
           r4 == Rows(a)[4]
           r5 == Rows(a)[5]
           r6 == Rows(a)[6]
           r7 == Rows(a)[7]
<1>2. /\ Rows(a)[0] = a
      /\ Shifts(a, r1) /\ Shifts(r1, r2) /\ Shifts(r2, r3) /\ Shifts(r3, r4)
      /\ Shifts(r4, r5) /\ Shifts(r5, r6) /\ Shifts(r6, r7)
  BY RowBits
<1> HIDE DEF r
<1> QED
  BY <1>1, <1>2, SMTT(60) DEF Shifts, Parity, Squares, r

\* a^256 = a.
Square(a) == gfMul(a, a)
LEMMA SquaredEightTimes ==
    ASSUME NEW a \in Byte
    PROVE  Square(Square(Square(Square(Square(Square(Square(Square(a)))))))) = a
<1> DEFINE p1 == Square(a)
           p2 == Square(p1)
           p3 == Square(p2)
           p4 == Square(p3)
           p5 == Square(p4)
           p6 == Square(p5)
           p7 == Square(p6)
           p8 == Square(p7)
<1>1. \A c \in Byte : Square(c) \in Byte /\ Squares(c, Square(c))
  BY MulAdditive, SquareBits DEF Square
<1>2. Squares(a, p1) /\ p1 \in Byte
  BY <1>1
<1>3. Squares(p1, p2) /\ p2 \in Byte
  BY <1>1, <1>2
<1>4. Squares(p2, p3) /\ p3 \in Byte
  BY <1>1, <1>3
<1>5. Squares(p3, p4) /\ p4 \in Byte
  BY <1>1, <1>4
<1>6. Squares(p4, p5) /\ p5 \in Byte
  BY <1>1, <1>5
<1>7. Squares(p5, p6) /\ p6 \in Byte
  BY <1>1, <1>6
<1>8. Squares(p6, p7) /\ p7 \in Byte
  BY <1>1, <1>7
<1>9. Squares(p7, p8) /\ p8 \in Byte
  BY <1>1, <1>8
<1> HIDE DEF p1, p2, p3, p4, p5, p6, p7, p8
<1>10. /\ 0 \in p8 <=> 0 \in a
       /\ 1 \in p8 <=> 1 \in a
       /\ 2 \in p8 <=> 2 \in a
       /\ 3 \in p8 <=> 3 \in a
       /\ 4 \in p8 <=> 4 \in a
       /\ 5 \in p8 <=> 5 \in a
       /\ 6 \in p8 <=> 6 \in a
       /\ 7 \in p8 <=> 7 \in a
  BY <1>2, <1>3, <1>4, <1>5, <1>6, <1>7, <1>8, <1>9, SMTT(60) DEF Squares
<1>11. p8 = a
  <2>1. \A e \in 0..7 : e = 0 \/ e = 1 \/ e = 2 \/ e = 3 \/ e = 4 \/ e = 5 \/ e = 6 \/ e = 7
    OBVIOUS
  <2>2. \A e \in 0..7 : e \in p8 <=> e \in a
    BY <1>10, <2>1
  <2> QED
    BY <1>9, <2>2 DEF Byte
<1> QED
  BY <1>11 DEF p1, p2, p3, p4, p5, p6, p7, p8

-----------------------------------------------------------------------------
(* gfInv: a^254, and a^255 = 1.                                              *)

\* What the rounds of gfInv make of a function.
PowerRow(a, r) == [i \in 0..6 |-> IF i = 0 THEN a ELSE SquareTimes(r[i - 1], a)]
Powers(a) == CHOOSE r : r = PowerRow(a, r)

\* The powers gfInv goes through.
LEMMA PowersAre ==
    ASSUME NEW a
    PROVE  /\ Powers(a)[0] = a
           /\ \A i \in 0..5 : Powers(a)[i + 1] = SquareTimes(Powers(a)[i], a)
           /\ gfInv(a) = Square(Powers(a)[6])
<1> DEFINE x1 == SquareTimes(a, a)
           x2 == SquareTimes(x1, a)
           x3 == SquareTimes(x2, a)
           x4 == SquareTimes(x3, a)
           x5 == SquareTimes(x4, a)
           x6 == SquareTimes(x5, a)
           r == [i \in 0..6 |-> CASE i = 0 -> a [] i = 1 -> x1 [] i = 2 -> x2 [] i = 3 -> x3
                                 [] i = 4 -> x4 [] i = 5 -> x5 [] i = 6 -> x6]
<1>1. \A i \in 0..6 : r[i] = IF i = 0 THEN a ELSE SquareTimes(r[i - 1], a)
  <2>1. /\ r[0] = a /\ r[1] = x1 /\ r[2] = x2 /\ r[3] = x3
        /\ r[4] = x4 /\ r[5] = x5 /\ r[6] = x6
    <3> HIDE DEF x1, x2, x3, x4, x5, x6
    <3> QED
      OBVIOUS
  <2> HIDE DEF r
  <2>2. \A i \in 0..6 : i = 0 \/ i = 1 \/ i = 2 \/ i = 3 \/ i = 4 \/ i = 5 \/ i = 6
    OBVIOUS
  <2>3. /\ r[1] = SquareTimes(r[0], a) /\ r[2] = SquareTimes(r[1], a)
        /\ r[3] = SquareTimes(r[2], a) /\ r[4] = SquareTimes(r[3], a)
        /\ r[5] = SquareTimes(r[4], a) /\ r[6] = SquareTimes(r[5], a)
    BY <2>1, Zenon
  <2> HIDE DEF x1, x2, x3, x4, x5, x6
  <2> QED
    BY <2>1, <2>2, <2>3
<1>2. r = PowerRow(a, r)
  <2>1. r = [i \in 0..6 |-> r[i]]
    OBVIOUS
  <2> HIDE DEF r
  <2> QED
    BY <1>1, <2>1 DEF PowerRow
<1> HIDE DEF r
<1>3. \E q : q = PowerRow(a, q)
  BY <1>2
<1>4. Powers(a) = PowerRow(a, Powers(a))
  BY <1>3, Zenon DEF Powers
<1> DEFINE q == Powers(a)
<1>5. q = PowerRow(a, q)
  BY <1>4
<1> HIDE DEF q
<1>6. q[0] = a /\ \A i \in 0..5 : q[i + 1] = SquareTimes(q[i], a)
  BY <1>5 DEF PowerRow
<1>7. gfInv(a) = Square(Powers(a)[6])
  BY Zenon DEF gfInv, Powers, PowerRow, Square
<1> QED
  BY <1>6, <1>7 DEF q

\* The square of a product is the product of the squares.
LEMMA SquareOfProduct ==
    ASSUME NEW a \in Byte, NEW b \in Byte
    PROVE  Square(gfMul(a, b)) = gfMul(Square(a), Square(b))
<1> DEFINE m(p, q) == gfMul(p, q)
<1>1. /\ \A p, q \in Byte : m(p, q) \in Byte /\ m(p, q) = m(q, p)
      /\ \A p, q, r \in Byte : m(m(p, q), r) = m(p, m(q, r))
  BY MulAdditive, MulCommutes, MulAssociates
<1> HIDE DEF m
<1>2. m(m(a, b), m(a, b)) = m(a, m(b, m(a, b)))
  BY <1>1
<1>3. m(b, m(a, b)) = m(a, m(b, b))
  BY <1>1
<1>4. m(a, m(a, m(b, b))) = m(m(a, a), m(b, b))
  BY <1>1
<1> QED
  BY <1>2, <1>3, <1>4 DEF m, Square

\* One round of gfInv multiplies by the next power of a whose exponent is a power
\* of two.
LEMMA InvRound ==
    ASSUME NEW a \in Byte, NEW r \in Byte, NEW p \in Byte, SquareTimes(r, a) = gfMul(r, Square(p))
    PROVE  /\ SquareTimes(r, a) \in Byte /\ Square(p) \in Byte
           /\ SquareTimes(SquareTimes(r, a), a) = gfMul(SquareTimes(r, a), Square(Square(p)))
<1> DEFINE s == SquareTimes(r, a)
           q == Square(p)
           u == Square(r)
           v == Square(q)
<1>1. s \in Byte /\ q \in Byte /\ u \in Byte /\ v \in Byte
  BY MulAdditive DEF SquareTimes, Square
<1>2. s = gfMul(u, a) /\ s = gfMul(r, q)
  BY DEF SquareTimes, Square
<1>3. SquareTimes(s, a) = gfMul(Square(s), a)
  BY DEF SquareTimes, Square
<1>4. Square(s) = gfMul(u, v)
  BY <1>1, <1>2, SquareOfProduct
<1> HIDE DEF s, q, u, v
<1>5. gfMul(gfMul(u, v), a) = gfMul(gfMul(v, u), a)
  BY <1>1, MulCommutes
<1>6. gfMul(gfMul(v, u), a) = gfMul(v, gfMul(u, a))
  BY <1>1, MulAssociates
<1>7. gfMul(v, s) = gfMul(s, v)
  BY <1>1, MulCommutes
<1>8. SquareTimes(s, a) = gfMul(s, v)
  BY <1>2, <1>3, <1>4, <1>5, <1>6, <1>7
<1> QED
  BY <1>1, <1>8 DEF s, q, v

\* gfInv inverts every byte but zero.
LEMMA MulInverse ==
    ASSUME NEW a \in Byte, a # {}
    PROVE  gfInv(a) \in Byte /\ gfMul(a, gfInv(a)) = One
<1> DEFINE r0 == a
           r1 == SquareTimes(r0, a)
           r2 == SquareTimes(r1, a)
           r3 == SquareTimes(r2, a)
           r4 == SquareTimes(r3, a)
           r5 == SquareTimes(r4, a)
           r6 == SquareTimes(r5, a)
           r7 == SquareTimes(r6, a)
           p1 == Square(a)
           p2 == Square(p1)
           p3 == Square(p2)
           p4 == Square(p3)
           p5 == Square(p4)
           p6 == Square(p5)
           p7 == Square(p6)
           p8 == Square(p7)
<1>1. gfInv(a) = Square(r6)
  <2>1. /\ 0 + 1 = 1 /\ 1 + 1 = 2 /\ 2 + 1 = 3 /\ 3 + 1 = 4 /\ 4 + 1 = 5 /\ 5 + 1 = 6
        /\ 0 \in 0..5 /\ 1 \in 0..5 /\ 2 \in 0..5 /\ 3 \in 0..5 /\ 4 \in 0..5 /\ 5 \in 0..5
    OBVIOUS
  <2>2. /\ Powers(a)[1] = SquareTimes(Powers(a)[0], a) /\ Powers(a)[2] = SquareTimes(Powers(a)[1], a)
        /\ Powers(a)[3] = SquareTimes(Powers(a)[2], a) /\ Powers(a)[4] = SquareTimes(Powers(a)[3], a)
        /\ Powers(a)[5] = SquareTimes(Powers(a)[4], a) /\ Powers(a)[6] = SquareTimes(Powers(a)[5], a)
    BY <2>1, PowersAre
  <2>3. Powers(a)[1] = r1
    BY <2>2, PowersAre
  <2>4. Powers(a)[2] = r2
    BY <2>2, <2>3
  <2>5. Powers(a)[3] = r3
    BY <2>2, <2>4
  <2>6. Powers(a)[4] = r4
    BY <2>2, <2>5
  <2>7. Powers(a)[5] = r5
    BY <2>2, <2>6
  <2>8. Powers(a)[6] = r6
    BY <2>2, <2>7
  <2> QED
    BY <2>8, PowersAre
<1>2. p8 = a
  BY SquaredEightTimes
<1>3. \A b, c \in Byte : SquareTimes(b, c) \in Byte /\ Square(b) \in Byte
  BY MulAdditive DEF SquareTimes, Square
<1>4. \A b \in Byte : b # {} => SquareTimes(b, a) # {}
  <2> SUFFICES ASSUME NEW b \in Byte, b # {} PROVE SquareTimes(b, a) # {}
    OBVIOUS
  <2>1. gfMul(b, b) \in Byte /\ gfMul(b, b) # {}
    BY MulAdditive, NoDivisorsOfZero
  <2> QED
    BY <2>1, NoDivisorsOfZero DEF SquareTimes
<1>5. r0 \in Byte /\ r0 # {} /\ SquareTimes(r0, a) = gfMul(r0, p1) /\ p1 \in Byte
  BY <1>3, MulCommutes DEF SquareTimes, Square
<1> DEFINE Round(r, s, p, q) == r \in Byte /\ r # {} /\ s = SquareTimes(r, a) /\ s = gfMul(r, p)
                               /\ p \in Byte /\ q = Square(p)
<1>6. ASSUME NEW r, NEW s, NEW p, NEW q, NEW b \in Byte, p = Square(b), Round(r, s, p, q)
      PROVE  s \in Byte /\ s # {} /\ SquareTimes(s, a) = gfMul(s, q) /\ q \in Byte
  <2>1. r \in Byte /\ r # {} /\ s = SquareTimes(r, a) /\ SquareTimes(r, a) = gfMul(r, Square(b))
    BY <1>6
  <2>2. s \in Byte /\ p \in Byte /\ SquareTimes(s, a) = gfMul(s, Square(Square(b)))
    <3>1. /\ SquareTimes(r, a) \in Byte /\ Square(b) \in Byte
          /\ SquareTimes(SquareTimes(r, a), a) = gfMul(SquareTimes(r, a), Square(Square(b)))
      BY <2>1, InvRound
    <3> QED
      BY <1>6, <2>1, <3>1
  <2>3. s # {}
    BY <1>4, <2>1
  <2>4. q = Square(p) /\ q \in Byte
    BY <1>3, <1>6, <2>2
  <2> QED
    BY <1>6, <2>2, <2>3, <2>4
<1>7. r1 \in Byte /\ r1 # {} /\ SquareTimes(r1, a) = gfMul(r1, p2) /\ p2 \in Byte
  BY <1>5, <1>6
<1> HIDE DEF r1
<1>8. r2 \in Byte /\ r2 # {} /\ SquareTimes(r2, a) = gfMul(r2, p3) /\ p3 \in Byte
  BY <1>5, <1>6, <1>7
<1> HIDE DEF r2, p1
<1>9. r3 \in Byte /\ r3 # {} /\ SquareTimes(r3, a) = gfMul(r3, p4) /\ p4 \in Byte
  BY <1>6, <1>7, <1>8
<1> HIDE DEF r3, p2
<1>10. r4 \in Byte /\ r4 # {} /\ SquareTimes(r4, a) = gfMul(r4, p5) /\ p5 \in Byte
  BY <1>6, <1>8, <1>9
<1> HIDE DEF r4, p3
<1>11. r5 \in Byte /\ r5 # {} /\ SquareTimes(r5, a) = gfMul(r5, p6) /\ p6 \in Byte
  BY <1>6, <1>9, <1>10
<1> HIDE DEF r5, p4
<1>12. r6 \in Byte /\ r6 # {} /\ SquareTimes(r6, a) = gfMul(r6, p7) /\ p7 \in Byte
  BY <1>6, <1>10, <1>11
<1> HIDE DEF r6, p5
<1>13. r7 \in Byte /\ r7 # {} /\ SquareTimes(r7, a) = gfMul(r7, p8) /\ p8 \in Byte
  BY <1>6, <1>11, <1>12
<1>14. Square(r6) \in Byte /\ gfMul(a, Square(r6)) = r7
  BY <1>3, <1>12, MulCommutes DEF SquareTimes, Square
<1> HIDE DEF r7, p8
<1>15. gfMul(Square(r7), a) = gfMul(r7, a) /\ Square(r7) \in Byte
  BY <1>2, <1>3, <1>13 DEF SquareTimes, Square
<1>16. Square(r7) ^^ r7 = {}
  <2>1. gfMul(Square(r7) ^^ r7, a) = gfMul(Square(r7), a) ^^ gfMul(r7, a)
    BY <1>13, <1>15, MulAdditive
  <2>2. gfMul(Square(r7) ^^ r7, a) = {} /\ Square(r7) ^^ r7 \in Byte
    BY <1>13, <1>15, <2>1, SumLaws
  <2> QED
    BY <2>2, NoDivisorsOfZero
<1>17. gfMul(r7, r7 ^^ One) = {} /\ r7 ^^ One \in Byte
  <2>1. gfMul(r7, r7 ^^ One) = gfMul(r7, r7) ^^ gfMul(r7, One)
    BY <1>13, RowsOfOne, MulAdditive
  <2>2. gfMul(r7, One) = r7
    BY <1>13, RowsOfOne, MulCommutes, MulOne
  <2> QED
    BY <1>13, <1>16, <2>1, <2>2, RowsOfOne, SumLaws DEF Square
<1>18. r7 ^^ One = {}
  BY <1>13, <1>17, NoDivisorsOfZero
<1>19. r7 = One
  BY <1>18 DEF ^^
<1> QED
  BY <1>1, <1>14, <1>19

-----------------------------------------------------------------------------
(* gfMul is the product of the polynomials, reduced.                         *)

\* One step of the division.
Reduced(q, d) == IF d \in q THEN q ^^ {e + d - 8 : e \in gfPoly} ELSE q
DividedRow(p, r) == [d \in 8..15 |-> IF d = 15 THEN p ELSE Reduced(r[d + 1], d)]
Divided(p) == CHOOSE r : r = DividedRow(p, r)

\* The remainder is what seven steps of the division leave.
LEMMA RemainderIs ==
    ASSUME NEW p
    PROVE  Remainder(p) =
              Reduced(Reduced(Reduced(Reduced(Reduced(Reduced(Reduced(p,
                  14), 13), 12), 11), 10), 9), 8)
<1> DEFINE x14 == Reduced(p, 14)
           x13 == Reduced(x14, 13)
           x12 == Reduced(x13, 12)
           x11 == Reduced(x12, 11)
           x10 == Reduced(x11, 10)
           x9 == Reduced(x10, 9)
           x8 == Reduced(x9, 8)
           r == [d \in 8..15 |-> CASE d = 15 -> p [] d = 14 -> x14 [] d = 13 -> x13
                                   [] d = 12 -> x12 [] d = 11 -> x11 [] d = 10 -> x10
                                   [] d = 9 -> x9 [] d = 8 -> x8]
<1>1. \A d \in 8..15 : r[d] = IF d = 15 THEN p ELSE Reduced(r[d + 1], d)
  <2>1. /\ r[15] = p /\ r[14] = x14 /\ r[13] = x13 /\ r[12] = x12
        /\ r[11] = x11 /\ r[10] = x10 /\ r[9] = x9 /\ r[8] = x8
    <3> HIDE DEF x14, x13, x12, x11, x10, x9, x8
    <3> QED
      OBVIOUS
  <2> HIDE DEF r
  <2>2. \A d \in 8..15 : \/ d = 15 \/ d = 14 \/ d = 13 \/ d = 12
                         \/ d = 11 \/ d = 10 \/ d = 9 \/ d = 8
    OBVIOUS
  <2>3. /\ r[14] = Reduced(r[15], 14) /\ r[13] = Reduced(r[14], 13)
        /\ r[12] = Reduced(r[13], 12) /\ r[11] = Reduced(r[12], 11)
        /\ r[10] = Reduced(r[11], 10) /\ r[9] = Reduced(r[10], 9) /\ r[8] = Reduced(r[9], 8)
    BY <2>1, Zenon
  <2> HIDE DEF x14, x13, x12, x11, x10, x9, x8
  <2> QED
    BY <2>1, <2>2, <2>3
<1>2. r = DividedRow(p, r)
  <2>1. r = [d \in 8..15 |-> r[d]]
    OBVIOUS
  <2> HIDE DEF r
  <2> QED
    BY <1>1, <2>1 DEF DividedRow
<1> HIDE DEF r
<1>3. \E q : q = DividedRow(p, q)
  BY <1>2
<1>4. Divided(p) = DividedRow(p, Divided(p))
  BY <1>3, Zenon DEF Divided
<1> DEFINE q == Divided(p)
<1>5. q = DividedRow(p, q)
  BY <1>4
<1> HIDE DEF q
<1>6. q[15] = p /\ \A d \in 8..14 : q[d] = Reduced(q[d + 1], d)
  BY <1>5 DEF DividedRow
<1>7. /\ q[14] = Reduced(q[15], 14) /\ q[13] = Reduced(q[14], 13) /\ q[12] = Reduced(q[13], 12)
      /\ q[11] = Reduced(q[12], 11) /\ q[10] = Reduced(q[11], 10) /\ q[9] = Reduced(q[10], 9)
      /\ q[8] = Reduced(q[9], 8)
  BY <1>6
<1>8. Remainder(p) = q[8]
  BY Zenon DEF Remainder, q, Divided, DividedRow, Reduced
<1>9. q[14] = x14
  BY <1>6, <1>7
<1>10. q[13] = x13
  BY <1>7, <1>9
<1>11. q[12] = x12
  BY <1>7, <1>10
<1>12. q[11] = x11
  BY <1>7, <1>11
<1>13. q[10] = x10
  BY <1>7, <1>12
<1>14. q[9] = x9
  BY <1>7, <1>13
<1>15. q[8] = x8
  BY <1>7, <1>14
<1> QED
  BY <1>8, <1>15

\* A step of the division is additive, and it takes off the highest degree.
LEMMA ReducedAdditive ==
    \A p, q, d : Reduced(p ^^ q, d) = Reduced(p, d) ^^ Reduced(q, d)
<1> SUFFICES ASSUME NEW p, NEW q, NEW d
             PROVE  Reduced(p ^^ q, d) = Reduced(p, d) ^^ Reduced(q, d)
  OBVIOUS
<1> DEFINE s == {e + d - 8 : e \in gfPoly}
<1> HIDE DEF s
<1>1. \A u : Reduced(u, d) = IF d \in u THEN u ^^ s ELSE u
  BY DEF Reduced, s
<1>2. \A u, e : e \in Reduced(u, d) <=> ((e \in u) # (d \in u /\ e \in s))
  BY <1>1 DEF ^^
<1>3. \A u, v, e : e \in u ^^ v <=> ((e \in u) # (e \in v))
  BY DEF ^^
<1>4. \A e : e \in Reduced(p ^^ q, d) <=> e \in Reduced(p, d) ^^ Reduced(q, d)
  BY <1>2, <1>3
<1> QED
  BY <1>4

\* So the remainder of a sum is the sum of the remainders.
LEMMA RemainderAdditive ==
    \A p, q : Remainder(p ^^ q) = Remainder(p) ^^ Remainder(q)
BY RemainderIs, ReducedAdditive

\* A step leaves a lower degree, and the division leaves a byte.
LEMMA ReducedDegree ==
    ASSUME NEW d \in 8..14, NEW q \in SUBSET (0..d)
    PROVE  Reduced(q, d) \in SUBSET (0..(d - 1))
<1>1. \A e : e \in {c + d - 8 : c \in gfPoly} => e \in 0..d
  BY DEF gfPoly
<1>2. d \in {c + d - 8 : c \in gfPoly}
  BY DEF gfPoly
<1> DEFINE s == {c + d - 8 : c \in gfPoly}
<1> HIDE DEF s
<1>3. s \in SUBSET (0..d) /\ d \in s
  BY <1>1, <1>2 DEF s
<1>4. Reduced(q, d) = IF d \in q THEN (q \ s) \cup (s \ q) ELSE q
  BY DEF Reduced, s, ^^
<1> QED
  BY <1>3, <1>4

LEMMA RemainderIsByte == \A p \in SUBSET (0..14) : Remainder(p) \in Byte
<1> SUFFICES ASSUME NEW p \in SUBSET (0..14) PROVE Remainder(p) \in Byte
  OBVIOUS
<1> DEFINE x14 == Reduced(p, 14)
           x13 == Reduced(x14, 13)
           x12 == Reduced(x13, 12)
           x11 == Reduced(x12, 11)
           x10 == Reduced(x11, 10)
           x9 == Reduced(x10, 9)
           x8 == Reduced(x9, 8)
<1>1. x14 \in SUBSET (0..13)
  BY ReducedDegree
<1> HIDE DEF x14
<1>2. x13 \in SUBSET (0..12)
  BY <1>1, ReducedDegree
<1> HIDE DEF x13
<1>3. x12 \in SUBSET (0..11)
  BY <1>2, ReducedDegree
<1> HIDE DEF x12
<1>4. x11 \in SUBSET (0..10)
  BY <1>3, ReducedDegree
<1> HIDE DEF x11
<1>5. x10 \in SUBSET (0..9)
  BY <1>4, ReducedDegree
<1> HIDE DEF x10
<1>6. x9 \in SUBSET (0..8)
  BY <1>5, ReducedDegree
<1> HIDE DEF x9
<1>7. x8 \in SUBSET (0..7)
  BY <1>6, ReducedDegree
<1> HIDE DEF x8
<1>8. Remainder(p) = x8
  BY RemainderIs DEF x14, x13, x12, x11, x10, x9, x8
<1> QED
  BY <1>7, <1>8 DEF Byte

Shift(p) == {e + 1 : e \in p}

\* Dividing x times a polynomial is x times dividing the polynomial, and then a
\* step more if that has degree 8.
LEMMA ReducedShift ==
    ASSUME NEW d \in 8..13, NEW p \in SUBSET Int
    PROVE  Reduced(p, d) \in SUBSET Int /\ Reduced(Shift(p), d + 1) = Shift(Reduced(p, d))
<1> DEFINE s == {e + d - 8 : e \in gfPoly}
           t == {e + (d + 1) - 8 : e \in gfPoly}
<1>1. s \in SUBSET Int /\ t = Shift(s)
  <2>1. s = {d, d - 4, d - 5, d - 7, d - 8}
    BY DEF gfPoly
  <2>2. t = {d + 1, d - 3, d - 4, d - 6, d - 7}
    BY DEF gfPoly
  <2> HIDE DEF s, t
  <2>3. Shift(s) = {d + 1, d - 3, d - 4, d - 6, d - 7}
    BY <2>1 DEF Shift
  <2> QED
    BY <2>1, <2>2, <2>3
<1>2. d + 1 \in Shift(p) <=> d \in p
  BY DEF Shift
<1>3. ASSUME NEW u \in SUBSET Int, NEW v \in SUBSET Int
      PROVE  u ^^ v \in SUBSET Int /\ Shift(u ^^ v) = Shift(u) ^^ Shift(v)
  <2>1. \A w \in SUBSET Int : \A e : e \in Shift(w) <=> e \in Int /\ e - 1 \in w
    BY DEF Shift
  <2>2. u ^^ v \in SUBSET Int
    BY DEF ^^
  <2>3. \A e : e \in Shift(u ^^ v) <=> e \in Shift(u) ^^ Shift(v)
    BY <2>1, <2>2 DEF ^^
  <2> QED
    BY <2>2, <2>3
<1>4. Reduced(p, d) = IF d \in p THEN p ^^ s ELSE p
  BY DEF Reduced
<1>5. Reduced(Shift(p), d + 1) = IF d + 1 \in Shift(p) THEN Shift(p) ^^ t ELSE Shift(p)
  BY DEF Reduced
<1> HIDE DEF s, t
<1> QED
  BY <1>1, <1>2, <1>3, <1>4, <1>5

\* x times a polynomial leaves x times its remainder, reduced by gfMul's step.
LEMMA RemainderShift ==
    ASSUME NEW p \in SUBSET (0..13)
    PROVE  Remainder(Shift(p)) = Times_x(Remainder(p))
<1> DEFINE x13 == Reduced(p, 13)
           x12 == Reduced(x13, 12)
           x11 == Reduced(x12, 11)
           x10 == Reduced(x11, 10)
           x9 == Reduced(x10, 9)
           x8 == Reduced(x9, 8)
<1>1. p \in SUBSET Int /\ x13 \in SUBSET Int /\ Reduced(Shift(p), 14) = Shift(x13)
  BY ReducedShift
<1> HIDE DEF x13
<1>2. x12 \in SUBSET Int /\ Reduced(Shift(x13), 13) = Shift(x12)
  BY <1>1, ReducedShift
<1> HIDE DEF x12
<1>3. x11 \in SUBSET Int /\ Reduced(Shift(x12), 12) = Shift(x11)
  BY <1>2, ReducedShift
<1> HIDE DEF x11
<1>4. x10 \in SUBSET Int /\ Reduced(Shift(x11), 11) = Shift(x10)
  BY <1>3, ReducedShift
<1> HIDE DEF x10
<1>5. x9 \in SUBSET Int /\ Reduced(Shift(x10), 10) = Shift(x9)
  BY <1>4, ReducedShift
<1> HIDE DEF x9
<1>6. x8 \in SUBSET Int /\ Reduced(Shift(x9), 9) = Shift(x8)
  BY <1>5, ReducedShift
<1> HIDE DEF x8
<1>7. Remainder(Shift(p)) = Reduced(Shift(x8), 8)
  BY <1>1, <1>2, <1>3, <1>4, <1>5, <1>6, RemainderIs, Zenon
<1>8. Remainder(p) = x8
  <2>1. Reduced(p, 14) = p
    BY DEF Reduced
  <2> QED
    BY <2>1, RemainderIs DEF x13, x12, x11, x10, x9, x8
<1>9. x8 \in Byte
  <2>1. p \in SUBSET (0..14)
    OBVIOUS
  <2> QED
    BY <1>8, <2>1, RemainderIsByte
<1>10. Reduced(Shift(x8), 8) = Times_x(x8)
  <2> DEFINE low == {4, 3, 1, 0}
             s == {e + 8 - 8 : e \in gfPoly}
  <2>1. gfPoly \ {8} = low /\ s = low \cup {8}
    BY DEF gfPoly
  <2>2. 8 \in Shift(x8) <=> 7 \in x8
    BY <1>6 DEF Shift
  <2>3. {e + 1 : e \in x8 \ {7}} = Shift(x8) \ {8}
    BY <1>6 DEF Shift
  <2>4. Times_x(x8) = (Shift(x8) \ {8}) ^^ (IF 7 \in x8 THEN low ELSE {})
    BY <2>1, <2>3 DEF Times_x
  <2>5. Reduced(Shift(x8), 8) = IF 8 \in Shift(x8) THEN Shift(x8) ^^ s ELSE Shift(x8)
    BY DEF Reduced
  <2>6. 8 \notin low
    OBVIOUS
  <2> HIDE DEF low, s
  <2> QED
    BY <2>1, <2>2, <2>4, <2>5, <2>6 DEF ^^
<1> QED
  BY <1>7, <1>8, <1>10

\* The product is additive in its second factor, and by x^i it shifts.
LEMMA ProductAdditive ==
    ASSUME NEW a \in Byte, NEW b \in Byte, NEW c \in Byte
    PROVE  /\ Product(a, b) \in SUBSET (0..14)
           /\ Product(a, b ^^ c) = Product(a, b) ^^ Product(a, c)
<1> DEFINE Pairs(d, e) == {p \in a \X d : p[1] + p[2] = e}
<1>1. \A d \in Byte : \A e : IsFiniteSet(Pairs(d, e))
  <2>1. IsFiniteSet(0..7)
    <3>1. 0 \in Int /\ 7 \in Int
      OBVIOUS
    <3> QED
      BY <3>1, FS_Interval
  <2>2. IsFiniteSet((0..7) \X (0..7))
    BY <2>1, FS_Product
  <2> SUFFICES ASSUME NEW d \in Byte, NEW e PROVE IsFiniteSet(Pairs(d, e))
    OBVIOUS
  <2>3. Pairs(d, e) \in SUBSET ((0..7) \X (0..7))
    BY DEF Byte
  <2> HIDE DEF Pairs
  <2> QED
    BY <2>2, <2>3, FS_Subset
<1>2. b ^^ c \in Byte
  BY SumLaws
<1>3. ASSUME NEW e
      PROVE  Odd(Pairs(b ^^ c, e)) <=> (Odd(Pairs(b, e)) # Odd(Pairs(c, e)))
  <2>1. Pairs(b ^^ c, e) = Pairs(b, e) ^^ Pairs(c, e)
    BY DEF ^^
  <2> HIDE DEF Pairs
  <2> QED
    BY <1>1, <2>1, OddSum
<1>4. \A d, e : e \in Product(a, d) <=> e \in 0..14 /\ Odd(Pairs(d, e))
  BY DEF Product
<1>5. \A S : Odd(S) \in BOOLEAN
  BY DEF Odd
<1> HIDE DEF Pairs
<1>6. \A e : e \in Product(a, b ^^ c) <=> e \in Product(a, b) ^^ Product(a, c)
  BY <1>3, <1>4, <1>5 DEF ^^
<1>7. Product(a, b) \in SUBSET (0..14)
  BY <1>4
<1> QED
  BY <1>6, <1>7

\* The product with x^i moves every power up by i.
LEMMA ProductShifts ==
    ASSUME NEW a \in Byte, NEW i \in 0..7
    PROVE  Product(a, {i}) = {e + i : e \in a}
<1> DEFINE Pairs(e) == {p \in a \X {i} : p[1] + p[2] = e}
<1>1. Odd({}) = FALSE /\ \A x : Odd({x})
  <2>1. Cardinality({}) = 0 /\ \A x : Cardinality({x}) = 1
    BY FS_EmptySet, FS_Singleton
  <2>2. \A n : n = 1 => n % 2 = 1
    OBVIOUS
  <2>3. \A n : n = 0 => ~(n % 2 = 1)
    OBVIOUS
  <2>4. \A x : Odd({x})
    BY <2>1, <2>2 DEF Odd
  <2>5. Odd({}) = FALSE
    BY <2>1, <2>3 DEF Odd
  <2> QED
    BY <2>4, <2>5
<1>2. \A e : e \in Product(a, {i}) <=> e \in 0..14 /\ Odd(Pairs(e))
  BY DEF Product
<1>3. \A e \in 0..14 : Odd(Pairs(e)) <=> e - i \in a
  <2> SUFFICES ASSUME NEW e \in 0..14 PROVE Odd(Pairs(e)) <=> e - i \in a
    OBVIOUS
  <2>1. \A c \in a : c \in 0..7
    BY DEF Byte
  <2>2. CASE e - i \in a
    <3>1. Pairs(e) = {<<e - i, i>>}
      BY <2>1, <2>2
    <3> HIDE DEF Pairs
    <3> QED
      BY <1>1, <2>2, <3>1
  <2>3. CASE e - i \notin a
    <3>1. Pairs(e) = {}
      BY <2>1, <2>3
    <3> HIDE DEF Pairs
    <3> QED
      BY <1>1, <2>3, <3>1
  <2> QED
    BY <2>2, <2>3
<1> HIDE DEF Pairs
<1>4. \A e : e \in {c + i : c \in a} <=> e \in 0..14 /\ e - i \in a
  BY DEF Byte
<1>5. \A e : e \in Product(a, {i}) <=> e \in {c + i : c \in a}
  BY <1>2, <1>3, <1>4
<1> QED
  BY <1>5

\* gfMul multiplies in the field.
LEMMA MulIsFieldProduct == \A a, b \in Byte : gfMul(a, b) = FieldProduct(a, b)
<1> SUFFICES ASSUME NEW a \in Byte PROVE \A b \in Byte : gfMul(a, b) = FieldProduct(a, b)
  OBVIOUS
<1> DEFINE f == [b \in Byte |-> gfMul(a, b)]
           g == [b \in Byte |-> FieldProduct(a, b)]
<1>1. Additive(f) /\ Additive(g)
  <2>1. \A b \in Byte : gfMul(a, b) \in Byte /\ FieldProduct(a, b) \in Byte
    BY MulAdditive, ProductAdditive, RemainderIsByte DEF FieldProduct
  <2>2. ASSUME NEW b \in Byte, NEW c \in Byte
        PROVE  f[b ^^ c] = f[b] ^^ f[c] /\ g[b ^^ c] = g[b] ^^ g[c]
    <3>1. b ^^ c \in Byte
      BY SumLaws
    <3>2. Product(a, b ^^ c) = Product(a, b) ^^ Product(a, c)
      BY ProductAdditive
    <3>3. FieldProduct(a, b ^^ c) = FieldProduct(a, b) ^^ FieldProduct(a, c)
      BY <3>2, RemainderAdditive DEF FieldProduct
    <3>4. gfMul(a, b ^^ c) = gfMul(a, b) ^^ gfMul(a, c)
      BY MulAdditive
    <3> QED
      BY <3>1, <3>3, <3>4
  <2>3. f \in [Byte -> Byte] /\ g \in [Byte -> Byte]
    BY <2>1
  <2> HIDE DEF f, g
  <2> QED
    BY <2>2, <2>3 DEF Additive
<1> DEFINE S(i) == {e + i : e \in a}
           Same(i) == Remainder(S(i)) = Rows(a)[i]
<1>2. Same(0)
  <2>1. S(0) = a
    <3>1. \A e \in a : e \in Int /\ e + 0 = e
      BY DEF Byte
    <3>2. \A e : e \in S(0) <=> e \in a
      BY <3>1
    <3> HIDE DEF S
    <3> QED
      BY <3>2
  <2>2. \A d \in 8..14 : Reduced(a, d) = a
    BY DEF Byte, Reduced
  <2>3. Remainder(a) = a
    BY <2>2, RemainderIs
  <2> QED
    BY <2>1, <2>3, RowsAre
<1>3. ASSUME NEW i \in 0..6, Same(i) PROVE Same(i + 1)
  <2>1. S(i) \in SUBSET (0..13)
    BY DEF Byte
  <2>2. S(i + 1) = Shift(S(i))
    <3>1. \A e \in a : e \in Int /\ e + (i + 1) = (e + i) + 1
      BY DEF Byte
    <3>2. \A e : e \in S(i + 1) <=> \E c \in a : e = (c + i) + 1
      BY <3>1
    <3>3. \A e : e \in Shift(S(i)) <=> \E c \in a : e = (c + i) + 1
      BY DEF Shift
    <3> HIDE DEF S
    <3> QED
      BY <3>2, <3>3
  <2> HIDE DEF S
  <2>3. Remainder(S(i + 1)) = Times_x(Remainder(S(i)))
    BY <2>1, <2>2, RemainderShift
  <2> QED
    BY <1>3, <2>3, RowsAre
<1> HIDE DEF Same
<1>4. /\ Same(1) /\ Same(2) /\ Same(3) /\ Same(4) /\ Same(5) /\ Same(6) /\ Same(7)
  <2>1. Same(1)
    BY <1>2, <1>3
  <2>2. Same(2)
    BY <2>1, <1>3
  <2>3. Same(3)
    BY <2>2, <1>3
  <2>4. Same(4)
    BY <2>3, <1>3
  <2>5. Same(5)
    BY <2>4, <1>3
  <2>6. Same(6)
    BY <2>5, <1>3
  <2>7. Same(7)
    BY <2>6, <1>3
  <2> QED
    BY <2>1, <2>2, <2>3, <2>4, <2>5, <2>6, <2>7
<1>5. \A i \in 0..7 : f[{i}] = g[{i}]
  <2> TAKE i \in 0..7
  <2>1. i = 0 \/ i = 1 \/ i = 2 \/ i = 3 \/ i = 4 \/ i = 5 \/ i = 6 \/ i = 7
    OBVIOUS
  <2>2. Same(i)
    BY <1>2, <1>4, <2>1
  <2>3. {i} \in Byte /\ gfMul(a, {i}) = Rows(a)[i]
    BY MulBit DEF Byte
  <2>4. FieldProduct(a, {i}) = Remainder(S(i))
    BY ProductShifts DEF FieldProduct
  <2> HIDE DEF S
  <2> QED
    BY <2>2, <2>3, <2>4 DEF Same
<1>6. \A b \in Byte : f[b] = g[b]
  <2> HIDE DEF f, g
  <2> QED
    BY <1>1, <1>5, AdditiveEqual
<1> QED
  BY <1>6

-----------------------------------------------------------------------------
(* Bytes are a field.                                                        *)

\* Addition cancels itself, multiplication distributes over it, and whatever is
\* not zero has an inverse.
LEMMA FieldLaws ==
    /\ One \in Byte /\ Zero \in Byte /\ One # Zero
    /\ \A a, b \in Byte : a ^^ b \in Byte
    /\ \A a, b \in Byte : gfMul(a, b) \in Byte /\ gfMul(a, b) = gfMul(b, a)
    /\ \A a, b, c \in Byte : gfMul(gfMul(a, b), c) = gfMul(a, gfMul(b, c))
    /\ \A a \in Byte : gfMul(a, One) = a /\ gfMul(One, a) = a
    /\ \A a \in Byte : gfMul(a, Zero) = Zero /\ gfMul(Zero, a) = Zero
    /\ \A a \in Byte : a # Zero => gfInv(a) \in Byte /\ gfMul(a, gfInv(a)) = One
    /\ \A a, b \in Byte : a # Zero /\ b # Zero => gfMul(a, b) # Zero
<1>1. \A a, b \in Byte : gfMul(a, b) \in Byte /\ gfMul(a, b) = gfMul(b, a)
  BY MulAdditive, MulCommutes
<1>2. \A a, b, c \in Byte : gfMul(gfMul(a, b), c) = gfMul(a, gfMul(b, c))
  BY MulAssociates
<1>3. One \in Byte /\ Zero \in Byte /\ One # Zero
  BY DEF One, Byte, Zero
<1>4. \A a, b \in Byte : a ^^ b \in Byte
  BY SumLaws
<1>5. \A a \in Byte : gfMul(a, One) = a /\ gfMul(One, a) = a
  BY <1>1, <1>3, MulOne
<1>6. \A a \in Byte : gfMul(a, Zero) = Zero /\ gfMul(Zero, a) = Zero
  <2> SUFFICES ASSUME NEW a \in Byte PROVE gfMul(a, Zero) = Zero
    BY <1>1, <1>3
  <2>1. gfMul(a, a ^^ a) = gfMul(a, a) ^^ gfMul(a, a)
    BY MulAdditive
  <2> QED
    BY <2>1, SumLaws DEF Zero
<1>7. \A a \in Byte : a # Zero => gfInv(a) \in Byte /\ gfMul(a, gfInv(a)) = One
  BY MulInverse DEF Zero
<1>8. \A a, b \in Byte : a # Zero /\ b # Zero => gfMul(a, b) # Zero
  BY NoDivisorsOfZero DEF Zero
<1> QED
  BY <1>1, <1>2, <1>3, <1>4, <1>5, <1>6, <1>7, <1>8

\* Multiplication distributes over addition.
LEMMA Distributes ==
    \A a, b, c \in Byte : /\ gfMul(a, b ^^ c) = gfMul(a, b) ^^ gfMul(a, c)
                         /\ gfMul(b ^^ c, a) = gfMul(b, a) ^^ gfMul(c, a)
BY MulAdditive

\* Addition is a group in which every byte is its own inverse.
LEMMA Cancels ==
    /\ \A a : a ^^ a = Zero /\ a ^^ Zero = a /\ Zero ^^ a = a
    /\ \A a, b : a ^^ b = b ^^ a /\ (a ^^ b = Zero => a = b)
    /\ \A a, b, c : (a ^^ b) ^^ c = a ^^ (b ^^ c)
BY SumLaws DEF Zero, ^^

\* A factor and its inverse, anywhere in a product, go.
LEMMA FactorCancels ==
    ASSUME NEW t \in Byte, NEW i \in Byte, gfMul(t, i) = One,
           NEW h \in Byte, NEW w \in Byte, NEW z \in Byte
    PROVE  gfMul(gfMul(t, h), gfMul(w, gfMul(z, i))) = gfMul(z, gfMul(h, w))
<1>1. gfMul(w, z) \in Byte /\ gfMul(z, i) \in Byte
  BY FieldLaws
<1>2. gfMul(w, gfMul(z, i)) = gfMul(i, gfMul(w, z))
  BY <1>1, FieldLaws
<1>3. gfMul(i, gfMul(w, z)) \in Byte
  BY <1>1, FieldLaws
<1>4. gfMul(gfMul(t, h), gfMul(i, gfMul(w, z))) = gfMul(h, gfMul(t, gfMul(i, gfMul(w, z))))
  BY <1>3, FieldLaws
<1>5. gfMul(t, gfMul(i, gfMul(w, z))) = gfMul(w, z)
  <2>1. gfMul(t, gfMul(i, gfMul(w, z))) = gfMul(gfMul(t, i), gfMul(w, z))
    BY <1>1, FieldLaws
  <2> QED
    BY <1>1, <2>1, FieldLaws
<1>6. gfMul(h, gfMul(w, z)) = gfMul(z, gfMul(h, w))
  <2>1. gfMul(h, gfMul(w, z)) = gfMul(gfMul(h, w), z) /\ gfMul(h, w) \in Byte
    BY FieldLaws
  <2> QED
    BY <2>1, FieldLaws
<1> QED
  BY <1>2, <1>4, <1>5, <1>6

\* The inverse of a product is the product of the inverses.
LEMMA QuotientOfProducts ==
    ASSUME NEW n \in Byte, NEW x \in Byte, NEW d \in Byte, NEW t \in Byte, d # Zero, t # Zero
    PROVE  gfMul(gfMul(n, x), gfInv(gfMul(d, t))) = gfMul(gfMul(n, gfInv(d)), gfMul(x, gfInv(t)))
<1> DEFINE e == gfMul(d, t)
           u == gfMul(gfInv(d), gfInv(t))
           v == gfInv(e)
<1>1. /\ e \in Byte /\ e # Zero /\ gfInv(d) \in Byte /\ gfInv(t) \in Byte
      /\ gfMul(d, gfInv(d)) = One /\ gfMul(t, gfInv(t)) = One
  BY FieldLaws
<1>2. u \in Byte /\ v \in Byte /\ gfMul(e, v) = One
  BY <1>1, FieldLaws
<1>3. gfMul(e, u) = One
  <2>1. gfMul(e, u) = gfMul(d, gfMul(t, u))
    BY <1>2, FieldLaws
  <2>2. gfMul(t, u) = gfInv(d)
    <3>1. u = gfMul(gfInv(t), gfInv(d))
      BY <1>1, FieldLaws
    <3>2. gfMul(t, gfMul(gfInv(t), gfInv(d))) = gfMul(gfMul(t, gfInv(t)), gfInv(d))
      BY <1>1, FieldLaws
    <3> QED
      BY <1>1, <3>1, <3>2, FieldLaws
  <2> QED
    BY <1>1, <2>1, <2>2
<1> HIDE DEF e, v
<1>4. v = u
  <2>1. gfMul(v, gfMul(e, u)) = gfMul(gfMul(v, e), u) /\ gfMul(v, e) = gfMul(e, v)
    BY <1>1, <1>2, FieldLaws DEF e
  <2> QED
    BY <1>2, <1>3, <2>1, FieldLaws
<1> DEFINE p == gfInv(d)
           q == gfInv(t)
<1> HIDE DEF p, q
<1>5. gfMul(gfMul(n, x), gfMul(p, q)) = gfMul(gfMul(n, p), gfMul(x, q))
  <2>1. p \in Byte /\ q \in Byte
    BY <1>1 DEF p, q
  <2>2. gfMul(p, q) \in Byte /\ gfMul(x, q) \in Byte
    BY <2>1, FieldLaws
  <2>3. gfMul(gfMul(n, x), gfMul(p, q)) = gfMul(n, gfMul(x, gfMul(p, q)))
    BY <2>2, FieldLaws
  <2>4. gfMul(gfMul(n, p), gfMul(x, q)) = gfMul(n, gfMul(p, gfMul(x, q)))
    BY <2>1, <2>2, FieldLaws
  <2>5. gfMul(x, gfMul(p, q)) = gfMul(gfMul(x, p), q)
    BY <2>1, FieldLaws
  <2>6. gfMul(p, gfMul(x, q)) = gfMul(gfMul(p, x), q)
    BY <2>1, FieldLaws
  <2>7. gfMul(x, p) = gfMul(p, x)
    BY <2>1, FieldLaws
  <2> QED
    BY <2>3, <2>4, <2>5, <2>6, <2>7
<1> QED
  BY <1>4, <1>5 DEF e, v, p, q

\* One is its own inverse.
LEMMA InverseOfOne == gfInv(One) = One
<1>1. gfInv(One) \in Byte /\ gfMul(One, gfInv(One)) = One
  BY FieldLaws
<1> QED
  BY <1>1, FieldLaws

-----------------------------------------------------------------------------
(* Recursion over an interval.                                               *)

\* Induction up to a bound, by the least number it would leave out.
LEMMA UpTo ==
    ASSUME NEW n \in Nat, NEW S, 0 \in S,
           ASSUME NEW i \in 0..(n - 1), i \in S PROVE i + 1 \in S
    PROVE  0..n \subseteq S
<1> DEFINE Bad == {i \in 0..n : i \notin S}
<1> SUFFICES ASSUME Bad # {} PROVE FALSE
  OBVIOUS
<1>1. PICK m \in Bad : \A y \in Bad : m <= y
  <2>1. Bad \in SUBSET Nat
    OBVIOUS
  <2> HIDE DEF Bad
  <2> QED
    BY <2>1, LeastOf
<1>2. m \in 0..n /\ m \notin S /\ m # 0
  OBVIOUS
<1>3. m - 1 \in 0..(n - 1) /\ m - 1 \in S
  BY <1>1, <1>2
<1>4. (m - 1) + 1 \in S
  BY <1>3
<1> QED
  BY <1>2, <1>4

\* A function defined from the value before it exists.
Steps(r, n, a, G) == r[0] = a /\ \A i \in 1..n : r[i] = G[<<i, r[i - 1]>>]

LEMMA Recursion ==
    ASSUME NEW n \in Nat, NEW V, NEW a \in V, NEW G \in [(1..n) \X V -> V]
    PROVE  \E r \in [0..n -> V] : Steps(r, n, a, G)
<1> DEFINE Good(m, r) == r[0] = a /\ \A i \in 1..m : r[i] = G[<<i, r[i - 1]>>]
           S == {m \in 0..n : \E r \in [0..m -> V] : Good(m, r)}
<1>1. 0 \in S
  <2>1. Good(0, [i \in 0..0 |-> a]) /\ [i \in 0..0 |-> a] \in [0..0 -> V]
    OBVIOUS
  <2> HIDE DEF Good
  <2> QED
    BY <2>1
<1>2. ASSUME NEW m \in 0..(n - 1), m \in S PROVE m + 1 \in S
  <2>1. PICK r \in [0..m -> V] : Good(m, r)
    BY <1>2
  <2> DEFINE s == [i \in 0..(m + 1) |-> IF i = m + 1 THEN G[<<m + 1, r[m]>>] ELSE r[i]]
  <2>2. G[<<m + 1, r[m]>>] \in V
    <3>1. <<m + 1, r[m]>> \in (1..n) \X V
      OBVIOUS
    <3> QED
      BY <3>1
  <2>3. s \in [0..(m + 1) -> V]
    BY <2>2
  <2>4. s[m + 1] = G[<<m + 1, s[m]>>] /\ \A i \in 0..m : s[i] = r[i]
    <3>1. s[m + 1] = G[<<m + 1, r[m]>>]
      OBVIOUS
    <3>2. \A i \in 0..m : s[i] = r[i]
      OBVIOUS
    <3> HIDE DEF s
    <3>3. m \in 0..m
      OBVIOUS
    <3> QED
      BY <3>1, <3>2, <3>3
  <2> HIDE DEF s
  <2>5. ASSUME NEW i \in 1..(m + 1) PROVE s[i] = G[<<i, s[i - 1]>>]
    <3>1. CASE i = m + 1
      BY <2>4, <3>1
    <3>2. CASE i # m + 1
      <4>1. i \in 1..m /\ i - 1 \in 0..m /\ i \in 0..m
        BY <3>2
      <4> QED
        BY <2>1, <2>4, <4>1
    <3> QED
      BY <3>1, <3>2
  <2>6. s[0] = a
    BY <2>1, <2>4
  <2> QED
    BY <2>3, <2>5, <2>6
<1> HIDE DEF S
<1>3. n \in S
  <2>1. 0..n \subseteq S
    BY <1>1, <1>2, UpTo
  <2> QED
    BY <2>1
<1> QED
  BY <1>3 DEF S, Steps

-----------------------------------------------------------------------------
(* Sums, as the loop of Interpolated adds them up.                           *)

SumRow(a, n, r) == [i \in 0..n |-> IF i = 0 THEN Zero ELSE r[i - 1] ^^ a[i]]
Sums(a, n) == CHOOSE r : r = SumRow(a, n, r)

\* The sums exist, are bytes and grow by one term at a time.
LEMMA SumsAre ==
    ASSUME NEW n \in Nat, NEW a \in [1..n -> Byte]
    PROVE  /\ Sums(a, n) = SumRow(a, n, Sums(a, n))
           /\ Sums(a, n) \in [0..n -> Byte]
           /\ Sums(a, n)[0] = Zero
           /\ \A i \in 1..n : Sums(a, n)[i] = Sums(a, n)[i - 1] ^^ a[i]
<1> DEFINE G == [p \in (1..n) \X Byte |-> p[2] ^^ a[p[1]]]
<1>1. G \in [(1..n) \X Byte -> Byte]
  <2>1. \A p \in (1..n) \X Byte : p[2] ^^ a[p[1]] \in Byte
    BY SumLaws
  <2> QED
    BY <2>1
<1>2. \A i \in 1..n : \A b \in Byte : G[<<i, b>>] = b ^^ a[i]
  OBVIOUS
<1> HIDE DEF G
<1>10. Zero \in Byte
  BY FieldLaws
<1>3. PICK r \in [0..n -> Byte] : Steps(r, n, Zero, G)
  BY <1>1, <1>10, Recursion
<1>4. \A i \in 1..n : r[i] = r[i - 1] ^^ a[i]
  <2> TAKE i \in 1..n
  <2>1. i - 1 \in 0..n
    OBVIOUS
  <2>2. r[i - 1] \in Byte
    BY <2>1
  <2> QED
    BY <1>2, <1>3, <2>2 DEF Steps
<1>5. r = SumRow(a, n, r)
  <2>1. \A i \in 0..n : r[i] = IF i = 0 THEN Zero ELSE r[i - 1] ^^ a[i]
    BY <1>3, <1>4 DEF Steps
  <2> QED
    BY <2>1 DEF SumRow
<1> DEFINE s == Sums(a, n)
<1>6. s = SumRow(a, n, s)
  BY <1>5, Zenon DEF Sums
<1> HIDE DEF s
<1>7. s[0] = Zero /\ \A i \in 1..n : s[i] = s[i - 1] ^^ a[i]
  <2>1. \A i \in 0..n : s[i] = IF i = 0 THEN Zero ELSE s[i - 1] ^^ a[i]
    BY <1>6 DEF SumRow
  <2>2. 0 \in 0..n /\ \A i \in 1..n : i \in 0..n /\ i # 0
    OBVIOUS
  <2> QED
    BY <2>1, <2>2
<1>8. \A i \in 0..n : s[i] \in Byte
  <2> DEFINE S == {i \in 0..n : s[i] \in Byte}
  <2>1. 0 \in S
    BY <1>7, <1>10
  <2>2. ASSUME NEW i \in 0..(n - 1), i \in S PROVE i + 1 \in S
    <3>1. i + 1 \in 1..n /\ (i + 1) - 1 = i
      OBVIOUS
    <3>2. s[i + 1] = s[i] ^^ a[i + 1] /\ a[i + 1] \in Byte /\ s[i] \in Byte
      BY <1>7, <2>2, <3>1
    <3>3. s[i + 1] \in Byte
      BY <3>2, SumLaws
    <3> QED
      BY <3>1, <3>3
  <2> HIDE DEF S
  <2>3. 0..n \subseteq S
    BY <2>1, <2>2, UpTo
  <2> QED
    BY <2>3 DEF S
<1>9. s \in [0..n -> Byte]
  BY <1>6, <1>8 DEF SumRow
<1> QED
  BY <1>6, <1>7, <1>9 DEF s

Series(n) == [1..n -> Byte]
Combines(a, b, d, c, z, k) == \A i \in 1..k : a[i] = gfMul(c, b[i]) ^^ gfMul(z, d[i])

\* A sum of linear combinations is the combination of the sums.
LEMMA SumsLinear ==
    ASSUME NEW n \in Nat, NEW k \in 0..n, NEW c \in Byte, NEW z \in Byte,
           NEW a \in Series(n), NEW b \in Series(n), NEW d \in Series(n),
           Combines(a, b, d, c, z, k)
    PROVE  Sums(a, n)[k] = gfMul(c, Sums(b, n)[k]) ^^ gfMul(z, Sums(d, n)[k])
<1> DEFINE A == Sums(a, n)
           B == Sums(b, n)
           D == Sums(d, n)
           S == {i \in 0..k : A[i] = gfMul(c, B[i]) ^^ gfMul(z, D[i])}
<1>1. /\ A \in [0..n -> Byte] /\ A[0] = Zero /\ \A i \in 1..n : A[i] = A[i - 1] ^^ a[i]
      /\ B \in [0..n -> Byte] /\ B[0] = Zero /\ \A i \in 1..n : B[i] = B[i - 1] ^^ b[i]
      /\ D \in [0..n -> Byte] /\ D[0] = Zero /\ \A i \in 1..n : D[i] = D[i - 1] ^^ d[i]
  BY SumsAre DEF Series
<1> HIDE DEF A, B, D
<1>2. 0 \in S
  <2>1. gfMul(c, Zero) = Zero /\ gfMul(z, Zero) = Zero /\ Zero ^^ Zero = Zero
    BY FieldLaws, Cancels
  <2> QED
    BY <1>1, <2>1
<1>3. ASSUME NEW i \in 0..(k - 1), i \in S PROVE i + 1 \in S
  <2>1. i + 1 \in 1..n /\ i + 1 \in 1..k /\ (i + 1) - 1 = i /\ i \in 0..n
    OBVIOUS
  <2>2. /\ A[i + 1] = A[i] ^^ a[i + 1] /\ B[i + 1] = B[i] ^^ b[i + 1] /\ D[i + 1] = D[i] ^^ d[i + 1]
        /\ B[i] \in Byte /\ D[i] \in Byte /\ b[i + 1] \in Byte /\ d[i + 1] \in Byte
    BY <1>1, <2>1 DEF Series
  <2>3. gfMul(c, B[i + 1]) = gfMul(c, B[i]) ^^ gfMul(c, b[i + 1])
    BY <2>2, Distributes
  <2>4. gfMul(z, D[i + 1]) = gfMul(z, D[i]) ^^ gfMul(z, d[i + 1])
    BY <2>2, Distributes
  <2>5. A[i] = gfMul(c, B[i]) ^^ gfMul(z, D[i])
    BY <1>3
  <2>6. a[i + 1] = gfMul(c, b[i + 1]) ^^ gfMul(z, d[i + 1])
    BY <2>1 DEF Combines
  <2>7. \A p, q, r, s : (p ^^ q) ^^ (r ^^ s) = (p ^^ r) ^^ (q ^^ s)
    BY DEF ^^
  <2>8. A[i + 1] = gfMul(c, B[i + 1]) ^^ gfMul(z, D[i + 1])
    BY <2>2, <2>3, <2>4, <2>5, <2>6, <2>7
  <2> QED
    BY <2>1, <2>8
<1> HIDE DEF S
<1>4. 0..k \subseteq S
  <2>1. k \in Nat
    OBVIOUS
  <2> QED
    BY <1>2, <1>3, <2>1, UpTo
<1>5. k \in S
  BY <1>4
<1> QED
  BY <1>5 DEF S, A, B, D

-----------------------------------------------------------------------------
(* Polynomials by their degree, without their coefficients: one below degree *)
(* k + 1 leaves, divided by x - z, one below degree k and its value at z.    *)

Divides(f, F) ==
    \A z \in Byte : \E h \in F : \A y \in Byte : f[y] = f[z] ^^ gfMul(y ^^ z, h[y])

ByDegree(P, n) ==
    /\ P \in [0..n -> SUBSET [Byte -> Byte]]
    /\ P[0] = {[y \in Byte |-> Zero]}
    /\ \A k \in 1..n : P[k] = {f \in [Byte -> Byte] : Divides(f, P[k - 1])}

\* The classes exist, up to any degree.
LEMMA ByDegreeExists == ASSUME NEW n \in Nat PROVE \E P : ByDegree(P, n)
<1> DEFINE V == SUBSET [Byte -> Byte]
           Up(F) == {f \in [Byte -> Byte] : Divides(f, F)}
           G == [p \in (1..n) \X V |-> Up(p[2])]
           zero == [y \in Byte |-> Zero]
<1>1. G \in [(1..n) \X V -> V]
  OBVIOUS
<1>2. \A i \in 1..n : \A F \in V : G[<<i, F>>] = Up(F)
  <2> HIDE DEF Up, V
  <2> QED
    OBVIOUS
<1>3. {zero} \in V
  BY FieldLaws
<1> HIDE DEF G, V, zero
<1>4. PICK r \in [0..n -> V] : Steps(r, n, {zero}, G)
  BY <1>1, <1>3, Recursion
<1>5. \A i \in 1..n : r[i] = Up(r[i - 1])
  <2> TAKE i \in 1..n
  <2>1. i - 1 \in 0..n
    OBVIOUS
  <2>2. r[i - 1] \in V
    BY <2>1
  <2> QED
    BY <1>2, <1>4, <2>2 DEF Steps
<1> QED
  BY <1>4, <1>5 DEF V, zero, ByDegree, Steps

\* Times (x + a), plus c: one degree more.  This is a step of Horner's rule, and
\* it is the factor that vanishes at a.
LEMMA DividedProduct ==
    ASSUME NEW a \in Byte, NEW c \in Byte, NEW y \in Byte, NEW z \in Byte,
           NEW p \in Byte, NEW q \in Byte
    PROVE  gfMul(y ^^ a, p ^^ gfMul(y ^^ z, q)) ^^ c =
              (gfMul(z ^^ a, p) ^^ c) ^^ gfMul(y ^^ z, gfMul(y ^^ a, q) ^^ p)
<1> DEFINE s == y ^^ a
           t == y ^^ z
<1>1. s \in Byte /\ t \in Byte
  BY FieldLaws
<1>2. z ^^ a = s ^^ t
  BY DEF ^^
<1> HIDE DEF s, t
<1>3. gfMul(t, q) \in Byte /\ gfMul(s, q) \in Byte
  BY <1>1, FieldLaws
<1>4. gfMul(s, p ^^ gfMul(t, q)) = gfMul(s, p) ^^ gfMul(s, gfMul(t, q))
  BY <1>1, <1>3, Distributes
<1>5. gfMul(s ^^ t, p) = gfMul(s, p) ^^ gfMul(t, p)
  BY <1>1, Distributes
<1>6. gfMul(t, gfMul(s, q) ^^ p) = gfMul(t, gfMul(s, q)) ^^ gfMul(t, p)
  BY <1>1, <1>3, Distributes
<1>7. gfMul(s, gfMul(t, q)) = gfMul(t, gfMul(s, q))
  <2>1. gfMul(s, gfMul(t, q)) = gfMul(gfMul(s, t), q)
    BY <1>1, FieldLaws
  <2>2. gfMul(t, gfMul(s, q)) = gfMul(gfMul(t, s), q)
    BY <1>1, FieldLaws
  <2>3. gfMul(s, t) = gfMul(t, s)
    BY <1>1, FieldLaws
  <2> QED
    BY <2>1, <2>2, <2>3
<1>8. \A u, v, w : (u ^^ w) ^^ c = ((u ^^ v) ^^ c) ^^ (w ^^ v)
  BY DEF ^^
<1>9. gfMul(s, p ^^ gfMul(t, q)) ^^ c = (gfMul(s ^^ t, p) ^^ c) ^^ gfMul(t, gfMul(s, q) ^^ p)
  BY <1>4, <1>5, <1>6, <1>7, <1>8
<1> QED
  BY <1>2, <1>9 DEF s, t

TimesPlus(f, a, c) == [y \in Byte |-> gfMul(y ^^ a, f[y]) ^^ c]
Raises(F, H) == \A f \in F : \A a, c \in Byte : TimesPlus(f, a, c) \in H

\* Times (x + a), plus c: from every class into the next.
LEMMA DegreeRises ==
    ASSUME NEW n \in Nat, NEW P, ByDegree(P, n)
    PROVE  \A k \in 0..(n - 1) : Raises(P[k], P[k + 1])
<1> DEFINE S == {k \in 0..(n - 1) : Raises(P[k], P[k + 1])}
           zero == [y \in Byte |-> Zero]
<1>0. /\ P \in [0..n -> SUBSET [Byte -> Byte]] /\ P[0] = {zero}
      /\ \A k \in 0..(n - 1) : P[k + 1] = {f \in [Byte -> Byte] : Divides(f, P[k])}
  <2>1. \A k \in 0..(n - 1) : k + 1 \in 1..n /\ (k + 1) - 1 = k
    OBVIOUS
  <2> QED
    BY <2>1 DEF ByDegree
<1>1. \A f \in [Byte -> Byte] : \A a, c \in Byte : TimesPlus(f, a, c) \in [Byte -> Byte]
  <2> SUFFICES ASSUME NEW f \in [Byte -> Byte], NEW a \in Byte, NEW c \in Byte
               PROVE  TimesPlus(f, a, c) \in [Byte -> Byte]
    OBVIOUS
  <2>1. \A y \in Byte : gfMul(y ^^ a, f[y]) ^^ c \in Byte
    BY FieldLaws
  <2> QED
    BY <2>1 DEF TimesPlus
<1>2. ASSUME 0 \in 0..(n - 1) PROVE 0 \in S
  <2> SUFFICES ASSUME NEW a \in Byte, NEW c \in Byte
               PROVE  TimesPlus(zero, a, c) \in P[1]
    BY <1>0, <1>2 DEF Raises
  <2>1. zero \in [Byte -> Byte] /\ \A y \in Byte : zero[y] = Zero
    BY FieldLaws
  <2> DEFINE g == TimesPlus(zero, a, c)
  <2> HIDE DEF zero
  <2>2. \A y \in Byte : g[y] = c
    <3> SUFFICES ASSUME NEW y \in Byte PROVE gfMul(y ^^ a, zero[y]) ^^ c = c
      BY DEF TimesPlus
    <3>1. y ^^ a \in Byte
      BY FieldLaws
    <3>2. gfMul(y ^^ a, Zero) = Zero
      BY <3>1, FieldLaws
    <3> QED
      BY <2>1, <3>2, Cancels
  <2>3. g \in [Byte -> Byte]
    BY <1>1, <2>1
  <2> HIDE DEF g
  <2>4. \A z \in Byte : \A y \in Byte : g[y] = g[z] ^^ gfMul(y ^^ z, zero[y])
    <3> SUFFICES ASSUME NEW z \in Byte, NEW y \in Byte
                 PROVE  g[y] = g[z] ^^ gfMul(y ^^ z, zero[y])
      OBVIOUS
    <3>1. y ^^ z \in Byte
      BY FieldLaws
    <3>2. gfMul(y ^^ z, Zero) = Zero
      BY <3>1, FieldLaws
    <3> QED
      BY <2>1, <2>2, <3>2, Cancels
  <2>5. Divides(g, P[0])
    BY <1>0, <2>4 DEF Divides
  <2>6. P[0 + 1] = {f \in [Byte -> Byte] : Divides(f, P[0])}
    BY <1>0, <1>2
  <2>7. g \in P[0 + 1]
    BY <2>3, <2>5, <2>6
  <2>8. 0 + 1 = 1
    OBVIOUS
  <2> QED
    BY <2>7, <2>8 DEF g
<1>3. ASSUME NEW k \in 0..(n - 2), k \in S PROVE k + 1 \in S
  <2>1. k \in 0..(n - 1) /\ k + 1 \in 0..(n - 1) /\ k \in 0..n /\ k + 1 \in 0..n
    OBVIOUS
  <2> SUFFICES ASSUME NEW f \in P[k + 1], NEW a \in Byte, NEW c \in Byte
               PROVE  TimesPlus(f, a, c) \in P[(k + 1) + 1]
    BY <2>1 DEF Raises
  <2>2. f \in [Byte -> Byte] /\ Divides(f, P[k])
    BY <1>0, <2>1
  <2> DEFINE g == TimesPlus(f, a, c)
  <2>3. g \in [Byte -> Byte] /\ \A y \in Byte : g[y] = gfMul(y ^^ a, f[y]) ^^ c
    BY <1>1, <2>2 DEF TimesPlus
  <2> HIDE DEF g
  <2>4. ASSUME NEW z \in Byte
        PROVE  \E h \in P[k + 1] : \A y \in Byte : g[y] = g[z] ^^ gfMul(y ^^ z, h[y])
    <3>1. PICK h \in P[k] : \A y \in Byte : f[y] = f[z] ^^ gfMul(y ^^ z, h[y])
      BY <2>2 DEF Divides
    <3>2. h \in [Byte -> Byte] /\ f[z] \in Byte
      BY <1>0, <2>1, <2>2
    <3> DEFINE i == TimesPlus(h, a, f[z])
    <3>3. i \in P[k + 1]
      BY <1>3, <3>2 DEF Raises
    <3>4. \A y \in Byte : i[y] = gfMul(y ^^ a, h[y]) ^^ f[z]
      BY DEF TimesPlus
    <3> HIDE DEF i
    <3>5. ASSUME NEW y \in Byte PROVE g[y] = g[z] ^^ gfMul(y ^^ z, i[y])
      <4>1. h[y] \in Byte
        BY <3>2
      <4>2. gfMul(y ^^ a, f[z] ^^ gfMul(y ^^ z, h[y])) ^^ c =
              (gfMul(z ^^ a, f[z]) ^^ c) ^^ gfMul(y ^^ z, gfMul(y ^^ a, h[y]) ^^ f[z])
        <5> DEFINE p == f[z]
                   q == h[y]
        <5>1. p \in Byte /\ q \in Byte
          BY <3>2, <4>1
        <5> HIDE DEF p, q
        <5>2. gfMul(y ^^ a, p ^^ gfMul(y ^^ z, q)) ^^ c =
                (gfMul(z ^^ a, p) ^^ c) ^^ gfMul(y ^^ z, gfMul(y ^^ a, q) ^^ p)
          BY <5>1, DividedProduct
        <5> QED
          BY <5>2 DEF p, q
      <4>3. f[y] = f[z] ^^ gfMul(y ^^ z, h[y])
        BY <3>1
      <4>4. g[y] = gfMul(y ^^ a, f[y]) ^^ c /\ g[z] = gfMul(z ^^ a, f[z]) ^^ c
        BY <2>3
      <4> QED
        BY <3>4, <4>2, <4>3, <4>4
    <3> QED
      BY <3>3, <3>5
  <2>5. Divides(g, P[k + 1])
    BY <2>4 DEF Divides
  <2> QED
    BY <1>0, <2>1, <2>3, <2>5 DEF g
<1> HIDE DEF S
<1>4. CASE n = 0
  BY <1>4
<1>5. CASE n # 0
  <2>1. n - 1 \in Nat /\ 0 \in 0..(n - 1) /\ (n - 1) - 1 = n - 2
    BY <1>5
  <2>2. 0 \in S
    BY <1>2, <2>1
  <2>3. 0..(n - 1) \subseteq S
    <3> DEFINE m == n - 1
    <3>1. m \in Nat /\ \A k \in 0..(m - 1) : k \in S => k + 1 \in S
      BY <1>3, <2>1
    <3> HIDE DEF m
    <3>2. 0..m \subseteq S
      BY <2>2, <3>1, UpTo
    <3> QED
      BY <3>2 DEF m
  <2> QED
    BY <2>3 DEF S
<1> QED
  BY <1>4, <1>5

\* What is below a degree is below the next one.
LEMMA DegreesInclude ==
    ASSUME NEW n \in Nat, NEW P, ByDegree(P, n), NEW m \in 0..n
    PROVE  \A k \in m..n : P[m] \subseteq P[k]
<1> DEFINE S == {k \in 0..n : k < n => P[k] \subseteq P[k + 1]}
<1>0. /\ P \in [0..n -> SUBSET [Byte -> Byte]] /\ P[0] = {[y \in Byte |-> Zero]}
      /\ \A k \in 0..(n - 1) : P[k + 1] = {f \in [Byte -> Byte] : Divides(f, P[k])}
  <2>1. \A k \in 0..(n - 1) : k + 1 \in 1..n /\ (k + 1) - 1 = k
    OBVIOUS
  <2> QED
    BY <2>1 DEF ByDegree
<1>1. 0 \in S
  <2> SUFFICES ASSUME 0 < n PROVE P[0] \subseteq P[1]
    OBVIOUS
  <2> DEFINE zero == [y \in Byte |-> Zero]
  <2>1. zero \in [Byte -> Byte] /\ \A y \in Byte : zero[y] = Zero
    BY FieldLaws
  <2> HIDE DEF zero
  <2>2. \A z, y \in Byte : zero[y] = zero[z] ^^ gfMul(y ^^ z, zero[y])
    <3> SUFFICES ASSUME NEW z \in Byte, NEW y \in Byte
                 PROVE  zero[y] = zero[z] ^^ gfMul(y ^^ z, zero[y])
      OBVIOUS
    <3>1. y ^^ z \in Byte
      BY FieldLaws
    <3>2. gfMul(y ^^ z, Zero) = Zero
      BY <3>1, FieldLaws
    <3> QED
      BY <2>1, <3>2, Cancels
  <2>3. P[0] = {zero}
    BY <1>0 DEF zero
  <2>4. Divides(zero, P[0])
    BY <2>2, <2>3 DEF Divides
  <2>5. 0 \in 0..(n - 1) /\ 0 + 1 = 1
    OBVIOUS
  <2>6. zero \in P[1]
    BY <1>0, <2>1, <2>4, <2>5
  <2> QED
    BY <2>3, <2>6
<1>2. ASSUME NEW k \in 0..(n - 1), k \in S PROVE k + 1 \in S
  <2> SUFFICES ASSUME k + 1 < n PROVE P[k + 1] \subseteq P[(k + 1) + 1]
    OBVIOUS
  <2>1. P[k] \subseteq P[k + 1] /\ k \in 0..(n - 1) /\ k + 1 \in 0..(n - 1)
    BY <1>2
  <2>2. \A f : Divides(f, P[k]) => Divides(f, P[k + 1])
    BY <2>1 DEF Divides
  <2> QED
    BY <1>0, <2>1, <2>2
<1> HIDE DEF S
<1>3. 0..n \subseteq S
  BY <1>1, <1>2, UpTo
<1>4. \A k \in 0..n : k < n => P[k] \subseteq P[k + 1]
  BY <1>3 DEF S
<1> DEFINE T == {j \in 0..(n - m) : P[m] \subseteq P[m + j]}
<1>5. 0 \in T
  OBVIOUS
<1>6. ASSUME NEW j \in 0..((n - m) - 1), j \in T PROVE j + 1 \in T
  <2>1. m + j \in 0..n /\ m + j < n /\ (m + j) + 1 = m + (j + 1) /\ j + 1 \in 0..(n - m)
    OBVIOUS
  <2>2. P[m + j] \subseteq P[m + (j + 1)]
    BY <1>4, <2>1
  <2> QED
    BY <1>6, <2>1, <2>2
<1> HIDE DEF T
<1>7. 0..(n - m) \subseteq T
  <2>1. n - m \in Nat
    OBVIOUS
  <2> DEFINE d == n - m
  <2>2. d \in Nat /\ \A j \in 0..(d - 1) : j \in T => j + 1 \in T
    BY <1>6, <2>1
  <2> HIDE DEF d
  <2>3. 0..d \subseteq T
    BY <1>5, <2>2, UpTo
  <2> QED
    BY <2>3 DEF d
<1> QED
  <2> SUFFICES ASSUME NEW k \in m..n PROVE P[m] \subseteq P[k]
    OBVIOUS
  <2>1. k - m \in 0..(n - m) /\ m + (k - m) = k
    OBVIOUS
  <2>2. k - m \in T
    BY <1>7, <2>1
  <2> QED
    BY <2>1, <2>2 DEF T

\* Horner's rule makes a polynomial with as many coefficients as its degree may
\* have powers, and at zero it is the first of them.
LEMMA HornerByDegree ==
    ASSUME NEW n \in Nat, NEW P, ByDegree(P, n), NEW coeffs, Len(coeffs) \in 1..n, NEW b,
           \A c \in 1..Len(coeffs) : coeffs[c][b] \in Byte
    PROVE  /\ [y \in Byte |-> PolynomialAt(coeffs, b, y)] \in P[Len(coeffs)]
           /\ PolynomialAt(coeffs, b, Zero) = coeffs[1][b]
<1> DEFINE m == Len(coeffs)
           r(y) == CHOOSE q : q = HornerRow(coeffs, b, y, q)
           F(j) == [y \in Byte |-> r(y)[m + 1 - j]]
           S == {j \in 0..m : F(j) \in P[j]}
<1>0. m \in Nat /\ m \in 1..n /\ m <= n
  OBVIOUS
<1>1. \A y : PolynomialAt(coeffs, b, y) = r(y)[1]
  BY Zenon DEF PolynomialAt, HornerRow
<1>2. \A y : r(y) = HornerRow(coeffs, b, y, r(y))
  <2> TAKE y
  <2>1. \E q : q = HornerRow(coeffs, b, y, q)
    BY <1>0, HornerDefined
  <2> QED
    BY <2>1, Zenon
<1> HIDE DEF r
<1>3. \A y : \A c \in 1..(m + 1) :
          r(y)[c] = IF c > m THEN Zero ELSE gfMul(r(y)[c + 1], y) ^^ coeffs[c][b]
  <2> TAKE y
  <2> DEFINE q == r(y)
  <2>1. q = HornerRow(coeffs, b, y, q)
    BY <1>2
  <2> HIDE DEF q
  <2>2. \A c \in 1..(m + 1) : q[c] = IF c > m THEN Zero ELSE gfMul(q[c + 1], y) ^^ coeffs[c][b]
    BY <2>1 DEF HornerRow
  <2> QED
    BY <2>2 DEF q
<1> HIDE DEF m
<1>4. 0 \in S
  <2>1. F(0) = [y \in Byte |-> Zero]
    BY <1>0, <1>3
  <2> QED
    BY <1>0, <2>1 DEF ByDegree
<1>5. ASSUME NEW j \in 0..(m - 1), j \in S PROVE j + 1 \in S
  <2> DEFINE c == m - j
             a == coeffs[c][b]
  <2>1. c \in 1..m /\ c \in 1..(m + 1) /\ ~(c > m) /\ c + 1 = m + 1 - j /\ c = m + 1 - (j + 1)
    BY <1>0
  <2>2. a \in Byte
    BY <2>1 DEF m
  <2>3. F(j) \in P[j] /\ j \in 0..(n - 1) /\ j \in 0..n
    BY <1>0, <1>5
  <2>4. F(j) \in [Byte -> Byte]
    BY <2>3 DEF ByDegree
  <2>5. \A y \in Byte : F(j)[y] = r(y)[c + 1] /\ F(j + 1)[y] = r(y)[c]
    BY <2>1
  <2>6. TimesPlus(F(j), Zero, a) \in P[j + 1]
    BY <2>2, <2>3, DegreeRises, FieldLaws DEF Raises
  <2>7. \A y \in Byte : F(j + 1)[y] = TimesPlus(F(j), Zero, a)[y]
    <3> TAKE y \in Byte
    <3>1. r(y)[c] = gfMul(r(y)[c + 1], y) ^^ a
      BY <1>3, <2>1
    <3>2. y ^^ Zero = y
      BY Cancels
    <3>3. TimesPlus(F(j), Zero, a)[y] = gfMul(y, F(j)[y]) ^^ a
      BY <3>2 DEF TimesPlus
    <3>4. gfMul(y, F(j)[y]) = gfMul(F(j)[y], y)
      <4> DEFINE v == F(j)[y]
      <4>1. v \in Byte
        BY <2>4
      <4> HIDE DEF v
      <4>2. gfMul(y, v) = gfMul(v, y)
        BY <4>1, FieldLaws
      <4> QED
        BY <4>2 DEF v
    <3> HIDE DEF F
    <3> QED
      BY <2>5, <3>1, <3>3, <3>4
  <2>8. F(j + 1) = TimesPlus(F(j), Zero, a)
    BY <2>7 DEF TimesPlus
  <2>9. j + 1 \in 0..m
    BY <1>0
  <2>10. F(j + 1) \in P[j + 1]
    BY <2>6, <2>8
  <2> HIDE DEF F
  <2> QED
    BY <2>9, <2>10
<1>6. m \in S
  <2> HIDE DEF S
  <2>1. 0..m \subseteq S
    BY <1>0, <1>4, <1>5, UpTo
  <2> QED
    BY <1>0, <2>1
<1>7. [y \in Byte |-> PolynomialAt(coeffs, b, y)] \in P[m]
  <2>1. F(m) = [y \in Byte |-> PolynomialAt(coeffs, b, y)]
    BY <1>0, <1>1
  <2> HIDE DEF F
  <2> QED
    BY <1>6, <2>1
<1>8. PolynomialAt(coeffs, b, Zero) = coeffs[1][b]
  <2>1. r(Zero)[1] = gfMul(r(Zero)[2], Zero) ^^ coeffs[1][b]
    BY <1>0, <1>3
  <2>2. r(Zero)[2] \in Byte
    <3>1. 2 \in 1..(m + 1)
      BY <1>0
    <3>2. 2 <= m => coeffs[2][b] \in Byte
      BY <1>0 DEF m
    <3>3. Zero \in Byte /\ \A u : \A v \in Byte : gfMul(u, Zero) ^^ v \in Byte
      BY BytesMade, FieldLaws
    <3>4. r(Zero)[2] = IF 2 > m THEN Zero ELSE gfMul(r(Zero)[2 + 1], Zero) ^^ coeffs[2][b]
      BY <1>3, <3>1
    <3>5. CASE 2 > m
      BY <3>3, <3>4, <3>5
    <3>6. CASE ~(2 > m)
      <4>1. coeffs[2][b] \in Byte
        BY <1>0, <3>2, <3>6
      <4> QED
        BY <3>3, <3>4, <3>6, <4>1
    <3> QED
      BY <3>5, <3>6
  <2>3. gfMul(r(Zero)[2], Zero) = Zero
    BY <2>2, FieldLaws
  <2> QED
    BY <1>1, <2>1, <2>3, Cancels
<1> QED
  BY <1>7, <1>8 DEF m

-----------------------------------------------------------------------------
(* Lagrange interpolation at zero.                                           *)

Different(x, n) == x \in [1..n -> Byte] /\ \A i, j \in 1..n : i # j => x[i] # x[j]

\* Row i: the weight of x_i among the first j of them.
Weights(w, x, n) ==
    /\ w \in [1..n -> [0..n -> Byte]]
    /\ \A i \in 1..n :
          /\ w[i][0] = One
          /\ \A j \in 1..n :
                w[i][j] = IF j = i THEN w[i][j - 1]
                          ELSE gfMul(w[i][j - 1], gfMul(x[j], gfInv(x[i] ^^ x[j])))

Nodes(P, x, w, n) == ByDegree(P, n) /\ Different(x, n) /\ Weights(w, x, n)

\* The next weight: with one node more, every other node's weight grows by a factor.
LEMMA WeightGrows ==
    ASSUME NEW n \in Nat, NEW P, NEW x, NEW w, Nodes(P, x, w, n),
           NEW k \in 0..(n - 1), NEW i \in 1..n, i # k + 1
    PROVE  /\ x[i] \in Byte /\ x[k + 1] \in Byte /\ w[i][k] \in Byte /\ w[i][k + 1] \in Byte
           /\ x[i] ^^ x[k + 1] \in Byte /\ x[i] ^^ x[k + 1] # Zero
           /\ gfInv(x[i] ^^ x[k + 1]) \in Byte
           /\ gfMul(x[i] ^^ x[k + 1], gfInv(x[i] ^^ x[k + 1])) = One
           /\ w[i][k + 1] = gfMul(w[i][k], gfMul(x[k + 1], gfInv(x[i] ^^ x[k + 1])))
<1>1. k + 1 \in 1..n /\ (k + 1) - 1 = k /\ k \in 0..n /\ k + 1 \in 0..n
  OBVIOUS
<1>2. x[i] \in Byte /\ x[k + 1] \in Byte /\ x[i] # x[k + 1]
  BY <1>1 DEF Nodes, Different
<1>3. w[i][k] \in Byte /\ w[i][k + 1] \in Byte
  <2>1. w[i] \in [0..n -> Byte]
    BY DEF Nodes, Weights
  <2> QED
    BY <1>1, <2>1
<1>4. w[i][k + 1] = gfMul(w[i][k], gfMul(x[k + 1], gfInv(x[i] ^^ x[k + 1])))
  BY <1>1 DEF Nodes, Weights
<1> DEFINE t == x[i] ^^ x[k + 1]
<1>5. t \in Byte /\ t # Zero
  <2> DEFINE y == x[i]
             z == x[k + 1]
  <2>1. y \in Byte /\ z \in Byte /\ y # z
    BY <1>2
  <2> HIDE DEF y, z
  <2>2. y ^^ z \in Byte
    BY <2>1, FieldLaws
  <2>3. y ^^ z # Zero
    BY <2>1, Cancels
  <2> QED
    BY <2>2, <2>3 DEF y, z
<1> HIDE DEF t
<1>6. gfInv(t) \in Byte /\ gfMul(t, gfInv(t)) = One
  BY <1>5, FieldLaws
<1> QED
  BY <1>2, <1>3, <1>4, <1>5, <1>6 DEF t

\* The polynomial that is zero at the first k nodes, and what the weight of
\* another one makes of its value there.
Vanishing(g, x, w, m, k) ==
    /\ \A i \in 1..k : g[x[i]] = Zero
    /\ g[x[m]] # Zero
    /\ gfMul(g[x[m]], w[m][k]) = g[Zero]

\* There is such a polynomial, of degree k.
LEMMA VanishingExists ==
    ASSUME NEW n \in Nat, NEW P, NEW x, NEW w, Nodes(P, x, w, n), NEW m \in 1..n
    PROVE  \A k \in 0..(m - 1) : \E g \in P[k + 1] : Vanishing(g, x, w, m, k)
<1> DEFINE S == {k \in 0..(m - 1) : \E g \in P[k + 1] : Vanishing(g, x, w, m, k)}
<1>0. /\ P \in [0..n -> SUBSET [Byte -> Byte]] /\ x \in [1..n -> Byte]
      /\ \A k \in 0..(n - 1) : Raises(P[k], P[k + 1])
  BY DegreeRises DEF Nodes, Different, ByDegree
<1>1. 0 \in S
  <2> DEFINE zero == [y \in Byte |-> Zero]
             g == TimesPlus(zero, Zero, One)
  <2>1. zero \in P[0] /\ 0 \in 0..(n - 1) /\ 0 + 1 = 1
    BY DEF Nodes, ByDegree
  <2>2. g \in P[1]
    BY <1>0, <2>1, FieldLaws DEF Raises
  <2>3. \A y \in Byte : g[y] = One
    <3> TAKE y \in Byte
    <3>1. y ^^ Zero = y /\ gfMul(y, Zero) = Zero /\ Zero ^^ One = One
      BY Cancels, FieldLaws
    <3> QED
      BY <3>1 DEF TimesPlus
  <2> HIDE DEF g
  <2>4. x[m] \in Byte /\ w[m][0] = One /\ Zero \in Byte /\ One # Zero /\ gfMul(One, One) = One
    BY <1>0, FieldLaws DEF Nodes, Weights
  <2>5. Vanishing(g, x, w, m, 0)
    BY <2>3, <2>4 DEF Vanishing
  <2> QED
    BY <2>1, <2>2, <2>5
<1>2. ASSUME NEW k \in 0..((m - 1) - 1), k \in S PROVE k + 1 \in S
  <2>1. PICK g \in P[k + 1] : Vanishing(g, x, w, m, k)
    BY <1>2
  <2>2. /\ k + 1 \in 0..(m - 1) /\ k \in 0..(n - 1) /\ k + 1 \in 0..(n - 1) /\ k + 1 \in 0..n
        /\ k + 1 \in 1..n /\ m # k + 1
    OBVIOUS
  <2> DEFINE z == x[k + 1]
             t == x[m] ^^ z
             f == TimesPlus(g, z, Zero)
  <2>3. z \in Byte /\ g \in [Byte -> Byte]
    BY <1>0, <2>2
  <2>4. f \in P[(k + 1) + 1]
    BY <1>0, <2>2, <2>3, FieldLaws DEF Raises
  <2>5. \A y \in Byte : f[y] = gfMul(y ^^ z, g[y])
    BY Cancels DEF TimesPlus
  <2> HIDE DEF f
  <2>6. /\ x[m] \in Byte /\ w[m][k] \in Byte /\ t \in Byte /\ t # Zero /\ gfInv(t) \in Byte
        /\ gfMul(t, gfInv(t)) = One /\ w[m][k + 1] = gfMul(w[m][k], gfMul(z, gfInv(t)))
    BY <2>2, WeightGrows
  <2>7. ASSUME NEW i \in 1..(k + 1) PROVE f[x[i]] = Zero
    <3>1. i \in 1..n /\ x[i] \in Byte
      BY <1>0, <2>2
    <3>2. CASE i = k + 1
      <4>1. g[z] \in Byte /\ z ^^ z = Zero
        BY <2>3, Cancels
      <4>2. gfMul(Zero, g[z]) = Zero
        BY <4>1, FieldLaws
      <4> QED
        BY <2>3, <2>5, <3>2, <4>1, <4>2
    <3>3. CASE i # k + 1
      <4>1. g[x[i]] = Zero /\ x[i] ^^ z \in Byte
        <5>1. i \in 1..k
          BY <3>3
        <5>2. g[x[i]] = Zero
          BY <2>1, <5>1 DEF Vanishing
        <5> QED
          BY <2>3, <3>1, <5>2, FieldLaws
      <4>2. gfMul(x[i] ^^ z, Zero) = Zero
        BY <4>1, FieldLaws
      <4> QED
        BY <2>5, <3>1, <4>1, <4>2
    <3> QED
      BY <3>2, <3>3
  <2>8. f[x[m]] # Zero /\ gfMul(f[x[m]], w[m][k + 1]) = f[Zero]
    <3> DEFINE v == g[x[m]]
               i == gfInv(t)
               u == w[m][k]
    <3>1. v \in Byte /\ v # Zero /\ gfMul(v, u) = g[Zero] /\ f[x[m]] = gfMul(t, v)
      BY <2>1, <2>3, <2>5, <2>6 DEF Vanishing
    <3>2. f[Zero] = gfMul(z, g[Zero])
      BY <2>5, FieldLaws, Cancels
    <3>3. u \in Byte /\ i \in Byte /\ gfMul(t, i) = One /\ w[m][k + 1] = gfMul(u, gfMul(z, i))
      BY <2>6
    <3>4. t \in Byte /\ t # Zero
      BY <2>6
    <3> HIDE DEF v, i, u, t, z
    <3>5. gfMul(t, v) # Zero
      BY <3>1, <3>4, FieldLaws
    <3>6. gfMul(gfMul(t, v), gfMul(u, gfMul(z, i))) = gfMul(z, gfMul(v, u))
      BY <2>3, <3>1, <3>3, <3>4, FactorCancels
    <3> QED
      BY <3>1, <3>2, <3>3, <3>5, <3>6
  <2>9. Vanishing(f, x, w, m, k + 1)
    BY <2>7, <2>8 DEF Vanishing
  <2> QED
    BY <2>2, <2>4, <2>9
<1> HIDE DEF S
<1>3. 0..(m - 1) \subseteq S
  <2> DEFINE l == m - 1
  <2>1. l \in Nat /\ \A k \in 0..(l - 1) : k \in S => k + 1 \in S
    BY <1>2
  <2> HIDE DEF l
  <2>2. 0..l \subseteq S
    BY <1>1, <2>1, UpTo
  <2> QED
    BY <2>2 DEF l
<1> QED
  BY <1>3 DEF S

Terms(f, x, w, n, k) == [i \in 1..n |-> gfMul(f[x[i]], w[i][k])]
WeightsOf(w, n, k) == [i \in 1..n |-> w[i][k]]
Interpolates(F, x, w, n, k) == \A f \in F : Sums(Terms(f, x, w, n, k), n)[k] = f[Zero]

\* With one node more, the interpolation is the value at that node times the sum
\* of the weights, and the node times the quotient's interpolation.
LEMMA OneNodeMore ==
    ASSUME NEW n \in Nat, NEW P, NEW x, NEW w, Nodes(P, x, w, n), NEW k \in 0..(n - 1),
           Interpolates(P[k], x, w, n, k),
           NEW f \in [Byte -> Byte], NEW h \in P[k],
           \A y \in Byte : f[y] = f[x[k + 1]] ^^ gfMul(y ^^ x[k + 1], h[y])
    PROVE  /\ Sums(Terms(f, x, w, n, k + 1), n)[k + 1] =
                 gfMul(f[x[k + 1]], Sums(WeightsOf(w, n, k + 1), n)[k + 1])
                 ^^ gfMul(x[k + 1], h[Zero])
           /\ f[Zero] = f[x[k + 1]] ^^ gfMul(x[k + 1], h[Zero])
           /\ f[x[k + 1]] \in Byte /\ gfMul(x[k + 1], h[Zero]) \in Byte
           /\ Sums(WeightsOf(w, n, k + 1), n)[k + 1] \in Byte
<1> DEFINE z == x[k + 1]
           c == f[z]
           a == Terms(f, x, w, n, k + 1)
           b == WeightsOf(w, n, k + 1)
           d == Terms(h, x, w, n, k)
<1>1. /\ k + 1 \in 1..n /\ k \in 0..n /\ k + 1 \in 0..n /\ (k + 1) - 1 = k
      /\ \A i \in 1..k : i \in 1..n /\ i # k + 1
  OBVIOUS
<1>2. /\ x \in [1..n -> Byte] /\ P[k] \in SUBSET [Byte -> Byte]
      /\ \A i \in 1..n : \A j \in 0..n : w[i][j] \in Byte
  <2>1. \A i \in 1..n : w[i] \in [0..n -> Byte]
    BY DEF Nodes, Weights
  <2> QED
    BY <1>1, <2>1 DEF Nodes, Different, ByDegree
<1>3. z \in Byte /\ c \in Byte /\ h \in [Byte -> Byte] /\ Zero \in Byte
  BY <1>1, <1>2, FieldLaws
<1>4. a \in [1..n -> Byte] /\ b \in [1..n -> Byte] /\ d \in [1..n -> Byte]
  <2>1. \A i \in 1..n : /\ f[x[i]] \in Byte /\ h[x[i]] \in Byte
                        /\ w[i][k + 1] \in Byte /\ w[i][k] \in Byte
    BY <1>1, <1>2, <1>3
  <2>2. \A i \in 1..n : gfMul(f[x[i]], w[i][k + 1]) \in Byte /\ gfMul(h[x[i]], w[i][k]) \in Byte
    BY <2>1, BytesMade
  <2> QED
    BY <2>1, <2>2 DEF Terms, WeightsOf
<1>5. ASSUME NEW i \in 1..k
      PROVE  a[i] = gfMul(c, b[i]) ^^ gfMul(z, d[i])
  <2> DEFINE y == x[i]
             t == y ^^ z
             u == w[i][k]
             v == w[i][k + 1]
             q == h[y]
             j == gfInv(t)
  <2>1. i \in 1..n /\ i # k + 1
    OBVIOUS
  <2>2. /\ y \in Byte /\ u \in Byte /\ v \in Byte /\ t \in Byte /\ j \in Byte
        /\ gfMul(t, j) = One /\ v = gfMul(u, gfMul(z, j))
    BY <2>1, WeightGrows
  <2>3. q \in Byte /\ f[y] = c ^^ gfMul(t, q)
    BY <1>3, <2>2
  <2>4. a[i] = gfMul(f[y], v) /\ b[i] = v /\ d[i] = gfMul(q, u)
    BY <2>1 DEF Terms, WeightsOf
  <2> HIDE DEF y, t, u, v, q, j, a, b, d, c, z
  <2>5. gfMul(t, q) \in Byte
    BY <2>2, <2>3, FieldLaws
  <2>6. gfMul(c ^^ gfMul(t, q), v) = gfMul(c, v) ^^ gfMul(gfMul(t, q), v)
    BY <1>3, <2>2, <2>5, Distributes
  <2>7. gfMul(gfMul(t, q), gfMul(u, gfMul(z, j))) = gfMul(z, gfMul(q, u))
    BY <1>3, <2>2, <2>3, FactorCancels
  <2> QED
    BY <2>2, <2>3, <2>4, <2>6, <2>7
<1>6. Sums(a, n)[k] = gfMul(c, Sums(b, n)[k]) ^^ gfMul(z, Sums(d, n)[k])
  <2> HIDE DEF a, b, c, d, z
  <2>1. Combines(a, b, d, c, z, k)
    BY <1>5 DEF Combines
  <2>2. k \in 0..n /\ c \in Byte /\ z \in Byte
    BY <1>1, <1>3
  <2>3. a \in Series(n) /\ b \in Series(n) /\ d \in Series(n)
    BY <1>4 DEF Series
  <2> QED
    BY <2>1, <2>2, <2>3, SumsLinear
<1>7. Sums(d, n)[k] = h[Zero]
  BY DEF Interpolates
<1>8. a[k + 1] = gfMul(c, b[k + 1])
  BY <1>1 DEF Terms, WeightsOf
<1>9. /\ Sums(a, n)[k + 1] = Sums(a, n)[k] ^^ a[k + 1]
      /\ Sums(b, n)[k + 1] = Sums(b, n)[k] ^^ b[k + 1]
      /\ Sums(b, n)[k] \in Byte /\ Sums(b, n)[k + 1] \in Byte /\ b[k + 1] \in Byte
  <2> HIDE DEF a, b, d
  <2>1. \A i \in 1..n : Sums(a, n)[i] = Sums(a, n)[i - 1] ^^ a[i]
    BY <1>4, SumsAre
  <2>2. \A i \in 1..n : Sums(b, n)[i] = Sums(b, n)[i - 1] ^^ b[i]
    BY <1>4, SumsAre
  <2>3. Sums(b, n) \in [0..n -> Byte]
    BY <1>4, SumsAre
  <2> QED
    BY <1>1, <1>4, <2>1, <2>2, <2>3
<1>10. gfMul(c, Sums(b, n)[k + 1]) = gfMul(c, Sums(b, n)[k]) ^^ gfMul(c, b[k + 1])
  <2> DEFINE p == Sums(b, n)[k]
             q == b[k + 1]
  <2>1. p \in Byte /\ q \in Byte /\ Sums(b, n)[k + 1] = p ^^ q
    BY <1>9
  <2> HIDE DEF a, b, c, d, z, p, q
  <2>2. gfMul(c, p ^^ q) = gfMul(c, p) ^^ gfMul(c, q)
    BY <1>3, <2>1, Distributes
  <2> QED
    BY <2>1, <2>2 DEF p, q
<1>11. Sums(a, n)[k + 1] = gfMul(c, Sums(b, n)[k + 1]) ^^ gfMul(z, h[Zero])
  <2> HIDE DEF a, b, c, d, z
  <2>1. \A p, q, r : (p ^^ q) ^^ r = (p ^^ r) ^^ q
    BY DEF ^^
  <2> QED
    BY <1>6, <1>7, <1>8, <1>9, <1>10, <2>1
<1>12. f[Zero] = c ^^ gfMul(z, h[Zero])
  <2>1. Zero ^^ z = z
    BY Cancels
  <2> QED
    BY <1>3, <2>1
<1>13. h[Zero] \in Byte /\ gfMul(z, h[Zero]) \in Byte
  BY <1>3, FieldLaws
<1> QED
  BY <1>3, <1>9, <1>11, <1>12, <1>13

\* Through any k different nodes: what the weights make of a polynomial's values
\* there is its value at zero, if its degree is below k.
LEMMA LagrangeAtZero ==
    ASSUME NEW n \in Nat, NEW P, NEW x, NEW w, Nodes(P, x, w, n)
    PROVE  \A k \in 0..n : Interpolates(P[k], x, w, n, k)
<1> DEFINE S == {k \in 0..n : Interpolates(P[k], x, w, n, k)}
<1>0. /\ P \in [0..n -> SUBSET [Byte -> Byte]] /\ P[0] = {[y \in Byte |-> Zero]}
      /\ \A k \in 0..(n - 1) : P[k + 1] = {f \in [Byte -> Byte] : Divides(f, P[k])}
      /\ \A i \in 1..n : x[i] \in Byte
      /\ \A i \in 1..n : \A j \in 0..n : w[i][j] \in Byte
  <2>1. \A k \in 0..(n - 1) : k + 1 \in 1..n /\ (k + 1) - 1 = k
    OBVIOUS
  <2>2. \A i \in 1..n : w[i] \in [0..n -> Byte]
    BY DEF Nodes, Weights
  <2>3. /\ P \in [0..n -> SUBSET [Byte -> Byte]] /\ P[0] = {[y \in Byte |-> Zero]}
        /\ \A k \in 0..(n - 1) : P[k + 1] = {f \in [Byte -> Byte] : Divides(f, P[k])}
    BY <2>1 DEF Nodes, ByDegree
  <2>4. \A i \in 1..n : x[i] \in Byte
    BY DEF Nodes, Different
  <2> QED
    BY <2>2, <2>3, <2>4
<1>1. 0 \in S
  <2> SUFFICES ASSUME NEW f \in P[0] PROVE Sums(Terms(f, x, w, n, 0), n)[0] = f[Zero]
    BY DEF Interpolates
  <2>1. f[Zero] = Zero /\ \A i \in 1..n : f[x[i]] = Zero
    BY <1>0, FieldLaws
  <2> DEFINE a == Terms(f, x, w, n, 0)
  <2>2. a \in [1..n -> Byte]
    <3>1. \A i \in 1..n : gfMul(f[x[i]], w[i][0]) \in Byte
      BY BytesMade
    <3> QED
      BY <3>1 DEF Terms
  <2> HIDE DEF a
  <2>3. Sums(a, n)[0] = Zero
    BY <2>2, SumsAre
  <2> QED
    BY <2>1, <2>3 DEF a
<1>2. ASSUME NEW k \in 0..(n - 1), k \in S PROVE k + 1 \in S
  <2> DEFINE z == x[k + 1]
             one == Sums(WeightsOf(w, n, k + 1), n)[k + 1]
             Made(f) == Sums(Terms(f, x, w, n, k + 1), n)[k + 1]
  <2>1. /\ Interpolates(P[k], x, w, n, k) /\ k + 1 \in 1..n /\ k + 1 \in 0..n
        /\ k \in 0..((k + 1) - 1) /\ (k + 1) - 1 = k /\ k \in 0..n
    BY <1>2
  <2>2. z \in Byte
    BY <1>0, <2>1
  <2>3. ASSUME NEW f \in P[k + 1]
        PROVE  \E v \in Byte : /\ Made(f) = gfMul(f[z], one) ^^ v /\ f[Zero] = f[z] ^^ v
                               /\ f \in [Byte -> Byte] /\ f[z] \in Byte /\ one \in Byte
    <3>1. f \in [Byte -> Byte] /\ Divides(f, P[k])
      BY <1>0
    <3>2. PICK h \in P[k] : \A y \in Byte : f[y] = f[z] ^^ gfMul(y ^^ z, h[y])
      BY <2>2, <3>1 DEF Divides
    <3> DEFINE v == gfMul(z, h[Zero])
    <3>3. /\ Made(f) = gfMul(f[z], one) ^^ v /\ f[Zero] = f[z] ^^ v
          /\ f[z] \in Byte /\ v \in Byte /\ one \in Byte
      BY <2>1, <3>1, <3>2, OneNodeMore
    <3> QED
      BY <3>1, <3>3
  <2>4. one = One
    <3>1. PICK g \in P[k + 1] : Vanishing(g, x, w, k + 1, k)
      BY <2>1, VanishingExists
    <3>2. PICK v \in Byte : /\ Made(g) = gfMul(g[z], one) ^^ v /\ g[Zero] = g[z] ^^ v
                            /\ g \in [Byte -> Byte] /\ g[z] \in Byte /\ one \in Byte
      BY <2>3
    <3>3. Made(g) = g[Zero]
      <4> DEFINE a == Terms(g, x, w, n, k + 1)
      <4>1. \A i \in 1..n : a[i] \in Byte /\ a[i] = gfMul(g[x[i]], w[i][k + 1])
        BY BytesMade DEF Terms
      <4>2. a \in [1..n -> Byte]
        BY <4>1 DEF Terms
      <4>3. a[k + 1] = g[Zero]
        <5>1. w[k + 1][k + 1] = w[k + 1][k]
          BY <2>1 DEF Nodes, Weights
        <5> QED
          BY <2>1, <3>1, <4>1, <5>1 DEF Vanishing
      <4>4. \A i \in 1..k : a[i] = Zero
        <5> TAKE i \in 1..k
        <5>1. i \in 1..n
          BY <2>1
        <5>2. g[x[i]] = Zero /\ w[i][k + 1] \in Byte
          BY <1>0, <2>1, <3>1, <5>1 DEF Vanishing
        <5> QED
          BY <4>1, <5>1, <5>2, FieldLaws
      <4> HIDE DEF a
      <4>5. Combines(a, a, a, Zero, Zero, k)
        <5> SUFFICES ASSUME NEW i \in 1..k
                     PROVE  a[i] = gfMul(Zero, a[i]) ^^ gfMul(Zero, a[i])
          BY DEF Combines
        <5>1. a[i] = Zero
          BY <4>4
        <5> QED
          BY <5>1, FieldLaws, Cancels
      <4>6. Sums(a, n) \in [0..n -> Byte] /\ Sums(a, n)[k + 1] = Sums(a, n)[k] ^^ a[k + 1]
        <5>1. \A i \in 1..n : Sums(a, n)[i] = Sums(a, n)[i - 1] ^^ a[i]
          BY <4>2, SumsAre
        <5>2. Sums(a, n) \in [0..n -> Byte]
          BY <4>2, SumsAre
        <5> QED
          BY <2>1, <5>1, <5>2
      <4>7. Sums(a, n)[k] = Zero
        <5>1. Zero \in Byte
          BY FieldLaws
        <5> DEFINE u == Sums(a, n)[k]
        <5>2. u = gfMul(Zero, u) ^^ gfMul(Zero, u)
          BY <2>1, <4>2, <4>5, <5>1, SumsLinear DEF Series
        <5> HIDE DEF u
        <5>3. u = Zero
          BY <5>2, Cancels
        <5> QED
          BY <5>3 DEF u
      <4>8. Zero ^^ g[Zero] = g[Zero]
        BY Cancels
      <4> QED
        BY <4>3, <4>6, <4>7, <4>8 DEF a
    <3> DEFINE p == g[z]
               o == one
    <3>4. gfMul(p, o) ^^ v = p ^^ v /\ p \in Byte /\ p # Zero /\ o \in Byte
      BY <3>1, <3>2, <3>3 DEF Vanishing
    <3> HIDE DEF p, o
    <3>5. gfMul(p, o) = p
      BY <3>4 DEF ^^
    <3>6. gfMul(p, o ^^ One) = Zero
      <4>1. gfMul(p, o ^^ One) = gfMul(p, o) ^^ gfMul(p, One)
        BY <3>4, FieldLaws, Distributes
      <4>2. gfMul(p, One) = p
        BY <3>4, FieldLaws
      <4> QED
        BY <3>5, <4>1, <4>2, Cancels
    <3>7. o ^^ One \in Byte
      BY <3>4, FieldLaws
    <3>8. o ^^ One = Zero
      BY <3>4, <3>6, <3>7, FieldLaws
    <3> QED
      BY <3>8, Cancels DEF o
  <2>5. ASSUME NEW f \in P[k + 1] PROVE Made(f) = f[Zero]
    <3>1. PICK v \in Byte : /\ Made(f) = gfMul(f[z], one) ^^ v /\ f[Zero] = f[z] ^^ v
                            /\ f \in [Byte -> Byte] /\ f[z] \in Byte /\ one \in Byte
      BY <2>3
    <3>2. gfMul(f[z], One) = f[z]
      BY <3>1, FieldLaws
    <3> QED
      BY <2>4, <3>1, <3>2
  <2>6. Interpolates(P[k + 1], x, w, n, k + 1)
    BY <2>5 DEF Interpolates
  <2> QED
    BY <2>1, <2>6
<1> HIDE DEF S
<1>3. 0..n \subseteq S
  BY <1>1, <1>2, UpTo
<1> QED
  BY <1>3 DEF S

-----------------------------------------------------------------------------
(* The weights and the sums that Interpolated computes.                      *)

\* A product over 1 .. n that leaves out number i.
ProductsBut(r, y, i, n) ==
    /\ r \in [0..n -> Byte]
    /\ r[0] = One
    /\ \A j \in 1..n : r[j] = IF j = i THEN r[j - 1] ELSE gfMul(r[j - 1], y[j])

\* The products exist, whatever is multiplied.
LEMMA ProductsExist ==
    ASSUME NEW n \in Nat, NEW y, NEW i PROVE \E r : ProductsBut(r, y, i, n)
<1> DEFINE G == [p \in (1..n) \X Byte |-> IF p[1] = i THEN p[2] ELSE gfMul(p[2], y[p[1]])]
<1>1. G \in [(1..n) \X Byte -> Byte]
  <2>1. \A p \in (1..n) \X Byte : gfMul(p[2], y[p[1]]) \in Byte
    BY BytesMade
  <2> QED
    BY <2>1
<1>2. \A j \in 1..n : \A b \in Byte : G[<<j, b>>] = IF j = i THEN b ELSE gfMul(b, y[j])
  OBVIOUS
<1>3. One \in Byte
  BY FieldLaws
<1> HIDE DEF G
<1>4. PICK r \in [0..n -> Byte] : Steps(r, n, One, G)
  BY <1>1, <1>3, Recursion
<1>5. \A j \in 1..n : r[j] = IF j = i THEN r[j - 1] ELSE gfMul(r[j - 1], y[j])
  <2> TAKE j \in 1..n
  <2>1. j - 1 \in 0..n
    OBVIOUS
  <2>2. r[j - 1] \in Byte
    BY <2>1
  <2> QED
    BY <1>2, <1>4, <2>2 DEF Steps
<1> QED
  BY <1>4, <1>5 DEF Steps, ProductsBut

NumeratorRow(x, i, k, r) ==
    [j \in 0..k |-> IF j = 0 THEN One ELSE IF j = i THEN r[j - 1] ELSE gfMul(r[j - 1], x[j])]
DenominatorRow(x, i, k, r) ==
    [j \in 0..k |-> IF j = 0 THEN One
                    ELSE IF j = i THEN r[j - 1] ELSE gfMul(r[j - 1], x[i] ^^ x[j])]
Numerators(x, i, k)   == CHOOSE r : r = NumeratorRow(x, i, k, r)
Denominators(x, i, k) == CHOOSE r : r = DenominatorRow(x, i, k, r)

\* A weight is the last numerator over the last denominator.
LEMMA WeightIs ==
    \A x, i, k : Weight(x, i, k) = gfMul(Numerators(x, i, k)[k], gfInv(Denominators(x, i, k)[k]))
BY Zenon DEF Weight, Numerators, Denominators, NumeratorRow, DenominatorRow

\* What is computed like such a product is one.
LEMMA ProductRow ==
    ASSUME NEW n \in Nat, NEW y, NEW i, NEW r,
           \A j \in 0..n : r[j] = IF j = 0 THEN One
                                  ELSE IF j = i THEN r[j - 1] ELSE gfMul(r[j - 1], y[j]),
           r = [j \in 0..n |-> r[j]]
    PROVE  ProductsBut(r, y, i, n)
<1>1. r[0] = One /\ \A j \in 1..n : r[j] = IF j = i THEN r[j - 1] ELSE gfMul(r[j - 1], y[j])
  OBVIOUS
<1> DEFINE S == {j \in 0..n : r[j] \in Byte}
<1>2. 0 \in S
  BY <1>1, FieldLaws
<1>3. ASSUME NEW j \in 0..(n - 1), j \in S PROVE j + 1 \in S
  <2>1. j + 1 \in 1..n /\ (j + 1) - 1 = j /\ r[j] \in Byte
    BY <1>3
  <2>2. r[j + 1] = r[j] \/ r[j + 1] = gfMul(r[j], y[j + 1])
    BY <1>1, <2>1
  <2>3. r[j + 1] \in Byte
    BY <2>1, <2>2, BytesMade
  <2> QED
    BY <2>1, <2>3
<1> HIDE DEF S
<1>4. 0..n \subseteq S
  BY <1>2, <1>3, UpTo
<1>5. \A j \in 0..n : r[j] \in Byte
  BY <1>4 DEF S
<1>6. r \in [0..n -> Byte]
  BY <1>5
<1> QED
  BY <1>1, <1>6 DEF ProductsBut

\* The numerators and the denominators of Weight are such products.
LEMMA NumeratorsAre ==
    ASSUME NEW n \in Nat, NEW x, NEW i PROVE ProductsBut(Numerators(x, i, n), x, i, n)
<1>1. PICK r : ProductsBut(r, x, i, n)
  BY ProductsExist
<1>2. r = NumeratorRow(x, i, n, r)
  <2>1. \A j \in 0..n : r[j] = IF j = 0 THEN One
                               ELSE IF j = i THEN r[j - 1] ELSE gfMul(r[j - 1], x[j])
    BY <1>1 DEF ProductsBut
  <2>2. r = [j \in 0..n |-> r[j]]
    BY <1>1 DEF ProductsBut
  <2> QED
    BY <2>1, <2>2 DEF NumeratorRow
<1> DEFINE q == Numerators(x, i, n)
<1>3. q = NumeratorRow(x, i, n, q)
  BY <1>2, Zenon DEF Numerators
<1> HIDE DEF q
<1>4. /\ \A j \in 0..n : q[j] = IF j = 0 THEN One
                                ELSE IF j = i THEN q[j - 1] ELSE gfMul(q[j - 1], x[j])
      /\ q = [j \in 0..n |-> q[j]]
  BY <1>3 DEF NumeratorRow
<1>5. ProductsBut(q, x, i, n)
  BY <1>4, ProductRow
<1> QED
  BY <1>5 DEF q

LEMMA DenominatorsAre ==
    ASSUME NEW n \in Nat, NEW x, NEW i
    PROVE  ProductsBut(Denominators(x, i, n), [j \in 1..n |-> x[i] ^^ x[j]], i, n)
<1> DEFINE y == [j \in 1..n |-> x[i] ^^ x[j]]
<1>0. \A j \in 1..n : y[j] = x[i] ^^ x[j]
  OBVIOUS
<1> HIDE DEF y
<1>1. PICK r : ProductsBut(r, y, i, n)
  BY ProductsExist
<1>2. r = DenominatorRow(x, i, n, r)
  <2>1. \A j \in 0..n : r[j] = IF j = 0 THEN One
                               ELSE IF j = i THEN r[j - 1] ELSE gfMul(r[j - 1], x[i] ^^ x[j])
    BY <1>0, <1>1 DEF ProductsBut
  <2>2. r = [j \in 0..n |-> r[j]]
    BY <1>1 DEF ProductsBut
  <2> QED
    BY <2>1, <2>2 DEF DenominatorRow
<1> DEFINE q == Denominators(x, i, n)
<1>3. q = DenominatorRow(x, i, n, q)
  BY <1>2, Zenon DEF Denominators
<1> HIDE DEF q
<1>4. /\ \A j \in 0..n : q[j] = IF j = 0 THEN One
                                ELSE IF j = i THEN q[j - 1] ELSE gfMul(q[j - 1], x[i] ^^ x[j])
      /\ q = [j \in 0..n |-> q[j]]
  BY <1>3 DEF DenominatorRow
<1>5. \A j \in 0..n : q[j] = IF j = 0 THEN One
                             ELSE IF j = i THEN q[j - 1] ELSE gfMul(q[j - 1], y[j])
  <2> TAKE j \in 0..n
  <2>1. j # 0 => y[j] = x[i] ^^ x[j]
    BY <1>0
  <2> QED
    BY <1>4, <2>1
<1>6. ProductsBut(q, y, i, n)
  BY <1>4, <1>5, ProductRow
<1> QED
  BY <1>6 DEF q, y

\* Weight is the last of a row of weights that grow node by node.
LEMMA WeightsExist ==
    ASSUME NEW n \in Nat, NEW x, Different(x, n)
    PROVE  \E w : Weights(w, x, n) /\ \A i \in 1..n : w[i][n] = Weight(x, i, n)
<1> DEFINE num(i) == Numerators(x, i, n)
           den(i) == Denominators(x, i, n)
           w == [i \in 1..n |-> [j \in 0..n |-> gfMul(num(i)[j], gfInv(den(i)[j]))]]
<1>1. \A i \in 1..n : /\ num(i) \in [0..n -> Byte] /\ den(i) \in [0..n -> Byte]
                      /\ num(i)[0] = One /\ den(i)[0] = One
  BY NumeratorsAre, DenominatorsAre DEF ProductsBut
<1>2. \A i, j \in 1..n : j # i => num(i)[j] = gfMul(num(i)[j - 1], x[j])
  BY NumeratorsAre DEF ProductsBut
<1>3. \A i, j \in 1..n : j # i => den(i)[j] = gfMul(den(i)[j - 1], x[i] ^^ x[j])
  <2> SUFFICES ASSUME NEW i \in 1..n, NEW j \in 1..n, j # i
               PROVE  den(i)[j] = gfMul(den(i)[j - 1], x[i] ^^ x[j])
    OBVIOUS
  <2> DEFINE y == [l \in 1..n |-> x[i] ^^ x[l]]
  <2>1. ProductsBut(den(i), y, i, n)
    BY DenominatorsAre
  <2>2. y[j] = x[i] ^^ x[j]
    OBVIOUS
  <2> HIDE DEF y, den
  <2> QED
    BY <2>1, <2>2 DEF ProductsBut
<1>4. \A i \in 1..n : num(i)[i] = num(i)[i - 1] /\ den(i)[i] = den(i)[i - 1]
  BY NumeratorsAre, DenominatorsAre DEF ProductsBut
<1>5. \A i, j \in 1..n : i # j =>
          x[i] \in Byte /\ x[j] \in Byte /\ x[i] ^^ x[j] \in Byte /\ x[i] ^^ x[j] # Zero
  <2> SUFFICES ASSUME NEW i \in 1..n, NEW j \in 1..n, i # j
               PROVE  x[i] \in Byte /\ x[j] \in Byte /\ x[i] ^^ x[j] \in Byte /\ x[i] ^^ x[j] # Zero
    OBVIOUS
  <2> DEFINE u == x[i]
             v == x[j]
  <2>1. u \in Byte /\ v \in Byte /\ u # v
    BY DEF Different
  <2> HIDE DEF u, v
  <2>2. u ^^ v \in Byte
    BY <2>1, FieldLaws
  <2>3. u ^^ v # Zero
    BY <2>1, Cancels
  <2> QED
    BY <2>1, <2>2, <2>3 DEF u, v
<1>6. \A i \in 1..n : w[i] = [j \in 0..n |-> gfMul(num(i)[j], gfInv(den(i)[j]))]
  OBVIOUS
<1>7. \A i \in 1..n : \A j \in 0..n : w[i][j] = gfMul(num(i)[j], gfInv(den(i)[j]))
  BY <1>6
<1>8. \A i \in 1..n : w[i] \in [0..n -> Byte]
  <2> TAKE i \in 1..n
  <2>1. \A j \in 0..n : gfMul(num(i)[j], gfInv(den(i)[j])) \in Byte
    BY BytesMade
  <2> HIDE DEF w, num, den
  <2> QED
    BY <1>6, <2>1
<1>9. w \in [1..n -> [0..n -> Byte]]
  <2>1. w = [i \in 1..n |-> w[i]]
    OBVIOUS
  <2> HIDE DEF w
  <2> QED
    BY <1>8, <2>1
<1> HIDE DEF w, num, den
<1>10. ASSUME NEW i \in 1..n PROVE \A j \in 0..n : den(i)[j] # Zero /\ den(i)[j] \in Byte
  <2> DEFINE S == {j \in 0..n : den(i)[j] # Zero /\ den(i)[j] \in Byte}
  <2>1. 0 \in S
    <3>1. One \in Byte /\ One # Zero /\ 0 \in 0..n
      BY FieldLaws
    <3> QED
      BY <1>1, <3>1
  <2>2. ASSUME NEW j \in 0..(n - 1), j \in S PROVE j + 1 \in S
    <3>1. j + 1 \in 1..n /\ (j + 1) - 1 = j /\ den(i)[j] # Zero /\ den(i)[j] \in Byte
      BY <2>2
    <3>2. CASE j + 1 = i
      BY <1>4, <3>1, <3>2
    <3>3. CASE j + 1 # i
      <4> DEFINE d == den(i)[j]
                 t == x[i] ^^ x[j + 1]
      <4>1. den(i)[j + 1] = gfMul(d, t) /\ t \in Byte /\ t # Zero /\ d \in Byte /\ d # Zero
        BY <1>3, <1>5, <3>1, <3>3
      <4> HIDE DEF d, t
      <4>2. gfMul(d, t) \in Byte /\ gfMul(d, t) # Zero
        BY <4>1, FieldLaws
      <4> QED
        BY <3>1, <4>1, <4>2
    <3> QED
      BY <3>2, <3>3
  <2> HIDE DEF S
  <2>3. 0..n \subseteq S
    BY <2>1, <2>2, UpTo
  <2> QED
    BY <2>3 DEF S
<1>11. \A i \in 1..n : w[i][0] = One
  <2> TAKE i \in 1..n
  <2>1. w[i][0] = gfMul(One, gfInv(One))
    BY <1>1, <1>7
  <2> QED
    BY <2>1, FieldLaws
<1>12. ASSUME NEW i \in 1..n, NEW j \in 1..n
       PROVE  w[i][j] = IF j = i THEN w[i][j - 1]
                        ELSE gfMul(w[i][j - 1], gfMul(x[j], gfInv(x[i] ^^ x[j])))
  <2>1. j \in 0..n /\ j - 1 \in 0..n
    OBVIOUS
  <2>2. w[i][j] = gfMul(num(i)[j], gfInv(den(i)[j]))
    BY <1>7, <2>1
  <2>3. w[i][j - 1] = gfMul(num(i)[j - 1], gfInv(den(i)[j - 1]))
    BY <1>7, <2>1
  <2>4. CASE j = i
    BY <1>4, <2>2, <2>3, <2>4
  <2>5. CASE j # i
    <3> DEFINE p == num(i)[j - 1]
               d == den(i)[j - 1]
               z == x[j]
               t == x[i] ^^ x[j]
    <3>1. p \in Byte /\ d \in Byte /\ d # Zero /\ z \in Byte /\ t \in Byte /\ t # Zero
      BY <1>1, <1>5, <1>10, <2>1, <2>5
    <3>2. num(i)[j] = gfMul(p, z) /\ den(i)[j] = gfMul(d, t)
      BY <1>2, <1>3, <2>5
    <3>3. gfMul(gfMul(p, z), gfInv(gfMul(d, t))) = gfMul(gfMul(p, gfInv(d)), gfMul(z, gfInv(t)))
      <4> HIDE DEF p, d, z, t
      <4> QED
        BY <3>1, QuotientOfProducts
    <3> QED
      BY <2>2, <2>3, <2>5, <3>2, <3>3
  <2> QED
    BY <2>4, <2>5
<1>13. Weights(w, x, n)
  BY <1>9, <1>11, <1>12 DEF Weights
<1>14. \A i \in 1..n : w[i][n] = Weight(x, i, n)
  BY <1>7, WeightIs DEF num, den
<1> QED
  BY <1>13, <1>14

-----------------------------------------------------------------------------
(* Bytes of numbers, and the shards of a request.                            *)

\* A number below 256 is its eight bits.
LEMMA ByteDetermines ==
    \A m, n \in 0..255 : ByteOf(m) = ByteOf(n) => m = n
<1> SUFFICES ASSUME NEW m \in 0..255, NEW n \in 0..255, ByteOf(m) = ByteOf(n) PROVE m = n
  OBVIOUS
<1>1. \A k \in 0..255 :
          /\ 0 \in ByteOf(k) <=> k % 2 = 1
          /\ 1 \in ByteOf(k) <=> (k \div 2) % 2 = 1
          /\ 2 \in ByteOf(k) <=> (k \div 4) % 2 = 1
          /\ 3 \in ByteOf(k) <=> (k \div 8) % 2 = 1
          /\ 4 \in ByteOf(k) <=> (k \div 16) % 2 = 1
          /\ 5 \in ByteOf(k) <=> (k \div 32) % 2 = 1
          /\ 6 \in ByteOf(k) <=> (k \div 64) % 2 = 1
          /\ 7 \in ByteOf(k) <=> (k \div 128) % 2 = 1
  <2>1. /\ 2^0 = 1 /\ 2^1 = 2 /\ 2^2 = 4 /\ 2^3 = 8
        /\ 2^4 = 16 /\ 2^5 = 32 /\ 2^6 = 64 /\ 2^7 = 128
    OBVIOUS
  <2>2. \A k \in 0..255 : k \div 1 = k
    OBVIOUS
  <2>3. \A k, e : e \in ByteOf(k) <=> e \in 0..7 /\ (k \div 2^e) % 2 = 1
    BY DEF ByteOf
  <2>4. \A k : /\ 0 \in ByteOf(k) <=> (k \div 1) % 2 = 1
               /\ 1 \in ByteOf(k) <=> (k \div 2) % 2 = 1
               /\ 2 \in ByteOf(k) <=> (k \div 4) % 2 = 1
               /\ 3 \in ByteOf(k) <=> (k \div 8) % 2 = 1
               /\ 4 \in ByteOf(k) <=> (k \div 16) % 2 = 1
               /\ 5 \in ByteOf(k) <=> (k \div 32) % 2 = 1
               /\ 6 \in ByteOf(k) <=> (k \div 64) % 2 = 1
               /\ 7 \in ByteOf(k) <=> (k \div 128) % 2 = 1
    <3> TAKE k
    <3>1. /\ 0 \in 0..7 /\ 1 \in 0..7 /\ 2 \in 0..7 /\ 3 \in 0..7
          /\ 4 \in 0..7 /\ 5 \in 0..7 /\ 6 \in 0..7 /\ 7 \in 0..7
      OBVIOUS
    <3>2. \A e \in 0..7 : e \in ByteOf(k) <=> (k \div 2^e) % 2 = 1
      BY <2>3
    <3> QED
      BY <2>1, <3>1, <3>2
  <2> TAKE k \in 0..255
  <2>5. k \div 1 = k
    BY <2>2
  <2>6. (k \div 1) % 2 = k % 2
    BY <2>5
  <2>7. 0 \in ByteOf(k) <=> k % 2 = 1
    BY <2>4, <2>6
  <2> QED
    BY <2>4, <2>7
<1>2. \A k \in 0..255 : /\ k = 2 * (k \div 2) + (k % 2)
                        /\ k \div 2 = 2 * (k \div 4) + ((k \div 2) % 2)
                        /\ k \div 4 = 2 * (k \div 8) + ((k \div 4) % 2)
                        /\ k \div 8 = 2 * (k \div 16) + ((k \div 8) % 2)
                        /\ k \div 16 = 2 * (k \div 32) + ((k \div 16) % 2)
                        /\ k \div 32 = 2 * (k \div 64) + ((k \div 32) % 2)
                        /\ k \div 64 = 2 * (k \div 128) + ((k \div 64) % 2)
                        /\ k \div 128 = (k \div 128) % 2
  OBVIOUS
<1>3. \A i, j \in Int : (i % 2 = 1 <=> j % 2 = 1) => i % 2 = j % 2
  OBVIOUS
<1>4. \A k \in 0..255 : /\ k \in Int /\ k \div 2 \in Int /\ k \div 4 \in Int /\ k \div 8 \in Int
                        /\ k \div 16 \in Int /\ k \div 32 \in Int /\ k \div 64 \in Int
                        /\ k \div 128 \in Int
  OBVIOUS
<1>5. /\ m % 2 = n % 2
      /\ (m \div 2) % 2 = (n \div 2) % 2
      /\ (m \div 4) % 2 = (n \div 4) % 2
      /\ (m \div 8) % 2 = (n \div 8) % 2
      /\ (m \div 16) % 2 = (n \div 16) % 2
      /\ (m \div 32) % 2 = (n \div 32) % 2
      /\ (m \div 64) % 2 = (n \div 64) % 2
      /\ (m \div 128) % 2 = (n \div 128) % 2
  <2>1. m % 2 = n % 2
    <3>1. m % 2 = 1 <=> n % 2 = 1
      BY <1>1
    <3>2. m \in Int /\ n \in Int
      BY <1>4
    <3> QED
      BY <1>3, <3>1, <3>2
  <2>2. (m \div 2) % 2 = (n \div 2) % 2
    <3>1. (m \div 2) % 2 = 1 <=> (n \div 2) % 2 = 1
      BY <1>1
    <3>2. m \div 2 \in Int /\ n \div 2 \in Int
      BY <1>4
    <3> QED
      BY <1>3, <3>1, <3>2
  <2>3. (m \div 4) % 2 = (n \div 4) % 2
    <3>1. (m \div 4) % 2 = 1 <=> (n \div 4) % 2 = 1
      BY <1>1
    <3>2. m \div 4 \in Int /\ n \div 4 \in Int
      BY <1>4
    <3> QED
      BY <1>3, <3>1, <3>2
  <2>4. (m \div 8) % 2 = (n \div 8) % 2
    <3>1. (m \div 8) % 2 = 1 <=> (n \div 8) % 2 = 1
      BY <1>1
    <3>2. m \div 8 \in Int /\ n \div 8 \in Int
      BY <1>4
    <3> QED
      BY <1>3, <3>1, <3>2
  <2>5. (m \div 16) % 2 = (n \div 16) % 2
    <3>1. (m \div 16) % 2 = 1 <=> (n \div 16) % 2 = 1
      BY <1>1
    <3>2. m \div 16 \in Int /\ n \div 16 \in Int
      BY <1>4
    <3> QED
      BY <1>3, <3>1, <3>2
  <2>6. (m \div 32) % 2 = (n \div 32) % 2
    <3>1. (m \div 32) % 2 = 1 <=> (n \div 32) % 2 = 1
      BY <1>1
    <3>2. m \div 32 \in Int /\ n \div 32 \in Int
      BY <1>4
    <3> QED
      BY <1>3, <3>1, <3>2
  <2>7. (m \div 64) % 2 = (n \div 64) % 2
    <3>1. (m \div 64) % 2 = 1 <=> (n \div 64) % 2 = 1
      BY <1>1
    <3>2. m \div 64 \in Int /\ n \div 64 \in Int
      BY <1>4
    <3> QED
      BY <1>3, <3>1, <3>2
  <2>8. (m \div 128) % 2 = (n \div 128) % 2
    <3>1. (m \div 128) % 2 = 1 <=> (n \div 128) % 2 = 1
      BY <1>1
    <3>2. m \div 128 \in Int /\ n \div 128 \in Int
      BY <1>4
    <3> QED
      BY <1>3, <3>1, <3>2
  <2> QED
    BY <2>1, <2>2, <2>3, <2>4, <2>5, <2>6, <2>7, <2>8
<1>6. m \div 128 = n \div 128
  <2>1. m \div 128 = (m \div 128) % 2 /\ n \div 128 = (n \div 128) % 2
    BY <1>2
  <2> QED
    BY <1>5, <2>1
<1>7. m \div 64 = n \div 64
  <2>1. /\ m \div 64 = 2 * (m \div 128) + ((m \div 64) % 2)
        /\ n \div 64 = 2 * (n \div 128) + ((n \div 64) % 2)
    BY <1>2
  <2> QED
    BY <1>5, <1>6, <2>1
<1>8. m \div 32 = n \div 32
  <2>1. /\ m \div 32 = 2 * (m \div 64) + ((m \div 32) % 2)
        /\ n \div 32 = 2 * (n \div 64) + ((n \div 32) % 2)
    BY <1>2
  <2> QED
    BY <1>5, <1>7, <2>1
<1>9. m \div 16 = n \div 16
  <2>1. /\ m \div 16 = 2 * (m \div 32) + ((m \div 16) % 2)
        /\ n \div 16 = 2 * (n \div 32) + ((n \div 16) % 2)
    BY <1>2
  <2> QED
    BY <1>5, <1>8, <2>1
<1>10. m \div 8 = n \div 8
  <2>1. /\ m \div 8 = 2 * (m \div 16) + ((m \div 8) % 2)
        /\ n \div 8 = 2 * (n \div 16) + ((n \div 8) % 2)
    BY <1>2
  <2> QED
    BY <1>5, <1>9, <2>1
<1>11. m \div 4 = n \div 4
  <2>1. /\ m \div 4 = 2 * (m \div 8) + ((m \div 4) % 2)
        /\ n \div 4 = 2 * (n \div 8) + ((n \div 4) % 2)
    BY <1>2
  <2> QED
    BY <1>5, <1>10, <2>1
<1>12. m \div 2 = n \div 2
  <2>1. /\ m \div 2 = 2 * (m \div 4) + ((m \div 2) % 2)
        /\ n \div 2 = 2 * (n \div 4) + ((n \div 2) % 2)
    BY <1>2
  <2> QED
    BY <1>5, <1>11, <2>1
<1> QED
  <2>1. m = 2 * (m \div 2) + (m % 2) /\ n = 2 * (n \div 2) + (n % 2)
    BY <1>2
  <2> QED
    BY <1>5, <1>12, <2>1

\* Up to 127 shards, every shard has a coordinate of its own, and none is zero.
LEMMA CoordinatesApart ==
    ASSUME NEW i \in 1..127, NEW j \in 1..127
    PROVE  /\ Coordinate(i) \in 1..255
           /\ i # j => Coordinate(i) # Coordinate(j)
           /\ i # j => ByteOf(Coordinate(i)) # ByteOf(Coordinate(j))
<1>1. /\ Coordinate(i) \in 1..255 /\ Coordinate(i) \in 0..255 /\ Coordinate(j) \in 0..255
      /\ i # j => Coordinate(i) # Coordinate(j)
  BY DEF Coordinate
<1> QED
  BY <1>1, ByteDetermines

\* A sharing as Split makes it: a byte of every coefficient for every byte of
\* the secret.
Complete(s) ==
    /\ s \in Sharings
    /\ s.k <= s.n
    /\ Len(s.coeffs) = s.k - 1
    /\ Len(s.secret) > 0
    /\ \A c \in 1..Len(s.coeffs) : \A b \in 1..Len(s.secret) : s.coeffs[c][b] \in Byte

\* The parts of a complete sharing.
LEMMA CompleteTyped ==
    ASSUME NEW s, Complete(s)
    PROVE  /\ s.secret \in Seq(Byte) /\ s.coeffs \in Seq(Seq(Byte))
           /\ s.n \in 2..255 /\ s.k \in 2..255 /\ s.k <= s.n
           /\ Len(s.coeffs) = s.k - 1 /\ Len(s.secret) \in Nat \ {0}
<1>1. s \in Sharings /\ s.k <= s.n /\ Len(s.coeffs) = s.k - 1 /\ Len(s.secret) > 0
  BY DEF Complete
<1>2. s.secret \in Seq(Byte)
  BY <1>1 DEF Sharings
<1>3. s.coeffs \in Seq(Seq(Byte))
  BY <1>1 DEF Sharings
<1>4. s.n \in 2..255 /\ s.k \in 2..255
  BY <1>1 DEF Sharings
<1>5. Len(s.secret) \in Nat
  BY <1>2
<1> QED
  BY <1>1, <1>2, <1>3, <1>4, <1>5

\* Shards of s, at different places.
ShardsOf(shards, places, s, k) ==
    /\ \A p \in 1..k : places[p] \in 1..s.n /\ shards[p] = Shard(s, places[p])
    /\ \A p, q \in 1..k : p # q => places[p] # places[q]

\* The sums that Interpolated makes of one byte of the values.
ResultRow(shards, weight, b, k, r) ==
    [i \in 0..k |-> IF i = 0 THEN Zero ELSE r[i - 1] ^^ gfMul(shards[i].Value[b], weight[i])]
Results(shards, weight, b, k) == CHOOSE r : r = ResultRow(shards, weight, b, k, r)

NodesOf(shards, k)   == [i \in 1..k |-> ByteOf(shards[i].Index)]
WeightRow(shards, k) == [i \in 1..k |-> Weight(NodesOf(shards, k), i, k)]

\* Interpolated, with its local functions given names.
LEMMA InterpolatedIs ==
    \A shards, k :
        Interpolated(shards, k) =
            [b \in 1..Len(shards[1].Value) |-> Results(shards, WeightRow(shards, k), b, k)[k]]
BY Zenon DEF Interpolated, Results, ResultRow, NodesOf, WeightRow

\* The loop over one byte adds up what Sums does.
LEMMA ResultsAre ==
    ASSUME NEW shards, NEW weight, NEW b, NEW k \in Nat, NEW a \in [1..k -> Byte],
           \A i \in 1..k : a[i] = gfMul(shards[i].Value[b], weight[i])
    PROVE  Results(shards, weight, b, k)[k] = Sums(a, k)[k]
<1> DEFINE s == Sums(a, k)
           q == Results(shards, weight, b, k)
<1>1. s \in [0..k -> Byte] /\ s[0] = Zero /\ \A i \in 1..k : s[i] = s[i - 1] ^^ a[i]
  BY SumsAre
<1> HIDE DEF s
<1>2. s = ResultRow(shards, weight, b, k, s)
  <2>1. \A i \in 0..k : s[i] = IF i = 0 THEN Zero
                               ELSE s[i - 1] ^^ gfMul(shards[i].Value[b], weight[i])
    <3> TAKE i \in 0..k
    <3>1. i # 0 => i \in 1..k
      OBVIOUS
    <3> QED
      BY <1>1, <3>1
  <2> QED
    BY <1>1, <2>1 DEF ResultRow
<1>3. q = ResultRow(shards, weight, b, k, q)
  BY <1>2, Zenon DEF Results
<1> HIDE DEF q
<1>4. q[0] = Zero /\ \A i \in 1..k : q[i] = q[i - 1] ^^ a[i]
  <2>1. \A i \in 0..k : q[i] = IF i = 0 THEN Zero
                               ELSE q[i - 1] ^^ gfMul(shards[i].Value[b], weight[i])
    BY <1>3 DEF ResultRow
  <2>2. 0 \in 0..k /\ \A i \in 1..k : i \in 0..k /\ i # 0
    OBVIOUS
  <2> QED
    BY <2>1, <2>2
<1> DEFINE S == {i \in 0..k : q[i] = s[i]}
<1>5. 0 \in S
  BY <1>1, <1>4
<1>6. ASSUME NEW i \in 0..(k - 1), i \in S PROVE i + 1 \in S
  <2>1. i + 1 \in 1..k /\ (i + 1) - 1 = i /\ q[i] = s[i]
    BY <1>6
  <2>2. q[i + 1] = s[i + 1]
    BY <1>1, <1>4, <2>1
  <2> QED
    BY <2>1, <2>2
<1> HIDE DEF S
<1>7. 0..k \subseteq S
  BY <1>5, <1>6, UpTo
<1>8. k \in S
  BY <1>7
<1> QED
  BY <1>8 DEF S, s, q

\* What different shards of one sharing interpolate to is its secret.
LEMMA InterpolatesSecret ==
    ASSUME NEW s, Complete(s), s.n <= 127, NEW k \in Nat, s.k <= k,
           NEW shards, NEW places, ShardsOf(shards, places, s, k)
    PROVE  Interpolated(shards, k) = s.secret
<1> DEFINE x == NodesOf(shards, k)
           weight == WeightRow(shards, k)
           all == <<s.secret>> \o s.coeffs
<1>1. /\ s.secret \in Seq(Byte) /\ s.coeffs \in Seq(Seq(Byte)) /\ s.k \in 2..255 /\ s.n \in 2..255
      /\ Len(s.coeffs) = s.k - 1 /\ Len(s.secret) \in Nat \ {0} /\ 1 \in 1..k
  <2> DEFINE least == s.k
  <2>1. 1 \in 1..k
    <3>1. least \in 2..255 /\ least <= k
      BY CompleteTyped
    <3> HIDE DEF least
    <3> QED
      BY <3>1
  <2> QED
    BY <2>1, CompleteTyped
<1>2. \A p \in 1..k : places[p] \in 1..127
  <2>1. \A p \in 1..k : places[p] \in 1..s.n
    BY DEF ShardsOf
  <2>2. 1..s.n \subseteq 1..127
    <3> DEFINE n == s.n
    <3>1. n \in 2..255 /\ n <= 127
      BY <1>1
    <3> HIDE DEF n
    <3>2. 1..n \subseteq 1..127
      BY <3>1
    <3> QED
      BY <3>2 DEF n
  <2> QED
    BY <2>1, <2>2
<1>3. \A p \in 1..k : /\ shards[p].Index = Coordinate(places[p])
                      /\ shards[p].Value = ShardValue(s, places[p])
  <2>1. \A i : Shard(s, i).Index = Coordinate(i) /\ Shard(s, i).Value = ShardValue(s, i)
    BY DEF Shard
  <2>2. \A p \in 1..k : shards[p] = Shard(s, places[p])
    BY DEF ShardsOf
  <2> QED
    BY <2>1, <2>2
<1>4. Different(x, k)
  <2>1. \A p \in 1..k : x[p] = ByteOf(Coordinate(places[p]))
    BY <1>3 DEF NodesOf
  <2>2. ASSUME NEW p \in 1..k, NEW q \in 1..k, p # q PROVE x[p] # x[q]
    <3>1. places[p] \in 1..127 /\ places[q] \in 1..127 /\ places[p] # places[q]
      BY <1>2, <2>2 DEF ShardsOf
    <3>2. ByteOf(Coordinate(places[p])) # ByteOf(Coordinate(places[q]))
      BY <3>1, CoordinatesApart
    <3> QED
      BY <2>1, <3>2
  <2>3. x \in [1..k -> Byte]
    BY BytesMade DEF NodesOf
  <2> HIDE DEF x
  <2> QED
    BY <2>2, <2>3 DEF Different
<1> HIDE DEF x
<1>5. PICK w : Weights(w, x, k) /\ \A i \in 1..k : w[i][k] = Weight(x, i, k)
  BY <1>4, WeightsExist
<1>6. PICK P : ByDegree(P, k)
  BY ByDegreeExists
<1>7. \A j \in 0..k : Interpolates(P[j], x, w, k, j)
  BY <1>4, <1>5, <1>6, LagrangeAtZero DEF Nodes
<1>8. /\ Len(all) = s.k /\ all[1] = s.secret
      /\ \A c \in 1..Len(all) : \A b \in 1..Len(s.secret) : all[c][b] \in Byte
  <2>1. Len(all) = s.k /\ all[1] = s.secret /\ \A c \in 2..Len(all) : all[c] = s.coeffs[c - 1]
    <3> DEFINE u == s.secret
               v == s.coeffs
    <3>1. u \in Seq(Byte) /\ v \in Seq(Seq(Byte)) /\ Len(v) = s.k - 1 /\ s.k \in Int
      <4>1. \A m \in 2..255 : m \in Int
        OBVIOUS
      <4> QED
        BY <1>1, <4>1
    <3>2. all = <<u>> \o v
      OBVIOUS
    <3> HIDE DEF u, v, all
    <3>3. Len(all) = Len(v) + 1 /\ all[1] = u /\ \A c \in 2..Len(all) : all[c] = v[c - 1]
      BY <3>1, <3>2
    <3> QED
      BY <3>1, <3>3 DEF u, v
  <2> HIDE DEF all
  <2> SUFFICES ASSUME NEW c \in 1..Len(all), NEW b \in 1..Len(s.secret) PROVE all[c][b] \in Byte
    BY <2>1
  <2>2. CASE c = 1
    BY <1>1, <2>1, <2>2
  <2>3. CASE c # 1
    <3>1. c \in 2..Len(all) /\ c - 1 \in 1..Len(s.coeffs)
      BY <1>1, <2>1, <2>3
    <3> QED
      BY <2>1, <3>1 DEF Complete
  <2> QED
    BY <2>2, <2>3
<1>9. ASSUME NEW b \in 1..Len(s.secret)
      PROVE  Results(shards, weight, b, k)[k] = s.secret[b]
  <2> DEFINE f == [y \in Byte |-> PolynomialAt(all, b, y)]
             a == Terms(f, x, w, k, k)
  <2>1. f \in P[s.k] /\ f[Zero] = s.secret[b]
    <3> HIDE DEF all
    <3>1. Len(all) \in 1..k /\ \A c \in 1..Len(all) : all[c][b] \in Byte
      BY <1>1, <1>8
    <3>2. f \in P[Len(all)] /\ PolynomialAt(all, b, Zero) = all[1][b]
      BY <1>6, <3>1, HornerByDegree
    <3>3. Zero \in Byte
      BY FieldLaws
    <3> QED
      BY <1>8, <3>2, <3>3
  <2>2. s.k \in 0..k /\ k \in s.k..k /\ k \in 0..k
    <3>1. s.k \in Nat /\ s.k <= k
      <4>1. \A m \in 2..255 : m \in Nat
        OBVIOUS
      <4> QED
        BY <1>1, <4>1
    <3> QED
      BY <3>1
  <2>3. f \in P[k]
    <3> HIDE DEF f
    <3>1. P[s.k] \subseteq P[k]
      BY <1>6, <2>2, DegreesInclude
    <3> QED
      BY <2>1, <3>1
  <2>4. Sums(a, k)[k] = f[Zero]
    <3> HIDE DEF f
    <3> QED
      BY <1>7, <2>2, <2>3 DEF Interpolates
  <2>5. \A i \in 1..k : x[i] \in Byte /\ x[i] = ByteOf(Coordinate(places[i]))
    BY <1>3, <1>4 DEF x, NodesOf, Different
  <2>6. \A i \in 1..k : shards[i].Value[b] = f[x[i]]
    <3> TAKE i \in 1..k
    <3>1. f[x[i]] = PolynomialAt(all, b, x[i])
      BY <2>5
    <3>2. shards[i].Value = ShardValue(s, places[i])
      BY <1>3
    <3>3. \A p : ShardValue(s, p)[b] = PolynomialAt(all, b, ByteOf(Coordinate(p)))
      BY DEF ShardValue
    <3> HIDE DEF f, all
    <3> QED
      BY <2>5, <3>1, <3>2, <3>3
  <2> HIDE DEF f, all
  <2>7. \A i \in 1..k : a[i] = gfMul(shards[i].Value[b], weight[i])
    BY <1>5, <2>6 DEF Terms, WeightRow, x
  <2>8. a \in [1..k -> Byte]
    <3>1. \A i \in 1..k : gfMul(f[x[i]], w[i][k]) \in Byte
      BY BytesMade
    <3> QED
      BY <3>1 DEF Terms
  <2> HIDE DEF a, weight
  <2> QED
    BY <2>1, <2>4, <2>7, <2>8, ResultsAre
<1>10. Interpolated(shards, k) =
           [b \in 1..Len(shards[1].Value) |-> Results(shards, weight, b, k)[k]]
  BY InterpolatedIs
<1>11. Len(shards[1].Value) = Len(s.secret)
  <2>1. shards[1].Value = ShardValue(s, places[1])
    BY <1>1, <1>3
  <2>2. \A i : Len(ShardValue(s, i)) = Len(s.secret)
    BY <1>1 DEF ShardValue
  <2> QED
    BY <2>1, <2>2
<1>12. s.secret = [b \in 1..Len(s.secret) |-> s.secret[b]]
  BY <1>1
<1> QED
  BY <1>9, <1>10, <1>11, <1>12

-----------------------------------------------------------------------------
(* The client's hand, and the answer to it.                                  *)

\* The sharing is one Split made, and every shard that is not a damaged one is
\* that of its place.
SharedInv ==
    /\ sharing # NoSharing => Complete(sharing)
    /\ \A p \in DOMAIN from : from[p] # 0 =>
          sharing # NoSharing /\ from[p] \in 1..sharing.n /\ hand[p] = Shard(sharing, from[p])

\* Before the first request there is no sharing and no shard.
LEMMA SharedInit == VaultInit => SharedInv
<1> SUFFICES ASSUME VaultInit PROVE SharedInv
  OBVIOUS
<1>1. DOMAIN from = {} /\ sharing = NoSharing
  BY DEF VaultInit
<1> QED
  BY <1>1 DEF SharedInv

\* Split makes a complete sharing, while the hand is still empty of its shards.
LEMMA SplitShared ==
    ASSUME VaultAssumption, SharedInv, VaultTypeOK, VaultTypeOK', NEW secret \in Secrets,
           NEW n \in Counts, NEW k \in Thresholds, Split(secret, n, k)
    PROVE  SharedInv'
<1>1. sharing = NoSharing /\ UNCHANGED <<hand, from>>
  BY DEF Split
<1>2. \A p \in DOMAIN from : from[p] = 0
  BY <1>1 DEF SharedInv
<1>3. CASE ValidParameters(secret, n, k)
  <2>1. PICK coeffs \in [1..(k - 1) -> [1..Len(secret) -> Randoms]] :
            sharing' = [secret |-> secret, n |-> n, k |-> k, coeffs |-> coeffs]
    BY <1>3 DEF Split
  <2>2. sharing'.secret = secret /\ sharing'.coeffs = coeffs /\ sharing'.n = n /\ sharing'.k = k
    BY <2>1
  <2>3. Len(secret) > 0 /\ k \in Int /\ n \in Int /\ 2 <= k /\ Randoms \subseteq Byte
    BY <1>3 DEF ValidParameters, VaultAssumption
  <2>4. sharing' # NoSharing
    <3>1. NoSharing.n = 0 /\ n # 0
      BY <1>3, <2>3 DEF NoSharing, ValidParameters
    <3> QED
      BY <2>2, <3>1
  <2>5. sharing' \in Sharings /\ sharing'.k <= sharing'.n /\ Len(sharing'.coeffs) = sharing'.k - 1
    BY <2>4 DEF VaultTypeOK
  <2>6. \A c \in 1..(k - 1) : \A b \in 1..Len(secret) : coeffs[c][b] \in Byte
    <3>1. \A c \in 1..(k - 1) : coeffs[c] \in [1..Len(secret) -> Randoms]
      BY <2>1
    <3> QED
      BY <2>3, <3>1
  <2>7. \A c \in 1..Len(sharing'.coeffs) : \A b \in 1..Len(sharing'.secret) :
            sharing'.coeffs[c][b] \in Byte
    BY <2>2, <2>5, <2>6
  <2>8. Complete(sharing')
    BY <2>2, <2>3, <2>5, <2>7 DEF Complete
  <2> QED
    BY <1>1, <1>2, <2>8 DEF SharedInv
<1>4. CASE ~ValidParameters(secret, n, k)
  <2>1. sharing' = sharing
    BY <1>4 DEF Split
  <2> QED
    BY <1>1, <2>1 DEF SharedInv
<1> QED
  BY <1>3, <1>4

\* A shard put into the hand is that of its place, or marked as damaged.
LEMMA PutShared ==
    ASSUME SharedInv, VaultTypeOK, NEW shard, NEW place, PutIntoHand(shard, place),
           place # 0 => /\ sharing # NoSharing /\ place \in 1..sharing.n
                        /\ shard = Shard(sharing, place)
    PROVE  SharedInv'
<1>1. /\ hand' = Append(hand, shard) /\ from' = Append(from, place) /\ sharing' = sharing
      /\ hand \in Seq(Shards) /\ from \in Seq(0..255) /\ Len(from) = Len(hand)
  BY DEF PutIntoHand, VaultTypeOK
<1>2. /\ Len(from) \in Nat /\ DOMAIN from = 1..Len(from)
      /\ DOMAIN from' = 1..(Len(from) + 1)
      /\ \A p \in 1..Len(from) : from'[p] = from[p] /\ hand'[p] = hand[p]
      /\ from'[Len(from) + 1] = place /\ hand'[Len(from) + 1] = shard
  BY <1>1
<1>3. ASSUME NEW p \in DOMAIN from', from'[p] # 0
      PROVE  sharing # NoSharing /\ from'[p] \in 1..sharing.n /\ hand'[p] = Shard(sharing, from'[p])
  <2>1. CASE p = Len(from) + 1
    BY <1>2, <1>3, <2>1
  <2>2. CASE p # Len(from) + 1
    <3>1. p \in 1..Len(from)
      BY <1>2, <2>2
    <3> QED
      BY <1>2, <1>3, <3>1 DEF SharedInv
  <2> QED
    BY <2>1, <2>2
<1>4. sharing # NoSharing => Complete(sharing)
  BY DEF SharedInv
<1> QED
  BY <1>1, <1>3, <1>4 DEF SharedInv

\* No action changes a shard that is in the hand.
LEMMA SharedNext ==
    VaultAssumption /\ SharedInv /\ VaultTypeOK /\ VaultTypeOK' /\ [VaultNext]_vaultVars => SharedInv'
<1> SUFFICES ASSUME VaultAssumption, SharedInv, VaultTypeOK, VaultTypeOK', [VaultNext]_vaultVars
             PROVE  SharedInv'
  OBVIOUS
<1>1. ASSUME NEW secret \in Secrets, NEW n \in Counts, NEW k \in Thresholds, Split(secret, n, k)
      PROVE  SharedInv'
  BY <1>1, SplitShared
<1>2. ASSUME NEW i \in Positions, HandIn(i) PROVE SharedInv'
  <2>1. i <= sharing.n /\ PutIntoHand(Shard(sharing, i), i)
    BY <1>2 DEF HandIn
  <2>2. i \in 1..255
    BY DEF VaultAssumption
  <2>3. sharing # NoSharing
    BY <2>1, <2>2 DEF NoSharing
  <2>4. i \in 1..sharing.n
    <3>1. sharing.n \in 2..255
      BY <2>3, CompleteTyped DEF SharedInv
    <3> DEFINE n == sharing.n
    <3>2. n \in 2..255 /\ i <= n
      BY <2>1, <3>1
    <3> HIDE DEF n
    <3>3. i \in 1..n
      BY <2>2, <3>2
    <3> QED
      BY <3>3 DEF n
  <2> QED
    BY <2>1, <2>3, <2>4, PutShared
<1>3. ASSUME NEW i \in Positions, HandInDamaged(i) PROVE SharedInv'
  <2>1. PICK d \in Damaged(Shard(sharing, i)) : PutIntoHand(d, 0)
    BY <1>3 DEF HandInDamaged
  <2> QED
    BY <2>1, PutShared
<1>4. ASSUME NEW k \in Thresholds, Reconstruct(k) PROVE SharedInv'
  BY <1>4 DEF Reconstruct, SharedInv
<1>5. CASE UNCHANGED vaultVars
  BY <1>5 DEF vaultVars, SharedInv
<1> QED
  BY <1>1, <1>2, <1>3, <1>4, <1>5 DEF VaultNext

\* A hand of undamaged, different shards is answered with the secret.
LEMMA HandIsAnswered ==
    ASSUME SharedInv, VaultTypeOK, sharing # NoSharing, sharing.n <= 127, Undamaged, Distinct,
           NEW k \in sharing.k..Len(hand)
    PROVE  Reconstructed(Decoded(hand), k) = Answered(sharing.secret, k)
<1>1. Complete(sharing)
  BY DEF SharedInv
<1>2. hand \in Seq(Shards) /\ Len(hand) \in Nat /\ DOMAIN hand = 1..Len(hand) /\ DOMAIN from = 1..Len(hand)
  BY DEF VaultTypeOK
<1>3. k \in 2..Len(hand) /\ sharing.k <= k
  <2> DEFINE least == sharing.k
  <2>1. least \in 2..255 /\ k \in least..Len(hand)
    BY <1>1, CompleteTyped
  <2> HIDE DEF least
  <2>2. k \in 2..Len(hand) /\ least <= k
    BY <1>2, <2>1
  <2> QED
    BY <2>2 DEF least
<1>4. \A p \in 1..Len(hand) : from[p] \in 1..sharing.n /\ hand[p] = Shard(sharing, from[p])
  BY <1>2 DEF SharedInv, Undamaged
<1>5. \A p \in 1..Len(hand) : from[p] \in 1..127
  <2> DEFINE n == sharing.n
  <2>1. n \in 2..255 /\ n <= 127
    BY <1>1, CompleteTyped
  <2> HIDE DEF n
  <2>2. 1..n \subseteq 1..127
    BY <2>1
  <2> QED
    BY <1>4, <2>2 DEF n
<1>6. \A p \in 1..Len(hand) :
          /\ hand[p].Index = Coordinate(from[p])
          /\ hand[p].Value = ShardValue(sharing, from[p])
          /\ hand[p].Checksum = Checksum(sharing.secret, hand[p].Index, hand[p].Value)
  <2>1. \A i : /\ Shard(sharing, i).Index = Coordinate(i)
               /\ Shard(sharing, i).Value = ShardValue(sharing, i)
               /\ Shard(sharing, i).Checksum =
                     Checksum(sharing.secret, Coordinate(i), ShardValue(sharing, i))
    BY DEF Shard
  <2> QED
    BY <1>4, <2>1
<1>7. \A p \in 1..Len(hand) : Len(hand[p].Value) = Len(sharing.secret)
  <2>1. Len(sharing.secret) \in Nat
    BY <1>1, CompleteTyped
  <2>2. \A i : Len(ShardValue(sharing, i)) = Len(sharing.secret)
    BY <2>1 DEF ShardValue
  <2> QED
    BY <1>6, <2>2
<1>8. \A p \in 1..Len(hand) : hand[p].Index \in 1..255
  <2>1. \A i \in 1..127 : Coordinate(i) \in 1..255
    BY DEF Coordinate
  <2> TAKE p \in 1..Len(hand)
  <2>2. from[p] \in 1..127 /\ hand[p].Index = Coordinate(from[p])
    BY <1>5, <1>6
  <2>3. Coordinate(from[p]) \in 1..255
    BY <2>1, <2>2
  <2> QED
    BY <2>2, <2>3
<1>9. Decoded(hand) = hand
  <2>1. ASSUME NEW p \in 1..Len(hand)
        PROVE  [hand[p] EXCEPT !.Index = hand[p].Index % 256] = hand[p]
    <3> DEFINE i == hand[p].Index
    <3>1. i \in 1..255
      BY <1>8
    <3> HIDE DEF i
    <3>2. i % 256 = i
      BY <3>1
    <3>3. hand[p] = [Index |-> i, Value |-> hand[p].Value, Checksum |-> hand[p].Checksum]
      <4>1. hand[p] \in Shards
        BY <1>2
      <4> QED
        BY <4>1 DEF Shards, i
    <3> QED
      BY <3>2, <3>3 DEF i
  <2>2. Decoded(hand) = [p \in 1..Len(hand) |-> [hand[p] EXCEPT !.Index = hand[p].Index % 256]]
    BY <1>2 DEF Decoded
  <2>3. hand = [p \in 1..Len(hand) |-> hand[p]]
    BY <1>2
  <2> QED
    BY <2>1, <2>2, <2>3
<1>10. ~Malformed(hand, k)
  <2>1. ~(Len(hand) < k \/ Len(hand) = 0 \/ k <= 0) /\ 1 \in 1..Len(hand)
    BY <1>2, <1>3
  <2>2. \A p \in DOMAIN hand : hand[p].Index # 0
    <3>1. \A i \in 1..255 : i # 0
      OBVIOUS
    <3> QED
      BY <1>2, <1>8, <3>1
  <2>3. ~DuplicateIndex(hand)
    <3>1. ASSUME NEW p \in 1..Len(hand), NEW q \in 1..Len(hand), p # q
          PROVE  hand[p].Index # hand[q].Index
      <4>1. from[p] \in 1..127 /\ from[q] \in 1..127 /\ from[p] # from[q]
        BY <1>2, <1>5, <3>1 DEF Distinct
      <4>2. Coordinate(from[p]) # Coordinate(from[q])
        BY <4>1, CoordinatesApart
      <4> QED
        BY <1>6, <4>2
    <3> QED
      BY <1>2, <3>1 DEF DuplicateIndex
  <2>4. hand[1].Value # <<>>
    <3>1. Len(hand[1].Value) = Len(sharing.secret) /\ Len(sharing.secret) \in Nat \ {0}
      BY <1>1, <1>7, <2>1, CompleteTyped
    <3>2. Len(<<>>) = 0
      OBVIOUS
    <3> QED
      BY <3>1, <3>2
  <2> QED
    BY <2>1, <2>2, <2>3, <2>4 DEF Malformed
<1>11. ~OutOfRange(hand, k)
  <2>1. 1 \in 1..Len(hand) /\ 1..k \subseteq 1..Len(hand)
    BY <1>2, <1>3
  <2>2. Len(sharing.secret) \in Nat
    BY <1>1, CompleteTyped
  <2>3. \A i \in 1..k : Len(hand[i].Value) = Len(sharing.secret) /\ Len(hand[1].Value) = Len(sharing.secret)
    BY <1>7, <2>1
  <2>4. ~(Len(sharing.secret) < Len(sharing.secret))
    BY <2>2
  <2> QED
    BY <2>3, <2>4 DEF OutOfRange
<1>12. Interpolated(hand, k) = sharing.secret
  <2>1. k \in Nat /\ 1..k \subseteq 1..Len(hand)
    BY <1>2, <1>3
  <2>2. \A p, q \in 1..k : p # q => from[p] # from[q]
    BY <1>2, <2>1 DEF Distinct
  <2>3. ShardsOf(hand, from, sharing, k)
    BY <1>4, <2>1, <2>2 DEF ShardsOf
  <2> QED
    BY <1>1, <1>3, <2>1, <2>3, InterpolatesSecret
<1>13. ChecksumsMatch(hand, k, sharing.secret)
  BY <1>2, <1>6 DEF ChecksumsMatch
<1> QED
  BY <1>9, <1>10, <1>11, <1>12, <1>13 DEF Reconstructed

\* Any k different shards give the secret back: for all secrets, coefficients,
\* numbers of shards up to 127 and thresholds, in any order, with any further
\* shards of the sharing.
THEOREM EnoughShards == VaultSpec => []EnoughShardsReconstruct
<1> USE VaultAssumption
<1>1. VaultInit => SharedInv
  BY SharedInit
<1>2. SharedInv /\ VaultTypeOK /\ VaultTypeOK' /\ [VaultNext]_vaultVars => SharedInv'
  BY SharedNext
<1>3. SharedInv /\ VaultTypeOK => EnoughShardsReconstruct
  BY HandIsAnswered DEF EnoughShardsReconstruct
<1> QED
  BY <1>1, <1>2, <1>3, VaultTyped, PTL DEF VaultSpec

\* The multiplication and the inverse of internal/vault are those of the field
\* with 256 elements.
THEOREM FieldIsRight == VaultSpec => []FieldArithmetic
<1>1. FieldArithmetic
  <2>1. \A a \in Byte \ {Zero} : FieldProduct(a, gfInv(a)) = One
    BY MulIsFieldProduct, FieldLaws
  <2> QED
    BY <2>1, MulIsFieldProduct DEF FieldArithmetic
<1> QED
  BY <1>1, PTL

-----------------------------------------------------------------------------
(* The replay cache, for every set of ciphertexts and requests, every size   *)
(* of the cache and every freshness window.                                  *)

\* The types the arguments below need; the cache's order is not among them.
ReplayTypes ==
    /\ seen \in SUBSET Ciphertexts
    /\ created \in [Ciphertexts -> 0..Unmade]
    /\ proc \in [Procs -> {Idle} \cup [pc: {"fresh"}, ct: Ciphertexts]]
    /\ seconds \in 1..MaxTime
    /\ lives \in Seq(1..MaxTime) /\ Life \in Nat \ {0}
    /\ accepted \in Seq([ct: Ciphertexts, life: 1..Life])

\* A ciphertext whose window a process may still use.
InWindow(life, c) == created[c] # Unmade /\ (MaxAge > 0 => lives[life] <= created[c] + MaxAge)

\* Whoever is past the freshness check is so in a process that began within
\* the window, and so was whoever has decrypted.
WindowInv ==
    /\ \A n \in 1..Life : lives[n] <= seconds
    /\ \A p \in Procs : proc[p] # Idle => InWindow(Life, proc[p].ct)
    /\ \A i \in 1..Len(accepted) : InWindow(accepted[i].life, accepted[i].ct)

SeenInv == \A c \in seen : \E i \in 1..Len(accepted) : accepted[i] = [ct |-> c, life |-> Life]

ReplayInv == ReplayTypes /\ WindowInv /\ SeenInv

-----------------------------------------------------------------------------
\* What the history records.
LEMMA AcceptedEntry ==
    ASSUME ReplayTypes
    PROVE  /\ Len(accepted) \in Nat
           /\ \A i \in 1..Len(accepted) : accepted[i].ct \in Ciphertexts /\ accepted[i].life \in 1..Life
<1> DEFINE Entries == [ct: Ciphertexts, life: 1..Life]
<1>1. accepted \in Seq(Entries)
  BY DEF ReplayTypes
<1>2. \A e \in Entries : e.ct \in Ciphertexts /\ e.life \in 1..Life
  OBVIOUS
<1> HIDE DEF Entries
<1>3. Len(accepted) \in Nat /\ \A i \in 1..Len(accepted) : accepted[i] \in Entries
  BY <1>1
<1>4. QED
  BY <1>2, <1>3

LEMMA ReplayInitInv == ReplayInit => ReplayInv
<1> SUFFICES ASSUME ReplayInit PROVE ReplayInv
  OBVIOUS
<1> USE ReplayAssumption DEF ReplayInit, Life
<1>1. lives \in Seq(1..MaxTime) /\ Life = 1 /\ lives[1] = 1 /\ seconds = 1
  OBVIOUS
<1>2. ReplayTypes
  BY <1>1 DEF ReplayTypes, Unmade, Idle
<1>3. WindowInv
  BY <1>1 DEF WindowInv
<1>4. SeenInv
  BY DEF SeenInv
<1>5. QED
  BY <1>2, <1>3, <1>4 DEF ReplayInv

\* A new ciphertext: no request and no decryption is about one that was unmade.
LEMMA EncryptInv ==
    ASSUME ReplayInv, NEW c \in Ciphertexts, NEW t \in 0..MaxTime, Encrypt(c, t)
    PROVE  ReplayInv'
<1> USE ReplayAssumption DEF Encrypt, ReplayInv
<1>1. created' \in [Ciphertexts -> 0..Unmade] /\ \A d \in Ciphertexts : created[d] # Unmade => created'[d] = created[d]
  BY DEF ReplayTypes, Unmade
<1>2. ReplayTypes'
  BY <1>1 DEF ReplayTypes, Life, Unmade
<1>3. WindowInv'
  <2>1. \A n \in 1..Life, d \in Ciphertexts : InWindow(n, d) =>
            created'[d] # Unmade /\ (MaxAge > 0 => lives[n] <= created'[d] + MaxAge)
    BY <1>1 DEF InWindow
  <2>2. \A p \in Procs : proc[p] # Idle => proc[p].ct \in Ciphertexts
    BY DEF ReplayTypes
  <2>3. Life \in 1..Life
    BY DEF ReplayTypes
  <2>4. QED
    BY <2>1, <2>2, <2>3, AcceptedEntry DEF WindowInv, InWindow, Life, Unmade
<1>4. SeenInv'
  BY DEF SeenInv, Life
<1>5. QED
  BY <1>2, <1>3, <1>4

\* The freshness check compares with a seconds that is past the process's
\* beginning.
LEMMA DecryptCheckInv ==
    ASSUME ReplayInv, NEW p \in Procs, NEW c \in Ciphertexts, NEW intact \in BOOLEAN,
           DecryptCheck(p, c, intact)
    PROVE  ReplayInv'
<1> USE ReplayAssumption DEF DecryptCheck, ReplayInv
<1>1. InWindow(Life, c)
  <2>1. lives[Life] <= seconds /\ lives[Life] \in Nat /\ created[c] \in Nat /\ seconds \in Nat
    BY DEF WindowInv, ReplayTypes, Unmade, Life
  <2>2. QED
    BY <2>1 DEF Fresh, InWindow
<1>2. proc' = [proc EXCEPT ![p] = [pc |-> "fresh", ct |-> c]]
  OBVIOUS
<1>3. ReplayTypes'
  BY <1>2 DEF ReplayTypes, Life, Unmade
<1>4. WindowInv'
  <2>1. \A q \in Procs : proc'[q] # Idle => InWindow(Life, proc'[q].ct)
    BY <1>1, <1>2 DEF WindowInv, ReplayTypes
  <2>2. QED
    BY <2>1 DEF WindowInv, InWindow, Life
<1>5. SeenInv'
  BY DEF SeenInv, Life
<1>6. QED
  BY <1>3, <1>4, <1>5

LEMMA DecryptRefuseInv ==
    ASSUME ReplayInv, NEW p \in Procs, DecryptRefuse(p)
    PROVE  ReplayInv'
<1> USE ReplayAssumption DEF DecryptRefuse, ReplayInv
<1>1. \A q \in Procs : proc'[q] = Idle \/ proc'[q] = proc[q]
  BY DEF ReplayTypes
<1>2. ReplayTypes'
  BY DEF ReplayTypes, Life, Unmade
<1>3. WindowInv'
  BY <1>1 DEF WindowInv, InWindow, Life
<1>4. SeenInv'
  BY DEF SeenInv, Life
<1>5. QED
  BY <1>2, <1>3, <1>4

\* Whatever is evicted: nothing but the ciphertext that is decrypted comes in.
LEMMA DecryptAcceptInv ==
    ASSUME ReplayInv, NEW p \in Procs, DecryptAccept(p)
    PROVE  ReplayInv'
<1> USE ReplayAssumption DEF DecryptAccept, ReplayInv
<1> DEFINE c == proc[p].ct
           entry == [ct |-> c, life |-> Life]
<1>1. c \in Ciphertexts /\ InWindow(Life, c) /\ Life' = Life
  BY DEF ReplayTypes, WindowInv, Life, Idle
<1>2. seen' \subseteq seen \cup {c}
  BY DEF Remember
<1>3. /\ accepted' \in Seq([ct: Ciphertexts, life: 1..Life])
      /\ Len(accepted') = Len(accepted) + 1
      /\ \A i \in 1..Len(accepted) : accepted'[i] = accepted[i]
      /\ accepted'[Len(accepted) + 1] = entry
      /\ Len(accepted) \in Nat
  <2>1. entry \in [ct: Ciphertexts, life: 1..Life]
    BY <1>1 DEF ReplayTypes
  <2>2. accepted' = Append(accepted, entry)
    OBVIOUS
  <2>3. accepted \in Seq([ct: Ciphertexts, life: 1..Life])
    BY DEF ReplayTypes
  <2> HIDE DEF entry
  <2>4. QED
    BY <2>1, <2>2, <2>3
<1>4. \A q \in Procs : proc'[q] = Idle \/ proc'[q] = proc[q]
  BY DEF ReplayTypes
<1>5. ReplayTypes'
  BY <1>1, <1>2, <1>3 DEF ReplayTypes, Unmade
<1>6. WindowInv'
  <2>1. \A i \in 1..Len(accepted') : InWindow(accepted'[i].life, accepted'[i].ct)
    BY <1>1, <1>3 DEF WindowInv
  <2>2. QED
    BY <2>1, <1>1, <1>4 DEF WindowInv, InWindow
<1>7. SeenInv'
  <2> SUFFICES ASSUME NEW d \in seen'
               PROVE  \E i \in 1..Len(accepted') : accepted'[i] = [ct |-> d, life |-> Life]
    BY <1>1 DEF SeenInv
  <2>1. CASE d = c
    BY <2>1, <1>3
  <2>2. CASE d \in seen
    BY <2>2, <1>3 DEF SeenInv
  <2>3. QED
    BY <2>1, <2>2, <1>2
<1>8. QED
  BY <1>5, <1>6, <1>7

\* The new process knows nothing: its cache is empty and it has no requests.
LEMMA RestartInv == ASSUME ReplayInv, Restart PROVE ReplayInv'
<1> USE ReplayAssumption DEF Restart, ReplayInv
<1>1. /\ lives' \in Seq(1..MaxTime) /\ Life' = Life + 1 /\ Life \in Nat \ {0}
      /\ \A n \in 1..Life : lives'[n] = lives[n]
      /\ lives'[Life + 1] = seconds
  BY DEF ReplayTypes, Life
<1>2. \A p \in Procs : proc'[p] = Idle
  OBVIOUS
<1>3. ReplayTypes'
  <2>1. [ct: Ciphertexts, life: 1..Life] \subseteq [ct: Ciphertexts, life: 1..Life']
    BY <1>1
  <2>2. accepted \in Seq([ct: Ciphertexts, life: 1..Life'])
    <3> DEFINE S == [ct: Ciphertexts, life: 1..Life]
               T == [ct: Ciphertexts, life: 1..Life']
    <3>1. accepted \in Seq(S) /\ S \subseteq T
      BY <2>1 DEF ReplayTypes
    <3> HIDE DEF S, T
    <3>2. accepted \in Seq(T)
      BY <3>1, SeqMonotonic
    <3>3. QED
      BY <3>2 DEF T
  <2>3. QED
    BY <1>1, <2>2 DEF ReplayTypes, Unmade
<1>4. WindowInv'
  <2>1. \A n \in 1..Life' : lives'[n] <= seconds
    <3>1. \A n \in 1..Life : lives'[n] <= seconds
      BY <1>1 DEF WindowInv
    <3>2. lives'[Life + 1] <= seconds
      BY <1>1 DEF ReplayTypes
    <3>3. \A n \in 1..Life' : n \in 1..Life \/ n = Life + 1
      BY <1>1
    <3>4. QED
      BY <3>1, <3>2, <3>3
  <2>2. \A i \in 1..Len(accepted) : accepted[i].life \in 1..Life
    BY AcceptedEntry
  <2>3. QED
    BY <1>1, <1>2, <2>1, <2>2 DEF WindowInv, InWindow, Unmade
<1>5. SeenInv'
  BY DEF SeenInv
<1>6. QED
  BY <1>3, <1>4, <1>5

LEMMA TickInv == ASSUME ReplayInv, ReplayTick PROVE ReplayInv'
<1> USE ReplayAssumption DEF ReplayTick, ReplayInv
<1>1. ReplayTypes'
  BY DEF ReplayTypes, Life, Unmade
<1>2. WindowInv'
  <2>1. \A n \in 1..Life : lives[n] \in Nat
    BY DEF ReplayTypes, Life
  <2>2. QED
    BY <2>1 DEF WindowInv, InWindow, Life, ReplayTypes, Unmade
<1>3. SeenInv'
  BY DEF SeenInv, Life
<1>4. QED
  BY <1>1, <1>2, <1>3

LEMMA StutterInv == ASSUME ReplayInv, UNCHANGED replayVars PROVE ReplayInv'
BY DEF ReplayInv, ReplayTypes, WindowInv, SeenInv, InWindow, Life, Unmade, replayVars

-----------------------------------------------------------------------------
\* The invariant of the freshness window and of what the cache stands for.
THEOREM ReplayInvariance == ReplaySpec => []ReplayInv
<1>1. ReplayInv /\ [ReplayNext]_replayVars => ReplayInv'
  BY EncryptInv, DecryptCheckInv, DecryptRefuseInv, DecryptAcceptInv, RestartInv, TickInv, StutterInv
  DEF ReplayNext
<1>2. QED
  BY ReplayInitInv, <1>1, PTL DEF ReplaySpec

\* No process that began after the window of a ciphertext decrypts it, whatever
\* the clocks of those who encrypt, for any window and any number of restarts.
THEOREM WindowsClose == ReplaySpec => []WindowClosed
<1>1. ReplayInv => WindowClosed
  BY DEF ReplayInv, WindowInv, InWindow, WindowClosed
<1>2. QED
  BY ReplayInvariance, <1>1, PTL

\* Refused requests leave no trace in the cache, whatever it evicts.
THEOREM SeenWereDecrypted == ReplaySpec => []OnlyDecryptedSeen
<1>1. ReplayInv => OnlyDecryptedSeen
  <2> SUFFICES ASSUME ReplayInv, NEW c \in seen
               PROVE  [ct |-> c, life |-> Life] \in Range(accepted)
    BY DEF OnlyDecryptedSeen
  <2>1. PICK i \in 1..Len(accepted) : accepted[i] = [ct |-> c, life |-> Life]
    BY DEF ReplayInv, SeenInv
  <2>2. DOMAIN accepted = 1..Len(accepted)
    BY DEF ReplayInv, ReplayTypes
  <2>3. QED
    BY <2>1, <2>2, Zenon DEF Range
<1>2. QED
  BY ReplayInvariance, <1>1, PTL

-----------------------------------------------------------------------------
(* How far apart a process decrypts one ciphertext twice.                    *)

\* The cached ciphertexts, each once and in their order, never too many.
OrderInv ==
    /\ seenSeq \in Seq(Ciphertexts)
    /\ \A i, j \in 1..Len(seenSeq) : seenSeq[i] = seenSeq[j] => i = j
    /\ \A c : c \in seen <=> \E i \in 1..Len(seenSeq) : seenSeq[i] = c
    /\ Len(seenSeq) <= SeenCacheMax
    /\ Life <= MaxLives

LeftByEviction == SeenCacheMax + 1 - SeenCacheMax \div 2

\* They are what the process has decrypted last: all of it, or at least as many
\* as an eviction leaves.
RecentInv ==
    LET n == Len(accepted)
        m == Len(seenSeq)
    IN  /\ m <= n
        /\ \A k \in 1..m : accepted[n - m + k] = [ct |-> seenSeq[k], life |-> Life]
        /\ \A i \in 1..(n - m) : accepted[i].life = Life => m >= LeftByEviction

CacheInv == OrderInv /\ RecentInv /\ SpacedReplay

\* As many ciphertexts as places in the order.
LEMMA CacheCounted ==
    ASSUME OrderInv
    PROVE  /\ IsFiniteSet(seen) /\ Cardinality(seen) = Len(seenSeq)
           /\ Len(seenSeq) \in Nat /\ seen \subseteq Ciphertexts
           /\ DOMAIN seenSeq = 1..Len(seenSeq)
<1> DEFINE m == Len(seenSeq)
<1>1. m \in Nat /\ seenSeq \in [1..m -> Ciphertexts]
  BY DEF OrderInv
<1>2. seen \subseteq Ciphertexts
  BY <1>1 DEF OrderInv
<1>3. seenSeq \in Surjection(1..m, seen) /\ seenSeq \in Injection(1..m, seen)
  <2>1. seenSeq \in [1..m -> seen]
    BY <1>1 DEF OrderInv
  <2> QED
    BY <2>1 DEF OrderInv, Surjection, Injection, IsInjective
<1>4. IsFiniteSet(1..m) /\ Cardinality(1..m) = m
  BY <1>1, FS_Interval
<1> HIDE DEF m
<1> QED
  BY <1>1, <1>2, <1>3, <1>4, FS_Surjection DEF m

\* The cache after one more: the order moves on by as many as are evicted.
LEMMA RememberStep ==
    ASSUME OrderInv, NEW c \in Ciphertexts, c \notin seen, Remember(c)
    PROVE  \E gone \in 0..Len(seenSeq) :
              /\ gone # 0 => Len(seenSeq) + 1 - gone >= LeftByEviction
              /\ Len(seenSeq) + 1 - gone <= SeenCacheMax
              /\ seenSeq' \in Seq(Ciphertexts) /\ Len(seenSeq') = Len(seenSeq) + 1 - gone
              /\ \A k \in 1..Len(seenSeq') :
                    seenSeq'[k] = IF k + gone = Len(seenSeq) + 1 THEN c ELSE seenSeq[k + gone]
              /\ \A d : d \in seen' <=> \E k \in 1..Len(seenSeq') : seenSeq'[k] = d
<1> DEFINE m == Len(seenSeq)
           order == Append(seenSeq, c)
           gone == IF Cardinality(seen) + 1 > SeenCacheMax THEN SeenCacheMax \div 2 ELSE 0
<1>1. m \in Nat /\ m <= SeenCacheMax /\ seenSeq \in Seq(Ciphertexts) /\ Cardinality(seen) = m
  BY CacheCounted DEF OrderInv
<1>2. gone \in 0..m /\ (gone # 0 => m + 1 - gone >= LeftByEviction) /\ m + 1 - gone <= SeenCacheMax
  BY <1>1, ReplayAssumption DEF LeftByEviction
<1>3. /\ order \in Seq(Ciphertexts) /\ Len(order) = m + 1
      /\ \A k \in 1..(m + 1) : order[k] = IF k = m + 1 THEN c ELSE seenSeq[k]
  BY <1>1
<1>4. seenSeq' = SubSeq(order, gone + 1, Len(order))
      /\ seen' = (seen \cup {c}) \ Range(SubSeq(order, 1, gone))
  BY DEF Remember
<1> HIDE DEF m, order, gone
<1>5. /\ seenSeq' \in Seq(Ciphertexts) /\ Len(seenSeq') = m + 1 - gone
      /\ \A k \in 1..(m + 1 - gone) : seenSeq'[k] = order[gone + k]
  BY <1>1, <1>2, <1>3, <1>4
<1>6. \A d : d \in Range(SubSeq(order, 1, gone)) <=> \E k \in 1..gone : order[k] = d
  <2> DEFINE s == SubSeq(order, 1, gone)
  <2>1. s \in Seq(Ciphertexts) /\ Len(s) = gone /\ \A k \in 1..gone : s[k] = order[k]
    BY <1>1, <1>2, <1>3
  <2>2. DOMAIN s = 1..gone
    BY <2>1
  <2> HIDE DEF s
  <2>3. \A d : d \in Range(s) <=> \E k \in 1..gone : s[k] = d
    BY <2>2, Zenon DEF Range
  <2> QED
    BY <2>1, <2>3 DEF s
<1>7. \A i, j \in 1..(m + 1) : order[i] = order[j] => i = j
  <2>1. \A i \in 1..m : seenSeq[i] # c
    BY DEF OrderInv, m
  <2> QED
    BY <1>1, <1>3, <2>1 DEF OrderInv, m
<1>8. \A d : d \in seen \cup {c} <=> \E k \in 1..(m + 1) : order[k] = d
  <2>1. \A d : d \in seen <=> \E k \in 1..m : seenSeq[k] = d
    BY DEF OrderInv, m
  <2> QED
    BY <1>1, <1>3, <2>1
<1>9. \A d : d \in seen' <=> \E k \in 1..(m + 1 - gone) : seenSeq'[k] = d
  <2>1. ASSUME NEW d \in seen'
        PROVE  \E k \in 1..(m + 1 - gone) : seenSeq'[k] = d
    <3>1. PICK k \in 1..(m + 1) : order[k] = d
      BY <1>4, <1>8
    <3>2. k \notin 1..gone
      BY <1>4, <1>6, <3>1
    <3>3. k - gone \in 1..(m + 1 - gone) /\ seenSeq'[k - gone] = d
      BY <1>1, <1>2, <1>5, <3>1, <3>2
    <3> QED
      BY <3>3
  <2>2. ASSUME NEW k \in 1..(m + 1 - gone)
        PROVE  seenSeq'[k] \in seen'
    <3>1. gone + k \in 1..(m + 1) /\ seenSeq'[k] = order[gone + k]
      BY <1>1, <1>2, <1>5
    <3>2. \A i \in 1..gone : order[i] # order[gone + k]
      BY <1>1, <1>2, <1>7, <3>1
    <3> QED
      BY <1>4, <1>6, <1>8, <3>1, <3>2
  <2> QED
    BY <2>1, <2>2
<1>10. \A k \in 1..(m + 1 - gone) :
          seenSeq'[k] = IF k + gone = m + 1 THEN c ELSE seenSeq[k + gone]
  <2> TAKE k \in 1..(m + 1 - gone)
  <2>1. gone + k \in 1..(m + 1) /\ gone + k = k + gone
    BY <1>1, <1>2
  <2>2. order[gone + k] = IF gone + k = m + 1 THEN c ELSE seenSeq[gone + k]
    BY <1>3, <2>1
  <2> QED
    BY <1>5, <2>1, <2>2
<1> QED
  BY <1>2, <1>5, <1>9, <1>10 DEF m

\* Whatever is between two decryptions of one ciphertext: the second finds it
\* evicted, so all that is cached was decrypted after the first.
LEMMA AcceptCache ==
    ASSUME ReplayInv, CacheInv, NEW p \in Procs, DecryptAccept(p)
    PROVE  CacheInv'
<1> DEFINE c == proc[p].ct
           entry == [ct |-> c, life |-> Life]
           n == Len(accepted)
           m == Len(seenSeq)
<1>1. c \in Ciphertexts /\ c \notin seen /\ Remember(c) /\ lives' = lives
  BY DEF DecryptAccept, ReplayInv, ReplayTypes, Idle
<1>2. /\ Len(accepted') = n + 1 /\ n \in Nat
      /\ \A i \in 1..n : accepted'[i] = accepted[i]
      /\ accepted'[n + 1] = entry
  <2>1. accepted' = Append(accepted, entry) /\ entry \in [ct: Ciphertexts, life: 1..Life]
    BY <1>1 DEF DecryptAccept, ReplayInv, ReplayTypes
  <2>2. accepted \in Seq([ct: Ciphertexts, life: 1..Life])
    BY DEF ReplayInv, ReplayTypes
  <2> HIDE DEF entry
  <2> QED
    BY <2>1, <2>2
<1>3. m \in Nat /\ IsFiniteSet(seen) /\ Cardinality(seen) = m
  BY CacheCounted DEF CacheInv
<1>4. PICK gone \in 0..m :
         /\ gone # 0 => m + 1 - gone >= LeftByEviction
         /\ m + 1 - gone <= SeenCacheMax
         /\ seenSeq' \in Seq(Ciphertexts) /\ Len(seenSeq') = m + 1 - gone
         /\ \A k \in 1..Len(seenSeq') :
               seenSeq'[k] = IF k + gone = m + 1 THEN c ELSE seenSeq[k + gone]
         /\ \A d : d \in seen' <=> \E k \in 1..Len(seenSeq') : seenSeq'[k] = d
  BY <1>1, RememberStep DEF CacheInv
<1>5. /\ m <= n
      /\ \A k \in 1..m : accepted[n - m + k] = [ct |-> seenSeq[k], life |-> Life]
      /\ \A i \in 1..(n - m) : accepted[i].life = Life => m >= LeftByEviction
  BY DEF CacheInv, RecentInv
<1>6. Life' = Life /\ Life \in Nat
  BY <1>1 DEF Life, ReplayInv, ReplayTypes
<1>7. /\ \A i, j \in 1..m : seenSeq[i] = seenSeq[j] => i = j
      /\ \A i \in 1..m : seenSeq[i] # c
      /\ Life <= MaxLives
  BY <1>1 DEF CacheInv, OrderInv
<1> HIDE DEF c, n, m
<1>8. OrderInv'
  <2>1. \A i, j \in 1..Len(seenSeq') : seenSeq'[i] = seenSeq'[j] => i = j
    BY <1>3, <1>4, <1>7
  <2> QED
    BY <1>4, <1>6, <1>7, <2>1 DEF OrderInv
<1>9. RecentInv'
  <2> DEFINE r == m + 1 - gone
  <2>1. r \in Nat /\ r <= n + 1 /\ n + 1 - r = n - m + gone
    BY <1>2, <1>3, <1>4, <1>5
  <2>2. ASSUME NEW k \in 1..r
        PROVE  accepted'[n + 1 - r + k] = [ct |-> seenSeq'[k], life |-> Life]
    <3>1. CASE k + gone = m + 1
      <4>1. n + 1 - r + k = n + 1
        BY <1>2, <1>3, <1>4, <2>1, <3>1
      <4>2. seenSeq'[k] = c
        BY <1>4, <3>1
      <4> QED
        BY <1>2, <4>1, <4>2
    <3>2. CASE k + gone # m + 1
      <4>1. k + gone \in 1..m /\ seenSeq'[k] = seenSeq[k + gone]
        BY <1>3, <1>4, <3>2
      <4>2. n + 1 - r + k = n - m + (k + gone) /\ n - m + (k + gone) \in 1..n
        <5>1. m \in Nat /\ n \in Nat /\ gone \in Int /\ k \in Int /\ m <= n
          BY <1>2, <1>3, <1>4, <1>5
        <5>2. n - m + (k + gone) \in 1..n
          BY <4>1, <5>1
        <5> QED
          BY <2>1, <5>1, <5>2
      <4>3. accepted'[n + 1 - r + k] = accepted[n - m + (k + gone)]
        BY <1>2, <4>2
      <4> QED
        BY <1>5, <4>1, <4>3
    <3> QED
      BY <3>1, <3>2
  <2>3. ASSUME NEW i \in 1..(n + 1 - r), accepted'[i].life = Life
        PROVE  r >= LeftByEviction
    <3>1. CASE gone # 0
      BY <1>4, <3>1
    <3>2. CASE gone = 0
      <4>1. i \in 1..(n - m) /\ accepted'[i] = accepted[i]
        BY <1>2, <1>3, <1>5, <2>1, <3>2
      <4>2. m >= LeftByEviction
        BY <1>5, <2>3, <4>1
      <4> QED
        BY <1>3, <3>2, <4>2, ReplayAssumption DEF LeftByEviction
    <3> QED
      BY <3>1, <3>2
  <2> QED
    BY <1>2, <1>4, <1>6, <2>1, <2>2, <2>3 DEF RecentInv
<1>10. SpacedReplay'
  <2> SUFFICES ASSUME NEW i \in 1..(n + 1), NEW j \in 1..(n + 1), i < j, accepted'[i] = accepted'[j]
               PROVE  Cardinality({accepted'[k].ct : k \in (i + 1)..(j - 1)} \ {accepted'[i].ct})
                          >= LeftByEviction
    BY <1>2 DEF SpacedReplay, LeftByEviction
  <2> DEFINE after == {accepted'[k].ct : k \in (i + 1)..(j - 1)}
             between == {accepted[k].ct : k \in (i + 1)..(j - 1)}
             D == between \ {accepted[i].ct}
  <2>1. i \in 1..n /\ accepted'[i] = accepted[i] /\ after = between
    BY <1>2
  <2> HIDE DEF after
  <2>2. CASE j \in 1..n
    <3>1. accepted[i] = accepted[j]
      BY <1>2, <2>1, <2>2
    <3>2. Cardinality(D) >= LeftByEviction
      BY <2>1, <2>2, <3>1 DEF CacheInv, SpacedReplay, LeftByEviction, n
    <3> HIDE DEF between
    <3> QED
      BY <2>1, <3>2 DEF after
  <2>3. CASE j = n + 1
    <3>1. accepted[i] = entry /\ accepted[i].ct = c /\ accepted[i].life = Life
      <4>1. accepted[i] = entry
        BY <1>2, <2>1, <2>3
      <4>2. entry.ct = c /\ entry.life = Life
        OBVIOUS
      <4> QED
        BY <4>1, <4>2
    <3>2. i \in 1..(n - m) /\ m >= LeftByEviction
      <4>1. ASSUME i > n - m PROVE FALSE
        <5>1. i - (n - m) \in 1..m /\ n - m + (i - (n - m)) = i
          BY <1>2, <1>3, <1>5, <2>1, <4>1
        <5>2. [ct |-> seenSeq[i - (n - m)], life |-> Life] = accepted[i]
          BY <1>5, <5>1
        <5>3. seenSeq[i - (n - m)] = c
          BY <3>1, <5>2
        <5> QED
          BY <1>7, <5>1, <5>3
      <4> QED
        BY <1>2, <1>3, <1>5, <2>1, <3>1, <4>1
    <3>3. seen \subseteq D
      <4> SUFFICES ASSUME NEW d \in seen PROVE d \in D
        OBVIOUS
      <4>1. PICK k \in 1..m : seenSeq[k] = d
        BY DEF CacheInv, OrderInv, m
      <4>2. n - m + k \in (i + 1)..(j - 1)
        BY <1>2, <1>3, <1>5, <2>3, <3>2, <4>1
      <4>3. accepted[n - m + k] = [ct |-> d, life |-> Life]
        BY <1>5, <4>1
      <4>4. accepted[n - m + k].ct = d
        BY <4>3
      <4>5. d # c
        BY <1>7, <4>1
      <4> QED
        BY <3>1, <4>2, <4>4, <4>5
    <3>4. IsFiniteSet(D)
      <4> DEFINE I == (i + 1)..(j - 1)
                 E == {accepted[k].ct : k \in I}
                 f == [k \in I |-> accepted[k].ct]
      <4>1. f \in Surjection(I, E)
        BY DEF Surjection
      <4>2. IsFiniteSet(I)
        BY <1>2, FS_Interval
      <4>3. IsFiniteSet(E)
        BY <4>1, <4>2, FS_Surjection
      <4> HIDE DEF E
      <4>4. D = E \ {accepted[i].ct}
        BY DEF E
      <4> QED
        BY <4>3, <4>4, FS_Subset
    <3>5. Cardinality(seen) <= Cardinality(D) /\ Cardinality(D) \in Nat
      BY <3>3, <3>4, FS_Subset, FS_CardinalityType
    <3>6. Cardinality(D) >= LeftByEviction
      BY <1>3, <3>2, <3>5, ReplayAssumption DEF LeftByEviction
    <3> HIDE DEF between
    <3> QED
      BY <2>1, <3>6 DEF after
  <2> QED
    BY <1>2, <2>2, <2>3
<1> QED
  BY <1>8, <1>9, <1>10 DEF CacheInv

LEMMA RestartCache ==
    ASSUME ReplayInv, CacheInv, Restart
    PROVE  CacheInv'
<1>1. /\ seen' = {} /\ seenSeq' = <<>> /\ accepted' = accepted /\ Life < MaxLives
      /\ lives' = Append(lives, seconds) /\ lives \in Seq(1..MaxTime) /\ seconds \in 1..MaxTime
  BY DEF Restart, ReplayInv, ReplayTypes
<1>2. Life' = Life + 1 /\ Life \in Nat
  BY <1>1 DEF Life
<1>3. \A i \in 1..Len(accepted) : accepted[i].life # Life + 1
  BY <1>2, AcceptedEntry DEF ReplayInv
<1>4. OrderInv'
  BY <1>1, <1>2, ReplayAssumption DEF OrderInv
<1>5. RecentInv'
  BY <1>1, <1>2, <1>3, AcceptedEntry DEF RecentInv, ReplayInv
<1>6. SpacedReplay'
  BY <1>1 DEF CacheInv, SpacedReplay
<1> QED
  BY <1>4, <1>5, <1>6 DEF CacheInv

LEMMA CacheNextInv == ReplayInv /\ CacheInv /\ [ReplayNext]_replayVars => CacheInv'
<1> SUFFICES ASSUME ReplayInv, CacheInv, [ReplayNext]_replayVars PROVE CacheInv'
  OBVIOUS
<1>1. CASE \E p \in Procs : DecryptAccept(p)
  BY <1>1, AcceptCache
<1>2. CASE Restart
  BY <1>2, RestartCache
<1>3. ASSUME UNCHANGED <<seen, seenSeq, lives, accepted>>
      PROVE  CacheInv'
  BY <1>3 DEF CacheInv, OrderInv, RecentInv, SpacedReplay, Life
<1> QED
  BY <1>1, <1>2, <1>3
  DEF ReplayNext, Encrypt, DecryptCheck, DecryptRefuse, ReplayTick, replayVars

LEMMA CacheInvariance == ReplaySpec => [](ReplayInv /\ CacheInv)
<1>1. ReplayInit => CacheInv
  <2> SUFFICES ASSUME ReplayInit PROVE CacheInv
    OBVIOUS
  <2>1. /\ seen = {} /\ seenSeq = <<>> /\ accepted = <<>> /\ Life = 1
    BY DEF ReplayInit, Life
  <2> QED
    BY <2>1, ReplayAssumption DEF CacheInv, OrderInv, RecentInv, SpacedReplay
<1>2. (ReplayInv /\ CacheInv) /\ [ReplayNext]_replayVars => (ReplayInv /\ CacheInv)'
  BY CacheNextInv, EncryptInv, DecryptCheckInv, DecryptRefuseInv, DecryptAcceptInv, RestartInv,
     TickInv, StutterInv
  DEF ReplayNext
<1> QED
  BY <1>1, <1>2, ReplayInitInv, PTL DEF ReplaySpec

\* The cache holds each ciphertext once, in one order with its keys, and never
\* more of them than its limit.
THEOREM CacheTyped == ReplaySpec => []ReplayTypeOK
<1>1. ReplayInv /\ CacheInv => ReplayTypeOK
  <2> SUFFICES ASSUME ReplayInv, CacheInv PROVE ReplayTypeOK
    OBVIOUS
  <2>1. OrderInv
    BY DEF CacheInv
  <2>2. Cardinality(seen) = Len(seenSeq) /\ DOMAIN seenSeq = 1..Len(seenSeq)
    BY <2>1, CacheCounted
  <2>3. Range(seenSeq) = seen
    <3>1. \A d : d \in Range(seenSeq) <=> \E k \in 1..Len(seenSeq) : seenSeq[k] = d
      BY <2>2, Zenon DEF Range
    <3> QED
      BY <2>1, <3>1 DEF OrderInv
  <2> QED
    BY <2>1, <2>2, <2>3 DEF ReplayInv, ReplayTypes, OrderInv, ReplayTypeOK
<1> QED
  BY <1>1, CacheInvariance, PTL

\* Between two decryptions of a ciphertext by one process lie as many different
\* others as it takes to fill the cache from what an eviction leaves.
THEOREM ReplaysAreSpaced == ReplaySpec => []SpacedReplay
<1>1. CacheInv => SpacedReplay
  BY DEF CacheInv
<1> QED
  BY <1>1, CacheInvariance, PTL
=============================================================================
