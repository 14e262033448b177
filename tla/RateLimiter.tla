---------------------------- MODULE RateLimiter ----------------------------
(***************************************************************************)
(* The sliding-window limiter of pkg/middleware: one bucket of timestamps   *)
(* per client, looked up under the limiter's lock and changed under its own *)
(* lock, with the clock read in between, and a cleaner that deletes buckets *)
(* that look idle.  RequestPath composes these actions with the rest of a   *)
(* request; the server has two such limiters, one by address, one by token. *)
(*                                                                         *)
(* A bucket is an object that outlives its entry in the map: a request that *)
(* has looked it up goes on using it after the cleaner has deleted it.      *)
(***************************************************************************)
EXTENDS Integers, Sequences, FiniteSets

CONSTANTS
    Clients,     \* keys of the limiter
    Goroutines,  \* requests that may be inside allow at once
    Limit,       \* rl.limit
    Window,      \* rl.window
    MaxClock     \* bound: the clock stops here

ASSUME LimiterAssumption ==
    /\ IsFiniteSet(Clients) /\ IsFiniteSet(Goroutines)
    /\ Limit \in Nat \ {0} /\ Window \in Nat /\ MaxClock \in Nat

VARIABLES
    clock,       \* time.Now()
    buckets,     \* rl.buckets
    timestamps,  \* b.timestamps, of every bucket object
    call,        \* per goroutine: its progress through allow
    cleaner,     \* the progress of cleanup
    admitted,    \* history: admissions by client and timestamp
    disturbed    \* history: clients with an admission that was not InOrder

limiterVars == <<clock, buckets, timestamps, call, cleaner, admitted, disturbed>>

-----------------------------------------------------------------------------
NoBucket == 0
NoCall   == [pc |-> "idle"]
Resting  == [pc |-> "idle"]
Buckets  == 1..(Cardinality(Clients) + Cardinality(Goroutines))
Instants == 0..MaxClock

HeldBy(calls) == {calls[g].bucket : g \in {h \in Goroutines : calls[h] # NoCall}}
Mapped(map)   == {map[k] : k \in Clients} \ {NoBucket}
Unused        == CHOOSE b \in Buckets : b \notin HeldBy(call) \cup Mapped(buckets)

\* The bucket objects that are still referred to; the others are wiped, so
\* that they do not distinguish states.
Alive(stamps, map, calls) ==
    [b \in Buckets |-> IF b \in HeldBy(calls) \cup Mapped(map) THEN stamps[b] ELSE <<>>]

\* The eviction loop: timestamps are dropped from the front while they are
\* before the cutoff.
FirstKept(s, cutoff) ==
    CHOOSE i \in 1..(Len(s) + 1) :
        /\ \A j \in 1..(i - 1) : s[j] < cutoff
        /\ i <= Len(s) => s[i] >= cutoff
Evicted(s, cutoff) == SubSeq(s, FirstKept(s, cutoff), Len(s))

\* What cleanup takes for idle; the variant looks at the oldest timestamp.
IdleByFirst(s, cutoff) == Len(s) = 0 \/ s[1] < cutoff
LooksIdle(s, cutoff)   == Len(s) = 0 \/ s[Len(s)] < cutoff

-----------------------------------------------------------------------------
LimiterInit ==
    /\ clock = 0
    /\ buckets = [k \in Clients |-> NoBucket]
    /\ timestamps = [b \in Buckets |-> <<>>]
    /\ call = [g \in Goroutines |-> NoCall]
    /\ cleaner = Resting
    /\ admitted = [k \in Clients |-> [t \in Instants |-> 0]]
    /\ disturbed = [k \in Clients |-> FALSE]

\* allow, under rl.mu: look the bucket up, or make one.
Lookup(g, k) ==
    /\ call[g] = NoCall
    /\ LET b == IF buckets[k] = NoBucket THEN Unused ELSE buckets[k]
       IN  /\ buckets' = [buckets EXCEPT ![k] = b]
           /\ call' = [call EXCEPT ![g] = [pc |-> "clock", client |-> k, bucket |-> b]]
    /\ UNCHANGED <<clock, timestamps, cleaner, admitted, disturbed>>

\* now := time.Now(), with no lock held.
ReadClock(g) ==
    /\ call[g].pc = "clock"
    /\ call' = [call EXCEPT ![g] =
            [pc |-> "lock", client |-> @.client, bucket |-> @.bucket, now |-> clock]]
    /\ UNCHANGED <<clock, buckets, timestamps, cleaner, admitted, disturbed>>

\* allow, under b.mu: evict, and refuse or record the attempt.
KeptBy(g) == Evicted(timestamps[call[g].bucket], call[g].now - Window)
HasRoomForOneMore(s) == Len(s) <= Limit
HasRoom(s) == Len(s) < Limit
Admits(g)  == call[g].pc = "lock" /\ HasRoom(KeptBy(g))

\* Is the call's bucket still the client's, and none of its timestamps newer?
InOrder(g) ==
    LET s == timestamps[call[g].bucket]
    IN  /\ buckets[call[g].client] = call[g].bucket
        /\ s # <<>> => s[Len(s)] <= call[g].now

Decide(g) ==
    /\ call[g].pc = "lock"
    /\ LET k == call[g].client
           s == IF Admits(g) THEN Append(KeptBy(g), call[g].now) ELSE KeptBy(g)
       IN  /\ call' = [call EXCEPT ![g] = NoCall]
           /\ timestamps' = Alive([timestamps EXCEPT ![call[g].bucket] = s], buckets, call')
           /\ IF Admits(g)
              THEN /\ admitted' = [admitted EXCEPT ![k][call[g].now] = @ + 1]
                   /\ disturbed' = [disturbed EXCEPT ![k] = @ \/ ~InOrder(g)]
              ELSE UNCHANGED <<admitted, disturbed>>
    /\ UNCHANGED <<clock, buckets, cleaner>>

\* cleanup: the ticker fires and the cutoff is computed ...
CleanTick ==
    /\ cleaner = Resting
    /\ cleaner' = [pc |-> "sweep", cutoff |-> clock - Window]
    /\ UNCHANGED <<clock, buckets, timestamps, call, admitted, disturbed>>

\* ... before rl.mu is taken for all of the sweep.  (Buckets are looked at one by
\* one; requests of different clients commute, so one step stands for the loop.)
Clean ==
    /\ cleaner # Resting
    /\ buckets' = [k \in Clients |->
            IF buckets[k] # NoBucket /\ LooksIdle(timestamps[buckets[k]], cleaner.cutoff)
            THEN NoBucket ELSE buckets[k]]
    /\ timestamps' = Alive(timestamps, buckets', call)
    /\ cleaner' = Resting
    /\ UNCHANGED <<clock, call, admitted, disturbed>>

Tick ==
    /\ clock < MaxClock
    /\ clock' = clock + 1
    /\ UNCHANGED <<buckets, timestamps, call, cleaner, admitted, disturbed>>

-----------------------------------------------------------------------------
Calls == {NoCall} \cup [pc: {"clock"}, client: Clients, bucket: Buckets]
         \cup [pc: {"lock"}, client: Clients, bucket: Buckets, now: Nat]

\* A bucket never holds more timestamps than the limit.
LimiterTypeOK ==
    /\ clock \in Nat
    /\ buckets \in [Clients -> Buckets \cup {NoBucket}]
    /\ timestamps \in [Buckets -> Seq(Nat)]
    /\ \A b \in Buckets : Len(timestamps[b]) <= Limit
    /\ call \in [Goroutines -> Calls]
    /\ cleaner \in {Resting} \cup [pc: {"sweep"}, cutoff: Int]
    /\ admitted \in [Clients -> [Instants -> Nat]]
    /\ disturbed \in [Clients -> BOOLEAN]

\* The sum of a function's values, as the size of a set.
Total(counts) == Cardinality(UNION {{x} \X (1..counts[x]) : x \in DOMAIN counts})

AdmittedSince(k, t) == Total([u \in {v \in Instants : v >= t} |-> admitted[k][u]])

\* "allowing limit requests per window": the window slides exactly.  A request is
\* admitted iff fewer than Limit of its client's were admitted in the window that
\* ends with it, whatever has been evicted and swept meanwhile, with a cutoff of
\* whatever age.  It is about requests whose bucket is still their client's and
\* holds nothing newer than they are, after admissions that were like that too.
\* (A request whose bucket is deleted between the lookup and its lock is
\* admitted by a bucket nobody will look at again, and the window gets one more.)
ExactWindow ==
    \A g \in Goroutines :
        LET k == call[g].client
        IN  call[g].pc = "lock" /\ ~disturbed[k] /\ InOrder(g) =>
                (Admits(g) <=> AdmittedSince(k, call[g].now - Window) < Limit)
=============================================================================
