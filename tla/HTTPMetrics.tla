---------------------------- MODULE HTTPMetrics ----------------------------
(***************************************************************************)
(* The labelled metric families of pkg/metrics and the middleware that       *)
(* feeds them.  A series is found under the family's read lock, or made      *)
(* under its write lock after a second look, and added to with no family     *)
(* lock held.  RequestPath composes these actions with the requests.         *)
(*                                                                         *)
(* A histogram is reduced to the number of its observations.                 *)
(***************************************************************************)
EXTENDS Integers, FiniteSets

CONSTANTS
    Goroutines,
    Paths,       \* the normalised paths
    Statuses     \* the status codes answered

VARIABLES
    series,      \* entries of each family, by its key
    value,       \* what each series object has counted
    meter        \* per goroutine: its progress through With and what follows

-----------------------------------------------------------------------------
\* The two families and their keys (canonicalKey of the labels).
Families == {"requests", "durations"}
KeysOf(family) == IF family = "requests" THEN Paths \X Statuses ELSE {<<p>> : p \in Paths}

\* The series made for one key are told apart by number.
NoSeries == 0
NotMetering == [pc |-> "idle"]
Objects  == 1..(Cardinality(Goroutines) + 1)

HeldFor(family, key) ==
    {meter[g].id : g \in {h \in Goroutines :
        meter[h].pc = "add" /\ meter[h].family = family /\ meter[h].key = key}}
UnusedFor(family, key) ==
    CHOOSE id \in Objects : id \notin HeldFor(family, key) \cup {series[family][key]}

\* The count under a key; 0 if there is no series.
Count(family, key) ==
    IF series[family][key] = NoSeries THEN 0 ELSE value[family][key][series[family][key]]

-----------------------------------------------------------------------------
MetricsInit ==
    /\ series = [f \in Families |-> [key \in KeysOf(f) |-> NoSeries]]
    /\ value = [f \in Families |-> [key \in KeysOf(f) |-> [id \in Objects |-> 0]]]
    /\ meter = [g \in Goroutines |-> NotMetering]

\* With, under the read lock.
With(g, family, key) ==
    /\ meter[g] = NotMetering
    /\ meter' = [meter EXCEPT ![g] =
            IF series[family][key] = NoSeries
            THEN [pc |-> "create", family |-> family, key |-> key]
            ELSE [pc |-> "add", family |-> family, key |-> key, id |-> series[family][key]]]
    /\ UNCHANGED <<series, value>>

\* With, under the write lock: somebody else may have made the series.
MustCreateBlindly(family, key) == TRUE
MustCreate(family, key) == series[family][key] = NoSeries
Create(g) ==
    /\ meter[g].pc = "create"
    /\ LET f == meter[g].family
           key == meter[g].key
           id == IF MustCreate(f, key) THEN UnusedFor(f, key) ELSE series[f][key]
       IN  /\ series' = [series EXCEPT ![f][key] = id]
           /\ value' = IF MustCreate(f, key) THEN [value EXCEPT ![f][key][id] = 0] ELSE value
           /\ meter' = [meter EXCEPT ![g] = [pc |-> "add", family |-> f, key |-> key, id |-> id]]

Add(g, family) ==
    /\ meter[g].pc = "add" /\ meter[g].family = family
    /\ value' = [value EXCEPT ![meter[g].family][meter[g].key][meter[g].id] = @ + 1]
    /\ meter' = [meter EXCEPT ![g] = NotMetering]
    /\ UNCHANGED series
Inc(g)     == Add(g, "requests")
Observe(g) == Add(g, "durations")

-----------------------------------------------------------------------------
Metering ==
    {NotMetering}
    \cup (UNION {[pc: {"create"}, family: {f}, key: KeysOf(f)] : f \in Families})
    \cup (UNION {[pc: {"add"}, family: {f}, key: KeysOf(f), id: Objects] : f \in Families})

MetricsTypeOK ==
    /\ DOMAIN series = Families
    /\ DOMAIN value = Families
    /\ \A f \in Families :
          /\ series[f] \in [KeysOf(f) -> Objects \cup {NoSeries}]
          /\ value[f] \in [KeysOf(f) -> [Objects -> Nat]]
    /\ meter \in [Goroutines -> Metering]
=============================================================================
