------------------------------ MODULE AuditLog ------------------------------
(***************************************************************************)
(* The hash chain of internal/audit: signed entries, each with the hash of   *)
(* the one before it.  RequestPath composes these actions with the requests  *)
(* that log and verify.                                                      *)
(*                                                                         *)
(* A hash is the sequence of all it was computed from, so it is equal only   *)
(* to the hash of the same history; a signature is the hash that was signed. *)
(***************************************************************************)
EXTENDS Integers, Sequences, FiniteSets

CONSTANTS
    Events,      \* what is logged: actor, action and result
    Forged       \* an event nobody logs

ASSUME AuditAssumption == Forged \notin Events

VARIABLES
    entries,     \* l.entries
    prevHash     \* l.prevHash

auditVars == <<entries, prevHash>>

-----------------------------------------------------------------------------
genesisHash == <<>>

\* entryHash, over every field but the hash and the signature; the variant
\* leaves out what happened.
entryHashBare(e) == Append(e.PrevHash, [seq |-> e.Sequence, event |-> "some"])
entryHash(e) == Append(e.PrevHash, [seq |-> e.Sequence, event |-> e.Event])

Signed(e) ==
    LET hash == entryHash(e)
    IN  [Sequence |-> e.Sequence, Event |-> e.Event, PrevHash |-> e.PrevHash,
         Hash |-> hash, Signature |-> hash]

AuditInit ==
    /\ entries = <<>>
    /\ prevHash = genesisHash

\* Log holds the lock from the number to the append.  Signing fails only
\* without a key, and NewLogger has made one.
Log(event) ==
    LET e == Signed([Sequence |-> Len(entries), Event |-> event, PrevHash |-> prevHash])
    IN  /\ entries' = Append(entries, e)
        /\ prevHash' = e.Hash

\* TamperEntry, on some entries of a list: it changes what happened and nothing
\* else.  Only tests call it; it stands for whatever changes entries in memory.
Tampered(list, indexes) ==
    [i \in DOMAIN list |-> IF i \in indexes THEN [list[i] EXCEPT !.Event = Forged] ELSE list[i]]

-----------------------------------------------------------------------------
\* The three checks of VerifyChain on one entry of a list.
LinkHolds(list, i) ==
    list[i].PrevHash = (IF i = 1 THEN genesisHash ELSE list[i - 1].Hash)
HashHolds(list, i)      == entryHash(list[i]) = list[i].Hash
SignatureHolds(list, i) == list[i].Signature = list[i].Hash
Holds(list, i) == LinkHolds(list, i) /\ HashHolds(list, i) /\ SignatureHolds(list, i)

\* The result: 0, or the first entry at which the chain is broken.
Intact == 0
VerifyChain(list) ==
    IF \A i \in DOMAIN list : Holds(list, i) THEN Intact
    ELSE CHOOSE i \in DOMAIN list :
            ~Holds(list, i) /\ \A j \in 1..(i - 1) : Holds(list, j)

-----------------------------------------------------------------------------
\* Every entry has the number of its place.
AuditTypeOK ==
    \A i \in DOMAIN entries :
        /\ entries[i].Sequence = i - 1
        /\ entries[i].Event \in Events

\* "tamper-evident": the verification of any part of the log that VerifyChain may
\* have copied, while requests go on appending, succeeds exactly if none of the
\* copied entries is altered before they are read, and else names the first one.
VerdictIsExact ==
    \A n \in 0..Len(entries) : \A altered \in SUBSET (1..n) :
        VerifyChain(Tampered(SubSeq(entries, 1, n), altered)) =
            IF altered = {} THEN Intact
            ELSE CHOOSE i \in altered : \A j \in altered : i <= j
=============================================================================
