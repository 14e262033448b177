--------------------------- MODULE ThresholdRounds ---------------------------
(***************************************************************************)
(* Threshold signing: the coordinators of internal/threshold, the server's *)
(* maps of rounds and of signers, and the cleaner of both.                 *)
(*                                                                         *)
(* A round stands for its nonce and its message, a key for its number.     *)
(* Signatures are ideal: a partial signature verifies for the round it was *)
(* made for, under the key it was made with, whichever signer it names,    *)
(* and one that does not verify changes nothing.  Clients submit what      *)
(* /threshold/sign gave them, under its signer's name or another, and what *)
(* they sign themselves with a key of their own, as often and as late as   *)
(* they like, and to the wrong round too.                                  *)
(***************************************************************************)
EXTENDS Naturals, Sequences, FiniteSets

CONSTANTS
    Rounds, SignerIds, Procs,
    Thresholds,             \* what clients ask for
    RoundTTL, SignerTTL,    \* thresholdRoundTTL, thresholdSignerTTL
    MaxKeys, MaxTime        \* bounds: keypairs made, clock

ASSUME ThresholdAssumption ==
    /\ RoundTTL \in Nat /\ SignerTTL \in Nat /\ RoundTTL <= SignerTTL
    /\ Thresholds \subseteq Nat \ {0}
    /\ MaxKeys \in Nat /\ MaxTime \in Nat

VARIABLES
    thresholdRounds,    \* the rounds in the server's map
    thresholdSigners,   \* signer id -> key and time of last use, or NoSigner
    coord,              \* round -> its coordinator, in the map or not, or NoRound
    opened, keysMade,   \* rounds and keypairs so far
    cleaner,            \* the time pruneThresholdState read before it locked, or Resting
    proc,               \* requests in /threshold/submit
    clock,
    \* What clients hold:
    signed,             \* the partial signatures they got from /threshold/sign
    answers             \* the authorised signatures they got from /threshold/submit

server == <<thresholdRounds, thresholdSigners, coord, opened, keysMade>>
vars   == <<server, cleaner, proc, clock, signed, answers>>

-----------------------------------------------------------------------------
NoSigner == [key |-> 0, lastUsed |-> 0]
NoRound  == [threshold |-> 0, createdAt |-> 0, partials |-> <<>>, done |-> FALSE]
Idle     == [pc |-> "idle"]
Resting  == MaxTime + 1

ClientKey == 0      \* a keypair the server did not make
Signatures == [signer: SignerIds, key: 0..MaxKeys, round: Rounds]

\* What clients can submit: signatures by a key of their own, or by a key that
\* signed for the round; the signed hash does not include the signer's name.
Submittable ==
    {q \in Signatures :
        /\ q.round \in opened
        /\ q.key = ClientKey \/ \E o \in signed : o.key = q.key /\ o.round = q.round}
SignersOf(partials) == {partials[i].signer : i \in 1..Len(partials)}

\* The keys /threshold/verify is to trust: those the signers have now.
Registry == [s \in {x \in SignerIds : thresholdSigners[x] # NoSigner} |-> thresholdSigners[s].key]

\* AuthorisedSignature: the first Threshold partial signatures of the round.
Authorised(r) == [threshold |-> coord[r].threshold, round |-> r,
                  partials |-> SubSeq(coord[r].partials, 1, coord[r].threshold)]

\* threshold.Verify.
Verify(auth, trusted) ==
    /\ Len(auth.partials) >= auth.threshold
    /\ \A i \in 1..Len(auth.partials) :
           LET q == auth.partials[i]
           IN  /\ q.signer \in DOMAIN trusted
               /\ q.key = trusted[q.signer]
               /\ q.round = auth.round
               /\ \A j \in 1..(i - 1) : auth.partials[j].signer # q.signer

Init ==
    /\ thresholdRounds = {}
    /\ thresholdSigners = [s \in SignerIds |-> NoSigner]
    /\ coord = [r \in Rounds |-> NoRound]
    /\ opened = {} /\ keysMade = 0
    /\ cleaner = Resting
    /\ proc = [p \in Procs |-> Idle]
    /\ clock = 0
    /\ signed = {} /\ answers = {}

-----------------------------------------------------------------------------
\* POST /threshold/round
OpenRound(r, threshold) ==
    /\ r \notin opened
    /\ opened' = opened \cup {r}
    /\ coord' = [coord EXCEPT ![r] = [threshold |-> threshold, createdAt |-> clock,
                                      partials |-> <<>>, done |-> FALSE]]
    /\ thresholdRounds' = thresholdRounds \cup {r}
    /\ UNCHANGED <<thresholdSigners, keysMade, cleaner, proc, clock, signed, answers>>

\* POST /threshold/sign: a signer's first use makes its key, every use renews
\* its lease.  The client gives the nonce and the message of a round.
UsedOnce(s, key) ==
    [key |-> key, lastUsed |-> IF thresholdSigners[s] = NoSigner THEN clock
                               ELSE thresholdSigners[s].lastUsed]
Used(s, key) == [key |-> key, lastUsed |-> clock]

Sign(s, r) ==
    /\ r \in opened
    /\ IF thresholdSigners[s] # NoSigner
       THEN UNCHANGED keysMade
       ELSE keysMade < MaxKeys /\ keysMade' = keysMade + 1
    /\ LET key == IF thresholdSigners[s] # NoSigner THEN thresholdSigners[s].key ELSE keysMade'
       IN  /\ thresholdSigners' = [thresholdSigners EXCEPT ![s] = Used(s, key)]
           /\ signed' = signed \cup {[signer |-> s, key |-> key, round |-> r]}
    /\ UNCHANGED <<thresholdRounds, coord, opened, cleaner, proc, clock, answers>>

\* POST /threshold/submit: find the round, ...
SubmitLookup(p, r, q) ==
    /\ proc[p] = Idle
    /\ r \in thresholdRounds
    /\ proc' = [proc EXCEPT ![p] = [pc |-> "submitting", round |-> r, partial |-> q]]
    /\ UNCHANGED <<server, cleaner, clock, signed, answers>>

\* ... Coordinator.Submit, which under its lock ...
RefusedOtherRound(c, r, q) == q.round # r
Refused(c, r, q) == q.round # r \/ q.signer \in SignersOf(c.partials)

CollectedAfter(c, q) ==
    LET partials == Append(c.partials, q)
    IN  [c EXCEPT !.partials = partials, !.done = Len(partials) > c.threshold]

Collected(c, q) ==
    LET partials == Append(c.partials, q)
    IN  [c EXCEPT !.partials = partials, !.done = Len(partials) >= c.threshold]

\* ... answers at once when the round is done, or refuses, or collects.
Submit(p) ==
    /\ proc[p].pc = "submitting"
    /\ LET r == proc[p].round
           c == coord[r]
           q == proc[p].partial
           n == IF c.done \/ Refused(c, r, q) THEN c ELSE Collected(c, q)
       IN  /\ coord' = [coord EXCEPT ![r] = n]
           /\ proc' = [proc EXCEPT ![p] = IF n.done THEN [pc |-> "authorised", round |-> r] ELSE Idle]
    /\ UNCHANGED <<thresholdRounds, thresholdSigners, opened, keysMade, cleaner, clock, signed, answers>>

\* ... and, with the authorised signature in hand, delete the round and answer.
SubmitAnswer(p) ==
    /\ proc[p].pc = "authorised"
    /\ thresholdRounds' = thresholdRounds \ {proc[p].round}
    /\ answers' = answers \cup {Authorised(proc[p].round)}
    /\ proc' = [proc EXCEPT ![p] = Idle]
    /\ UNCHANGED <<thresholdSigners, coord, opened, keysMade, cleaner, clock, signed>>

\* pruneThresholdState: read the clock, wait for the lock, prune both maps.
PruneTick ==
    /\ cleaner = Resting
    /\ cleaner' = clock
    /\ UNCHANGED <<server, proc, clock, signed, answers>>

RoundAtTTL(r, now)    == now >= coord[r].createdAt + RoundTTL
RoundExpired(r, now)  == now > coord[r].createdAt + RoundTTL
SignerExpired(s, now) == now > thresholdSigners[s].lastUsed + SignerTTL

Prune ==
    /\ cleaner # Resting
    /\ thresholdRounds' = {r \in thresholdRounds : ~RoundExpired(r, cleaner)}
    /\ thresholdSigners' = [s \in SignerIds |->
           IF SignerExpired(s, cleaner) THEN NoSigner ELSE thresholdSigners[s]]
    /\ cleaner' = Resting
    /\ UNCHANGED <<coord, opened, keysMade, proc, clock, signed, answers>>

\* The process ends and another begins: it knows none of this.
Restart ==
    /\ thresholdRounds' = {}
    /\ thresholdSigners' = [s \in SignerIds |-> NoSigner]
    /\ coord' = [r \in Rounds |-> NoRound]
    /\ cleaner' = Resting
    /\ proc' = [p \in Procs |-> Idle]
    /\ UNCHANGED <<opened, keysMade, clock, signed, answers>>

Tick ==
    /\ clock < MaxTime
    /\ clock' = clock + 1
    /\ UNCHANGED <<server, cleaner, proc, signed, answers>>

Next ==
    \/ \E r \in Rounds : \/ \E threshold \in Thresholds : OpenRound(r, threshold)
                         \/ \E s \in SignerIds : Sign(s, r)
    \/ \E p \in Procs : \/ \E r \in Rounds, q \in Submittable : SubmitLookup(p, r, q)
                        \/ Submit(p) \/ SubmitAnswer(p)
    \/ PruneTick \/ Prune
    \/ Restart
    \/ Tick

Spec == Init /\ [][Next]_vars

-----------------------------------------------------------------------------
Coordinators == [threshold: Thresholds \cup {0}, createdAt: 0..MaxTime,
                 partials: Seq(Signatures), done: BOOLEAN]

\* Among the types: a coordinator never collects more than its threshold.
TypeOK ==
    /\ thresholdRounds \subseteq opened /\ opened \subseteq Rounds
    /\ keysMade \in 0..MaxKeys /\ clock \in 0..MaxTime
    /\ cleaner \in 0..Resting
    /\ thresholdSigners \in [SignerIds -> [key: 0..MaxKeys, lastUsed: 0..MaxTime]]
    /\ coord \in [Rounds -> Coordinators]
    /\ \A r \in Rounds : Len(coord[r].partials) <= coord[r].threshold
    /\ proc \in [Procs -> {Idle} \cup [pc: {"submitting"}, round: opened, partial: Submittable]
                               \cup [pc: {"authorised"}, round: opened]]
    /\ signed \subseteq {q \in Signatures : q.key # ClientKey}
    /\ answers \subseteq [threshold: Thresholds, round: opened, partials: Seq(Submittable)]

\* "The final AuthorisedSignature bundles M verified (sig, pubkey) pairs":
\* whatever requests race around the threshold, a round has one authorised
\* signature, with exactly the number of partial signatures that were asked for,
\* all of them under different signers' names and for this round.
OneAuthorisedSignature ==
    \A a \in answers :
        /\ \A b \in answers : b.round = a.round => b = a
        /\ Len(a.partials) = a.threshold
        /\ Cardinality(SignersOf(a.partials)) = a.threshold
        /\ \A i \in 1..Len(a.partials) : a.partials[i].round = a.round

\* What a round in the map has collected verifies against the keys that the
\* signers have now, if every partial of it came from /threshold/sign, and only
\* then.  If: a signer keeps the key it signed with as long as the round is in
\* the map, which relates the two lifetimes, the renewal of a signer's lease by
\* each use, and the old clock by which the cleaner judges both maps.  Only if:
\* handleThresholdSubmit takes the signer's name and the public key from the
\* client, and collects a partial by a client's own key, or by a server's key
\* under another signer's name; threshold.Verify rejects the whole bundle.
AssembledVerifies ==
    \A r \in thresholdRounds :
        LET partials == coord[r].partials
            bundle   == [threshold |-> Len(partials), round |-> r, partials |-> partials]
        IN  Verify(bundle, Registry) <=> \A i \in 1..Len(partials) : partials[i] \in signed

\* A round leaves the map only because its time is over, or because a client
\* is given its authorised signature: no race of submissions, lookups and
\* cleaners makes it disappear in between.
NoRoundLost ==
    \A r \in Rounds :
        coord[r] # NoRound /\ r \notin thresholdRounds =>
            \/ clock > coord[r].createdAt + RoundTTL
            \/ coord[r].done /\ Authorised(r) \in answers
=============================================================================
