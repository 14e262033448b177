----------------------- MODULE ThresholdRounds_proofs ------------------------
(***************************************************************************)
(* Proofs about ThresholdRounds for all sets of rounds, signers, requests  *)
(* and thresholds, and all lifetimes with RoundTTL <= SignerTTL.           *)
(***************************************************************************)
EXTENDS ThresholdRounds, FiniteSetTheorems, FunctionTheorems, SequenceTheorems, TLAPS

\* Partial signatures under different names, all of round r.
PartialsOf(partials, r) ==
    /\ \A i \in 1..Len(partials) : partials[i] \in Submittable /\ partials[i].round = r
    /\ \A i, j \in 1..Len(partials) : i # j => partials[i].signer # partials[j].signer

\* A coordinator of round r that is done exactly when it has all it needs.
Proper(c, r) ==
    /\ PartialsOf(c.partials, r)
    /\ c.done => c.threshold # 0 /\ Len(c.partials) = c.threshold
    /\ c.threshold # 0 /\ ~c.done => Len(c.partials) < c.threshold
    /\ c.createdAt <= clock

\* Rounds in the map, and those that requests work on, are there.
RoundsInv ==
    /\ \A r \in Rounds : Proper(coord[r], r) /\ (r \notin opened => coord[r] = NoRound)
    /\ \A r \in thresholdRounds : coord[r].threshold # 0
    /\ \A p \in Procs : /\ proc[p].pc = "submitting" => coord[proc[p].round].threshold # 0
                        /\ proc[p].pc = "authorised" => coord[proc[p].round].done
    /\ \A q \in signed : q.round \in opened

\* While a round is in the map, whoever signed for it has the key of then, and
\* has been used since the round was opened.
SignersInv ==
    /\ \A s \in SignerIds : thresholdSigners[s] = NoSigner \/ thresholdSigners[s].key # 0
    /\ \A q \in signed : q.round \in thresholdRounds =>
           /\ thresholdSigners[q.signer].key = q.key
           /\ coord[q.round].createdAt <= thresholdSigners[q.signer].lastUsed

\* No two signers ever have the same key.
KeysInv ==
    /\ \A q \in signed : q.key <= keysMade
    /\ \A s \in SignerIds : thresholdSigners[s].key <= keysMade
    /\ \A s, t \in SignerIds : thresholdSigners[s].key = thresholdSigners[t].key =>
           s = t \/ thresholdSigners[s].key = 0
    /\ \A q \in signed, s \in SignerIds : q.key = thresholdSigners[s].key => q.signer = s

\* What clients got for a round is what its coordinator has assembled, if that
\* still exists.
AnswersInv ==
    \A a \in answers :
        /\ PartialsOf(a.partials, a.round)
        /\ Len(a.partials) = a.threshold
        /\ coord[a.round] # NoRound => coord[a.round].done /\ a = Authorised(a.round)
        /\ \A b \in answers : b.round = a.round => b = a

\* The cleaner is never ahead of the clock.
LostInv == NoRoundLost /\ (cleaner # Resting => cleaner <= clock)

IInv == TypeOK /\ RoundsInv /\ SignersInv /\ KeysInv /\ AnswersInv /\ LostInv

-----------------------------------------------------------------------------
\* As many signers as partial signatures, when all are different.
LEMMA DistinctSigners ==
    ASSUME NEW n \in Nat, NEW partials, Len(partials) = n,
           \A i, j \in 1..n : i # j => partials[i].signer # partials[j].signer
    PROVE  Cardinality(SignersOf(partials)) = n
<1> DEFINE f == [i \in 1..n |-> partials[i].signer]
<1>1. f \in Bijection(1..n, SignersOf(partials))
  <2>1. f \in [1..n -> SignersOf(partials)]
    BY DEF SignersOf
  <2>2. \A i, j \in 1..n : f[i] = f[j] => i = j
    OBVIOUS
  <2>3. \A s \in SignersOf(partials) : \E i \in 1..n : f[i] = s
    BY DEF SignersOf
  <2>4. QED
    BY <2>1, <2>2, <2>3 DEF Bijection, Injection, Surjection, IsInjective
<1>2. IsFiniteSet(1..n) /\ Cardinality(1..n) = n
  BY FS_Interval
<1>3. QED
  BY <1>1, <1>2, FS_Bijection DEF ExistsBijection

\* What is assembled when a round is done: all its partial signatures.
LEMMA AuthorisedIs ==
    ASSUME TypeOK, RoundsInv, NEW r \in Rounds, coord[r].done
    PROVE  Authorised(r) = [threshold |-> coord[r].threshold, round |-> r, partials |-> coord[r].partials]
<1> DEFINE ps == coord[r].partials
<1>1. ps \in Seq(Signatures) /\ Len(ps) = coord[r].threshold
  BY DEF TypeOK, Coordinators, RoundsInv, Proper
<1>2. SubSeq(ps, 1, Len(ps)) = ps
  BY <1>1
<1>3. QED
  BY <1>1, <1>2 DEF Authorised

\* What clients can submit depends on what was opened and signed, and grows.
LEMMA SubmittableGrows ==
    /\ UNCHANGED <<opened, signed>> => Submittable' = Submittable
    /\ opened \subseteq opened' /\ signed \subseteq signed' => Submittable \subseteq Submittable'
    /\ Submittable \subseteq Signatures
  BY DEF Submittable

\* Coordinator.Submit keeps a coordinator proper.
LEMMA SubmitKeepsProper ==
    ASSUME ThresholdAssumption, TypeOK, NEW r \in Rounds, NEW q \in Submittable,
           Proper(coord[r], r), coord[r].threshold # 0, ~coord[r].done,
           ~Refused(coord[r], r, q)
    PROVE  LET n == Collected(coord[r], q)
           IN  /\ n \in Coordinators /\ Proper(n, r) /\ Len(n.partials) <= n.threshold
               /\ n.threshold = coord[r].threshold /\ n.createdAt = coord[r].createdAt
<1> DEFINE c == coord[r]
           ps == c.partials
           qs == Append(ps, q)
           full == Len(qs) >= c.threshold
           n  == Collected(c, q)
<1>1. c \in Coordinators /\ ps \in Seq(Signatures) /\ q \in Signatures /\ Len(ps) \in Nat
  BY SubmittableGrows DEF TypeOK, Coordinators
<1>2. /\ qs \in Seq(Signatures) /\ Len(qs) = Len(ps) + 1 /\ qs[Len(ps) + 1] = q
      /\ \A i \in 1..Len(ps) : qs[i] = ps[i]
  BY <1>1
<1>3. n = [c EXCEPT !.partials = qs, !.done = full]
  BY DEF Collected
<1>4. full \in BOOLEAN
  OBVIOUS
<1>5. c.threshold \in Nat /\ Len(ps) < c.threshold /\ c.createdAt <= clock
  BY <1>1 DEF Coordinators, ThresholdAssumption, Proper
<1>6. q.round = r /\ \A i \in 1..Len(ps) : ps[i].signer # q.signer
  BY DEF Refused, SignersOf
<1>7. PartialsOf(qs, r)
  <2>1. \A i \in 1..Len(qs) : i \in 1..Len(ps) \/ i = Len(ps) + 1
    BY <1>1, <1>2
  <2>2. PartialsOf(ps, r)
    BY DEF Proper
  <2> HIDE DEF qs, ps
  <2>3. QED
    BY <2>1, <2>2, <1>2, <1>6 DEF PartialsOf
<1>8. /\ n \in Coordinators /\ n.partials = qs /\ n.done = full
      /\ n.threshold = c.threshold /\ n.createdAt = c.createdAt
  <2> HIDE DEF qs, full, n
  <2>1. QED
    BY <1>1, <1>2, <1>3, <1>4 DEF Coordinators
<1>9. Proper(n, r) /\ Len(n.partials) <= n.threshold
  <2>1. full <=> Len(qs) >= c.threshold
    OBVIOUS
  <2> HIDE DEF qs, ps, full, n
  <2>2. QED
    BY <1>1, <1>2, <1>5, <1>7, <1>8, <2>1 DEF Proper
<1>10. QED
  BY <1>8, <1>9

\* Coordinators and answers stay what they are when signatures are added and
\* time passes.
LEMMA StaysProper ==
    ASSUME TypeOK, opened \subseteq opened', signed \subseteq signed', clock' \in Nat, clock <= clock', NEW r \in Rounds
    PROVE  /\ \A ps : PartialsOf(ps, r) => PartialsOf(ps, r)'
           /\ \A c \in Coordinators : Proper(c, r) => Proper(c, r)'
BY SubmittableGrows DEF Proper, PartialsOf, TypeOK, Coordinators

-----------------------------------------------------------------------------
LEMMA InitInv == Init => IInv
<1> SUFFICES ASSUME Init PROVE IInv
  OBVIOUS
<1> USE ThresholdAssumption DEF Init
<1>1. NoRound \in Coordinators /\ Len(NoRound.partials) = 0
  BY DEF NoRound, Coordinators
<1>2. TypeOK
  BY <1>1 DEF TypeOK, NoRound, NoSigner, Resting
<1>3. RoundsInv
  BY <1>1 DEF RoundsInv, Proper, PartialsOf, NoRound, Idle
<1>4. SignersInv /\ AnswersInv /\ LostInv
  BY DEF SignersInv, AnswersInv, LostInv, NoRoundLost
<1>k. KeysInv
  BY DEF KeysInv, NoSigner
<1>5. QED
  BY <1>k, <1>2, <1>3, <1>4 DEF IInv

\* A new round: nobody has signed for it, and no request or answer is about it.
LEMMA OpenRoundInv ==
    ASSUME IInv, NEW r \in Rounds, NEW threshold \in Thresholds, OpenRound(r, threshold)
    PROVE  IInv'
<1> USE SubmittableGrows
<1> USE ThresholdAssumption DEF OpenRound, IInv
<1>1. PICK new : new = [threshold |-> threshold, createdAt |-> clock, partials |-> <<>>, done |-> FALSE]
  OBVIOUS
<1>2. /\ new \in Coordinators /\ Len(new.partials) = 0 /\ threshold \in Nat \ {0}
      /\ new.threshold = threshold /\ new.createdAt = clock /\ ~new.done
  BY <1>1 DEF Coordinators, TypeOK
<1>3. coord' = [coord EXCEPT ![r] = new] /\ r \notin opened
  BY <1>1
<1>4. TypeOK'
  <2>1. coord' \in [Rounds -> Coordinators] /\ \A x \in Rounds : Len(coord'[x].partials) <= coord'[x].threshold
    <3>1. coord' \in [Rounds -> Coordinators]
      BY <1>2, <1>3 DEF TypeOK
    <3>2. Len(new.partials) <= new.threshold
      BY <1>2
    <3>3. \A x \in Rounds : coord'[x] = IF x = r THEN new ELSE coord[x]
      BY <1>3 DEF TypeOK
    <3>4. \A x \in Rounds : Len(coord[x].partials) <= coord[x].threshold
      BY DEF TypeOK
    <3>5. QED
      BY <3>1, <3>2, <3>3, <3>4
  <2>2. proc' \in [Procs -> {Idle} \cup [pc: {"submitting"}, round: opened', partial: Submittable']
                               \cup [pc: {"authorised"}, round: opened']]
    BY DEF TypeOK
  <2>3. answers' \subseteq [threshold: Thresholds, round: opened', partials: Seq(Submittable')]
    BY DEF TypeOK
  <2>4. QED
    BY <2>1, <2>2, <2>3 DEF TypeOK, Coordinators, Resting
<1>5. RoundsInv'
  <2>1. \A x \in Rounds : Proper(coord[x], x)' /\ (x \notin opened => coord[x] = NoRound)'
    <3>1. Proper(new, r)'
      BY <1>2 DEF Proper, PartialsOf, TypeOK
    <3>2. QED
      BY <3>1, <1>2, <1>3 DEF RoundsInv, TypeOK, Proper, PartialsOf
  <2>2. \A x \in thresholdRounds' : coord'[x].threshold # 0
    BY <1>2, <1>3 DEF RoundsInv, TypeOK
  <2>3. \A p \in Procs : /\ proc'[p].pc = "submitting" => coord'[proc'[p].round].threshold # 0
                         /\ proc'[p].pc = "authorised" => coord'[proc'[p].round].done
    BY <1>3 DEF RoundsInv, TypeOK, Idle
  <2>4. \A q \in signed' : q.round \in opened'
    BY DEF RoundsInv
  <2>5. QED
    BY <2>1, <2>2, <2>3, <2>4 DEF RoundsInv
<1>6. SignersInv'
  BY <1>3 DEF SignersInv, RoundsInv, TypeOK
<1>7. AnswersInv'
  <2>1. \A a \in answers : a.round \in opened /\ a.round # r
    BY <1>3 DEF TypeOK
  <2>2. \A a \in answers : coord'[a.round] = coord[a.round] /\ Authorised(a.round)' = Authorised(a.round)
    BY <1>3, <2>1 DEF Authorised, TypeOK
  <2>3. QED
    BY <2>2 DEF AnswersInv, PartialsOf
<1>8. LostInv'
  BY <1>3 DEF LostInv, NoRoundLost, Authorised, TypeOK
<1>k. KeysInv'
  BY DEF KeysInv
<1>9. QED
  BY <1>k, <1>4, <1>5, <1>6, <1>7, <1>8

\* A signature: the signer's key is the one it has or, if it has none, a new
\* one, and then nobody relies on an old one.
LEMMA SignInv ==
    ASSUME IInv, NEW s \in SignerIds, NEW r \in Rounds, Sign(s, r)
    PROVE  IInv'
<1> USE SubmittableGrows
<1> USE ThresholdAssumption DEF IInv
<1> DEFINE known == thresholdSigners[s] # NoSigner
<1>1. PICK key : /\ key = IF known THEN thresholdSigners[s].key ELSE keysMade'
                 /\ thresholdSigners' = [thresholdSigners EXCEPT ![s] = [key |-> key, lastUsed |-> clock]]
                 /\ signed' = signed \cup {[signer |-> s, key |-> key, round |-> r]}
  BY DEF Sign, Used
<1>2. /\ r \in opened /\ keysMade' \in 0..MaxKeys /\ key \in 1..MaxKeys
      /\ UNCHANGED <<thresholdRounds, coord, opened, cleaner, proc, clock, answers>>
  BY <1>1 DEF Sign, TypeOK, SignersInv
<1>3. /\ signed' \subseteq {q \in Signatures : q.key # ClientKey} /\ signed \subseteq signed'
      /\ Submittable \subseteq Submittable'
  BY <1>1, <1>2 DEF TypeOK, Signatures, ClientKey
<1>4. TypeOK'
  <2>1. thresholdSigners' \in [SignerIds -> [key: 0..MaxKeys, lastUsed: 0..MaxTime]]
    BY <1>1, <1>2 DEF TypeOK
  <2>2. proc' \in [Procs -> {Idle} \cup [pc: {"submitting"}, round: opened', partial: Submittable']
                               \cup [pc: {"authorised"}, round: opened']]
    <3>1. [pc: {"submitting"}, round: opened, partial: Submittable] \subseteq [pc: {"submitting"}, round: opened, partial: Submittable']
      BY <1>3
    <3>2. QED
      BY <3>1, <1>2 DEF TypeOK
  <2>3. answers' \subseteq [threshold: Thresholds, round: opened', partials: Seq(Submittable')]
    <3>1. Seq(Submittable) \subseteq Seq(Submittable')
      BY <1>3, SeqMonotonic
    <3>2. QED
      BY <3>1, <1>2 DEF TypeOK
  <2>4. QED
    BY <1>2, <1>3, <2>1, <2>2, <2>3 DEF TypeOK, Coordinators, Resting
<1>5. RoundsInv'
  <2>1. \A x \in Rounds : Proper(coord[x], x)'
    BY <1>2, <1>3, StaysProper DEF RoundsInv, TypeOK
  <2>2. \A q \in signed' : q.round \in opened
    BY <1>1, <1>2 DEF RoundsInv
  <2>3. QED
    BY <2>1, <2>2, <1>2 DEF RoundsInv
<1>6. SignersInv'
  <2>1. \A x \in SignerIds : thresholdSigners'[x] = NoSigner \/ thresholdSigners'[x].key # 0
    BY <1>1, <1>2 DEF SignersInv, TypeOK
  <2>2. ASSUME NEW q \in signed', q.round \in thresholdRounds
        PROVE  /\ thresholdSigners'[q.signer].key = q.key
               /\ coord[q.round].createdAt <= thresholdSigners'[q.signer].lastUsed
    <3>1. q.round \in Rounds /\ coord[q.round].createdAt <= clock
      BY <2>2 DEF TypeOK, RoundsInv, Proper
    <3>2. CASE q \in signed /\ q.signer = s
      <4>1. known
        BY <3>2, <2>2, <1>3 DEF SignersInv, NoSigner, TypeOK, Signatures, ClientKey
      <4>2. QED
        BY <4>1, <3>1, <3>2, <2>2, <1>1 DEF SignersInv, TypeOK
    <3>3. CASE q \in signed /\ q.signer # s
      BY <3>3, <2>2, <1>1 DEF SignersInv, TypeOK, Signatures
    <3>4. CASE q = [signer |-> s, key |-> key, round |-> r]
      BY <3>4, <3>1, <1>1 DEF TypeOK
    <3>5. QED
      BY <3>2, <3>3, <3>4, <1>1
  <2>3. QED
    BY <2>1, <2>2, <1>2 DEF SignersInv
<1>k. KeysInv'
  <2>1. keysMade \in Nat /\ keysMade' \in Nat /\ keysMade <= keysMade' /\ key <= keysMade'
    BY <1>1 DEF Sign, TypeOK, KeysInv
  <2>2. \A x \in SignerIds : thresholdSigners[x].key \in Nat /\ thresholdSigners[x].key <= keysMade
    BY DEF KeysInv, TypeOK
  <2>3. \A q \in signed : q.key \in Nat /\ q.key <= keysMade /\ q.key # 0 /\ q.signer \in SignerIds
    BY DEF KeysInv, TypeOK, Signatures, ClientKey
  <2>4. /\ \A x \in SignerIds : thresholdSigners[x].key = key => x = s
        /\ \A q \in signed : q.key = key => q.signer = s
    <3>1. CASE known
      BY <3>1, <1>1, <1>2 DEF KeysInv, SignersInv
    <3>2. CASE ~known
      <4>1. key = keysMade + 1
        BY <3>2, <1>1 DEF Sign
      <4>2. QED
        BY <4>1, <2>1, <2>2, <2>3
    <3>3. QED
      BY <3>1, <3>2
  <2>5. \A x \in SignerIds : thresholdSigners'[x].key = IF x = s THEN key ELSE thresholdSigners[x].key
    BY <1>1 DEF TypeOK
  <2>6. \A q \in signed' : q \in signed \/ (q.signer = s /\ q.key = key)
    BY <1>1
  <2>7. (\A q \in signed' : q.key <= keysMade') /\ (\A x \in SignerIds : thresholdSigners'[x].key <= keysMade')
    BY <2>1, <2>2, <2>3, <2>5, <2>6
  <2>8. \A x, t \in SignerIds : thresholdSigners'[x].key = thresholdSigners'[t].key =>
            x = t \/ thresholdSigners'[x].key = 0
    BY <2>4, <2>5 DEF KeysInv
  <2>9. \A q \in signed', x \in SignerIds : q.key = thresholdSigners'[x].key => q.signer = x
    BY <2>4, <2>5, <2>6 DEF KeysInv
  <2>10. QED
    BY <2>7, <2>8, <2>9 DEF KeysInv
<1>7. AnswersInv'
  <2>1. \A a \in answers : PartialsOf(a.partials, a.round)'
    BY <1>3 DEF AnswersInv, PartialsOf
  <2>2. QED
    BY <2>1, <1>2 DEF AnswersInv, Authorised
<1>8. LostInv'
  BY <1>2 DEF LostInv, NoRoundLost, Authorised
<1>9. QED
  BY <1>k, <1>4, <1>5, <1>6, <1>7, <1>8

LEMMA SubmitLookupInv ==
    ASSUME IInv, NEW p \in Procs, NEW r \in Rounds, NEW q \in Submittable, SubmitLookup(p, r, q)
    PROVE  IInv'
<1> USE SubmittableGrows
<1> USE ThresholdAssumption DEF SubmitLookup, IInv
<1>1. PICK busy : busy = [pc |-> "submitting", round |-> r, partial |-> q]
  OBVIOUS
<1>2. busy \in [pc: {"submitting"}, round: opened, partial: Submittable] /\ coord[r].threshold # 0
  BY <1>1 DEF TypeOK, RoundsInv
<1>3. proc' = [proc EXCEPT ![p] = busy] /\ UNCHANGED <<server, cleaner, clock, signed, answers>>
  BY <1>1
<1>4. TypeOK'
  BY <1>2, <1>3 DEF TypeOK, server, Coordinators, Resting
<1>5. RoundsInv'
  <2>1. \A x \in Procs : /\ proc'[x].pc = "submitting" => coord[proc'[x].round].threshold # 0
                         /\ proc'[x].pc = "authorised" => coord[proc'[x].round].done
    BY <1>1, <1>2, <1>3 DEF RoundsInv, TypeOK
  <2>2. QED
    BY <2>1, <1>3 DEF RoundsInv, server, Proper, PartialsOf
<1>6. SignersInv' /\ AnswersInv' /\ LostInv'
  BY <1>3 DEF SignersInv, AnswersInv, LostInv, NoRoundLost, PartialsOf, Authorised, server
<1>k. KeysInv'
  BY <1>3 DEF KeysInv, server
<1>7. QED
  BY <1>k, <1>4, <1>5, <1>6

\* A submission leaves a coordinator that is done as it is, and another one
\* proper.
LEMMA SubmitInv == ASSUME IInv, NEW p \in Procs, Submit(p) PROVE IInv'
<1> USE SubmittableGrows
<1> USE ThresholdAssumption DEF IInv
<1>1. PICK r, q, n :
          /\ r = proc[p].round /\ q = proc[p].partial
          /\ n = IF coord[r].done \/ Refused(coord[r], r, q) THEN coord[r] ELSE Collected(coord[r], q)
          /\ coord' = [coord EXCEPT ![r] = n]
          /\ proc' = [proc EXCEPT ![p] = IF n.done THEN [pc |-> "authorised", round |-> r] ELSE Idle]
  BY DEF Submit
<1>2. /\ proc[p].pc = "submitting"
      /\ UNCHANGED <<thresholdRounds, thresholdSigners, opened, keysMade, cleaner, clock, signed, answers>>
  BY DEF Submit
<1>3. r \in opened /\ r \in Rounds /\ q \in Submittable /\ coord[r].threshold # 0
  BY <1>1, <1>2 DEF TypeOK, RoundsInv, Idle
<1>4. coord[r] \in Coordinators /\ Proper(coord[r], r) /\ Len(coord[r].partials) <= coord[r].threshold
  BY <1>3 DEF TypeOK, RoundsInv
<1>5. /\ n \in Coordinators /\ Proper(n, r) /\ Len(n.partials) <= n.threshold
      /\ n.threshold = coord[r].threshold /\ n.createdAt = coord[r].createdAt
      /\ coord[r].done => n = coord[r]
  <2>1. CASE coord[r].done \/ Refused(coord[r], r, q)
    BY <2>1, <1>1, <1>4
  <2>2. CASE ~coord[r].done /\ ~Refused(coord[r], r, q)
    BY <2>2, <1>1, <1>3, <1>4, SubmitKeepsProper
  <2>3. QED
    BY <2>1, <2>2
<1>6. \A x \in Rounds : coord'[x] = IF x = r THEN n ELSE coord[x]
  BY <1>1 DEF TypeOK
<1>7. TypeOK'
  <2>1. coord' \in [Rounds -> Coordinators]
    BY <1>1, <1>5 DEF TypeOK
  <2>2. \A x \in Rounds : Len(coord'[x].partials) <= coord'[x].threshold
    <3>1. \A x \in Rounds : Len(coord[x].partials) <= coord[x].threshold
      BY DEF TypeOK
    <3>2. QED
      BY <3>1, <1>5, <1>6
  <2>3. proc' \in [Procs -> {Idle} \cup [pc: {"submitting"}, round: opened, partial: Submittable]
                               \cup [pc: {"authorised"}, round: opened]]
    BY <1>1, <1>3 DEF TypeOK
  <2>4. QED
    BY <2>1, <2>2, <2>3, <1>2 DEF TypeOK, Coordinators, Resting
<1>8. RoundsInv'
  <2>1. \A x \in Rounds : Proper(coord[x], x)' /\ (x \notin opened => coord[x] = NoRound)'
    BY <1>2, <1>3, <1>5, <1>6 DEF RoundsInv, Proper, PartialsOf
  <2>2. \A x \in thresholdRounds : coord'[x].threshold # 0
    BY <1>5, <1>6 DEF RoundsInv, TypeOK
  <2>3. ASSUME NEW x \in Procs
        PROVE  /\ proc'[x].pc = "submitting" => coord'[proc'[x].round].threshold # 0
               /\ proc'[x].pc = "authorised" => coord'[proc'[x].round].done
    <3>1. CASE x = p
      BY <3>1, <1>1, <1>3, <1>6 DEF TypeOK, Idle
    <3>2. CASE x # p
      <4>1. proc'[x] = proc[x]
        BY <3>2, <1>1 DEF TypeOK
      <4>2. proc[x] = Idle \/ proc[x].round \in Rounds
        BY DEF TypeOK
      <4>3. CASE proc[x] = Idle
        BY <4>1, <4>3 DEF Idle
      <4>4. CASE proc[x].round \in Rounds
        BY <4>1, <4>4, <1>5, <1>6 DEF RoundsInv
      <4>5. QED
        BY <4>2, <4>3, <4>4
    <3>3. QED
      BY <3>1, <3>2
  <2>4. QED
    BY <2>1, <2>2, <2>3, <1>2 DEF RoundsInv
<1>9. SignersInv'
  <2>1. \A q1 \in signed : q1.round \in Rounds => coord'[q1.round].createdAt = coord[q1.round].createdAt
    BY <1>5, <1>6
  <2>2. QED
    BY <2>1, <1>2 DEF SignersInv, TypeOK
<1>10. \A x \in Rounds : coord[x].done => coord'[x] = coord[x] /\ Authorised(x)' = Authorised(x)
  BY <1>5, <1>6 DEF Authorised
<1>11. AnswersInv'
  <2>1. \A a \in answers : a.round \in Rounds
    BY DEF TypeOK
  <2>2. coord[r] # NoRound
    BY <1>3 DEF NoRound
  <2>3. \A a \in answers : coord'[a.round] # NoRound => coord[a.round] # NoRound
    BY <2>1, <2>2, <1>6
  <2>4. QED
    BY <2>1, <2>3, <1>2, <1>10 DEF AnswersInv, PartialsOf
<1>12. LostInv'
  <2>1. coord[r] # NoRound
    BY <1>3 DEF NoRound
  <2>2. \A x \in Rounds : coord'[x] # NoRound => coord[x] # NoRound /\ coord'[x].createdAt = coord[x].createdAt
    BY <2>1, <1>5, <1>6
  <2>3. QED
    BY <2>2, <1>2, <1>10 DEF LostInv, NoRoundLost
<1>k. KeysInv'
  BY <1>2 DEF KeysInv
<1>13. QED
  BY <1>k, <1>7, <1>8, <1>9, <1>11, <1>12

\* The answer is the one that others got, or will get, for the round.
LEMMA SubmitAnswerInv == ASSUME IInv, NEW p \in Procs, SubmitAnswer(p) PROVE IInv'
<1> USE SubmittableGrows
<1> USE ThresholdAssumption DEF IInv
<1>1. PICK r, auth :
          /\ r = proc[p].round /\ auth = Authorised(r)
          /\ thresholdRounds' = thresholdRounds \ {r}
          /\ answers' = answers \cup {auth}
          /\ proc' = [proc EXCEPT ![p] = Idle]
  BY DEF SubmitAnswer
<1>2. /\ proc[p].pc = "authorised"
      /\ UNCHANGED <<thresholdSigners, coord, opened, keysMade, cleaner, clock, signed>>
  BY DEF SubmitAnswer
<1>3. r \in opened /\ r \in Rounds /\ coord[r].done
  BY <1>1, <1>2 DEF TypeOK, RoundsInv, Idle
<1>4. coord[r] \in Coordinators /\ Proper(coord[r], r)
  BY <1>3 DEF TypeOK, RoundsInv
<1>5. auth = [threshold |-> coord[r].threshold, round |-> r, partials |-> coord[r].partials]
  BY <1>1, <1>3, AuthorisedIs
<1>6. auth \in [threshold: Thresholds, round: opened, partials: Seq(Submittable)]
  <2>1. coord[r].partials \in Seq(Submittable)
    <3> DEFINE ps == coord[r].partials
    <3>1. ps \in Seq(Signatures) /\ \A i \in 1..Len(ps) : ps[i] \in Submittable
      BY <1>4 DEF Coordinators, Proper, PartialsOf
    <3> HIDE DEF ps
    <3>2. ps \in Seq(Submittable)
      BY <3>1
    <3>3. QED
      BY <3>2 DEF ps
  <2>2. coord[r].threshold \in Thresholds
    BY <1>3, <1>4 DEF Coordinators, Proper
  <2>3. QED
    BY <1>3, <1>5, <2>1, <2>2
<1>7. \A x \in Procs : proc'[x] = Idle \/ proc'[x] = proc[x]
  BY <1>1 DEF TypeOK
<1>8. TypeOK'
  <2>1. proc' \in [Procs -> {Idle} \cup [pc: {"submitting"}, round: opened, partial: Submittable]
                               \cup [pc: {"authorised"}, round: opened]]
    BY <1>1 DEF TypeOK
  <2>2. QED
    BY <1>1, <1>2, <1>6, <2>1 DEF TypeOK, Coordinators, Resting
<1>9. RoundsInv'
  <2>1. \A x \in Procs : /\ proc'[x].pc = "submitting" => coord[proc'[x].round].threshold # 0
                         /\ proc'[x].pc = "authorised" => coord[proc'[x].round].done
    BY <1>7 DEF RoundsInv, Idle
  <2>2. QED
    BY <2>1, <1>1, <1>2 DEF RoundsInv, Proper, PartialsOf
<1>10. SignersInv'
  BY <1>1, <1>2 DEF SignersInv
<1>11. AnswersInv'
  <2>1. \A a \in answers : a.round = r => a = auth
    <3>1. coord[r] # NoRound
      BY <1>3 DEF NoRound
    <3>2. QED
      BY <3>1, <1>1 DEF AnswersInv
  <2>2. /\ PartialsOf(auth.partials, auth.round) /\ Len(auth.partials) = auth.threshold
        /\ auth.round = r
    BY <1>3, <1>4, <1>5 DEF Proper
  <2>3. \A a \in answers' :
            /\ PartialsOf(a.partials, a.round)
            /\ Len(a.partials) = a.threshold
            /\ coord[a.round] # NoRound => coord[a.round].done /\ a = Authorised(a.round)
    BY <2>2, <1>1, <1>3 DEF AnswersInv
  <2>4. \A a, b \in answers' : b.round = a.round => b = a
    BY <2>1, <2>2, <1>1 DEF AnswersInv
  <2>5. QED
    BY <2>3, <2>4, <1>2 DEF AnswersInv, PartialsOf, Authorised
<1>12. LostInv'
  BY <1>1, <1>2, <1>3 DEF LostInv, NoRoundLost, Authorised
<1>k. KeysInv'
  BY <1>2 DEF KeysInv
<1>13. QED
  BY <1>k, <1>8, <1>9, <1>10, <1>11, <1>12

LEMMA PruneTickInv == ASSUME IInv, PruneTick PROVE IInv'
<1> USE SubmittableGrows
<1> USE ThresholdAssumption DEF IInv, PruneTick, server
<1>1. TypeOK'
  BY DEF TypeOK, Coordinators, Resting
<1>2. RoundsInv' /\ SignersInv' /\ AnswersInv'
  BY DEF RoundsInv, SignersInv, AnswersInv, Proper, PartialsOf, Authorised
<1>3. LostInv'
  BY DEF LostInv, NoRoundLost, Authorised, TypeOK
<1>k. KeysInv'
  BY DEF KeysInv
<1>4. QED
  BY <1>k, <1>1, <1>2, <1>3

\* Whatever time the cleaner has read: a signer it drops was last used so long
\* ago that the rounds it signed for are dropped too.
LEMMA PruneInv == ASSUME IInv, Prune PROVE IInv'
<1> USE SubmittableGrows
<1> USE ThresholdAssumption DEF IInv
<1>1. /\ cleaner # Resting /\ cleaner' = Resting
      /\ thresholdRounds' = {r \in thresholdRounds : ~(cleaner > coord[r].createdAt + RoundTTL)}
      /\ thresholdSigners' = [s \in SignerIds |->
             IF cleaner > thresholdSigners[s].lastUsed + SignerTTL THEN NoSigner ELSE thresholdSigners[s]]
      /\ UNCHANGED <<coord, opened, keysMade, proc, clock, signed, answers>>
  BY DEF Prune, RoundExpired, SignerExpired
<1>2. cleaner \in Nat /\ clock \in Nat /\ cleaner <= clock
  BY <1>1 DEF TypeOK, LostInv, Resting
<1>3. \A r \in Rounds : coord[r].createdAt \in Nat
  BY DEF TypeOK, Coordinators
<1>4. TypeOK'
  <2>1. thresholdSigners' \in [SignerIds -> [key: 0..MaxKeys, lastUsed: 0..MaxTime]]
    <3>1. NoSigner \in [key: 0..MaxKeys, lastUsed: 0..MaxTime]
      BY DEF NoSigner
    <3>2. QED
      BY <3>1, <1>1 DEF TypeOK
  <2>2. thresholdRounds' \subseteq opened' /\ cleaner' \in 0..Resting
    BY <1>1 DEF TypeOK, Resting
  <2>3. QED
    BY <1>1, <2>1, <2>2 DEF TypeOK, Coordinators
<1>5. RoundsInv'
  BY <1>1 DEF RoundsInv, Proper, PartialsOf
<1>6. SignersInv'
  <2>1. \A s \in SignerIds : thresholdSigners'[s] = NoSigner \/ thresholdSigners'[s].key # 0
    BY <1>1 DEF SignersInv
  <2>2. ASSUME NEW q \in signed, q.round \in thresholdRounds'
        PROVE  /\ thresholdSigners'[q.signer].key = q.key
               /\ coord[q.round].createdAt <= thresholdSigners'[q.signer].lastUsed
    <3>1. q.signer \in SignerIds /\ q.round \in Rounds /\ q.round \in thresholdRounds
      BY <2>2, <1>1 DEF TypeOK, Signatures
    <3>2. /\ thresholdSigners[q.signer].key = q.key
          /\ coord[q.round].createdAt <= thresholdSigners[q.signer].lastUsed
          /\ thresholdSigners[q.signer].lastUsed \in Nat
      BY <3>1 DEF SignersInv, TypeOK
    <3>3. ~(cleaner > coord[q.round].createdAt + RoundTTL)
      BY <2>2, <1>1
    <3>4. ~(cleaner > thresholdSigners[q.signer].lastUsed + SignerTTL)
      BY <3>1, <3>2, <3>3, <1>2, <1>3
    <3>5. thresholdSigners'[q.signer] = thresholdSigners[q.signer]
      BY <3>1, <3>4, <1>1
    <3>6. QED
      BY <3>2, <3>5
  <2>3. QED
    BY <2>1, <2>2, <1>1 DEF SignersInv
<1>7. AnswersInv'
  BY <1>1 DEF AnswersInv, PartialsOf, Authorised
<1>8. LostInv'
  <2>1. ASSUME NEW r \in Rounds, coord[r] # NoRound, r \notin thresholdRounds'
        PROVE  clock > coord[r].createdAt + RoundTTL \/ (coord[r].done /\ Authorised(r) \in answers)
    <3>1. CASE r \in thresholdRounds
      BY <3>1, <2>1, <1>1, <1>2, <1>3
    <3>2. CASE r \notin thresholdRounds
      BY <3>2, <2>1 DEF LostInv, NoRoundLost
    <3>3. QED
      BY <3>1, <3>2
  <2>2. QED
    BY <2>1, <1>1 DEF LostInv, NoRoundLost, Authorised, Resting
<1>k. KeysInv'
  BY <1>1 DEF KeysInv, NoSigner, TypeOK, Signatures, ClientKey
<1>9. QED
  BY <1>k, <1>4, <1>5, <1>6, <1>7, <1>8

\* The new process has no rounds; what clients hold is not touched, and no
\* round is opened twice.
LEMMA RestartInv == ASSUME IInv, Restart PROVE IInv'
<1> USE SubmittableGrows
<1> USE ThresholdAssumption DEF IInv, Restart
<1>1. NoRound \in Coordinators /\ Len(NoRound.partials) = 0 /\ NoRound.threshold = 0
  BY DEF NoRound, Coordinators
<1>2. coord' = [r \in Rounds |-> NoRound] /\ \A p \in Procs : proc'[p] = Idle
  OBVIOUS
<1>3. TypeOK'
  <2>1. /\ thresholdSigners' \in [SignerIds -> [key: 0..MaxKeys, lastUsed: 0..MaxTime]]
        /\ cleaner' \in 0..Resting
    BY DEF NoSigner, TypeOK, Resting
  <2>2. coord' \in [Rounds -> Coordinators] /\ \A r \in Rounds : Len(coord'[r].partials) <= coord'[r].threshold
    BY <1>1
  <2>3. QED
    BY <2>1, <2>2 DEF TypeOK, Coordinators
<1>4. RoundsInv'
  <2>1. \A r \in Rounds : Proper(coord[r], r)' /\ coord'[r] = NoRound
    BY <1>2 DEF Proper, PartialsOf, NoRound, TypeOK
  <2>2. QED
    BY <2>1, <1>2 DEF RoundsInv, Idle
<1>5. SignersInv' /\ LostInv'
  BY <1>2 DEF SignersInv, LostInv, NoRoundLost
<1>6. AnswersInv'
  BY <1>2 DEF AnswersInv, PartialsOf, TypeOK
<1>k. KeysInv'
  BY DEF KeysInv, NoSigner, TypeOK, Signatures, ClientKey
<1>7. QED
  BY <1>k, <1>3, <1>4, <1>5, <1>6

LEMMA TickInv == ASSUME IInv, Tick PROVE IInv'
<1> USE SubmittableGrows
<1> USE ThresholdAssumption DEF IInv, Tick, server
<1>1. clock \in Nat /\ clock' \in Nat /\ clock <= clock' /\ clock' <= MaxTime
  BY DEF TypeOK
<1>2. TypeOK'
  BY <1>1 DEF TypeOK, Coordinators, Resting
<1>3. RoundsInv'
  <2>1. \A r \in Rounds : Proper(coord[r], r)'
    BY <1>1, StaysProper DEF RoundsInv, TypeOK
  <2>2. QED
    BY <2>1 DEF RoundsInv
<1>4. SignersInv' /\ AnswersInv'
  BY DEF SignersInv, AnswersInv, PartialsOf, Authorised
<1>5. LostInv'
  <2>1. \A r \in Rounds : coord[r].createdAt \in Nat
    BY DEF TypeOK, Coordinators
  <2>2. cleaner \in Nat
    BY DEF TypeOK
  <2>3. QED
    BY <2>1, <2>2, <1>1 DEF LostInv, NoRoundLost, Authorised, Resting
<1>k. KeysInv'
  BY DEF KeysInv
<1>6. QED
  BY <1>k, <1>2, <1>3, <1>4, <1>5

LEMMA StutterInv == ASSUME IInv, UNCHANGED vars PROVE IInv'
<1> USE SubmittableGrows
<1> USE DEF IInv, vars, server
<1>1. TypeOK' /\ RoundsInv' /\ SignersInv'
  BY DEF TypeOK, RoundsInv, SignersInv, Proper, PartialsOf, Coordinators, Resting
<1>2. AnswersInv' /\ LostInv'
  BY DEF AnswersInv, LostInv, NoRoundLost, PartialsOf, Authorised, Resting
<1>k. KeysInv'
  BY DEF KeysInv
<1>3. QED
  BY <1>k, <1>1, <1>2

-----------------------------------------------------------------------------
\* The invariant of rounds, signers, answers and the cleaner.
THEOREM Invariance == Spec => []IInv
<1>1. IInv /\ [Next]_vars => IInv'
  BY OpenRoundInv, SignInv, SubmitLookupInv, SubmitInv, SubmitAnswerInv, PruneTickInv, PruneInv,
     RestartInv, TickInv, StutterInv
  DEF Next
<1>2. QED
  BY InitInv, <1>1, PTL DEF Spec

\* The types of the code's data; a coordinator never collects too much.
THEOREM TypeCorrect == Spec => []TypeOK
BY Invariance, PTL DEF IInv

\* A round has one authorised signature, by exactly as many different signers
\* as its opener asked for, for any thresholds and any number of requests.
THEOREM AuthorisedOnce == Spec => []OneAuthorisedSignature
<1>1. IInv => OneAuthorisedSignature
  <2> SUFFICES ASSUME IInv, NEW a \in answers
               PROVE  /\ \A b \in answers : b.round = a.round => b = a
                      /\ Len(a.partials) = a.threshold
                      /\ Cardinality(SignersOf(a.partials)) = a.threshold
                      /\ \A i \in 1..Len(a.partials) : a.partials[i].round = a.round
    BY DEF OneAuthorisedSignature
  <2>1. /\ PartialsOf(a.partials, a.round) /\ Len(a.partials) = a.threshold
        /\ \A b \in answers : b.round = a.round => b = a
    BY DEF IInv, AnswersInv
  <2>2. a.threshold \in Nat
    BY ThresholdAssumption DEF IInv, TypeOK
  <2>3. Cardinality(SignersOf(a.partials)) = a.threshold
    BY <2>1, <2>2, DistinctSigners DEF PartialsOf
  <2>4. QED
    BY <2>1, <2>3 DEF PartialsOf
<1>2. QED
  BY Invariance, <1>1, PTL

\* What a round in the map has collected verifies against the keys its signers
\* have exactly when all of it came from /threshold/sign.
THEOREM RoundsVerify == Spec => []AssembledVerifies
<1>1. IInv => AssembledVerifies
  <2> SUFFICES ASSUME IInv, NEW r \in thresholdRounds, NEW ps, ps = coord[r].partials
               PROVE  Verify([threshold |-> Len(ps), round |-> r, partials |-> ps], Registry)
                          <=> \A i \in 1..Len(ps) : ps[i] \in signed
    BY DEF AssembledVerifies
  <2>1. r \in Rounds /\ PartialsOf(ps, r) /\ Len(ps) \in Nat
    BY DEF IInv, TypeOK, RoundsInv, Proper, Coordinators
  <2>2. ASSUME NEW i \in 1..Len(ps), ps[i] \in signed
        PROVE  ps[i].signer \in DOMAIN Registry /\ ps[i].key = Registry[ps[i].signer]
    <3>1. ps[i].signer \in SignerIds /\ ps[i].key # 0 /\ ps[i].round = r
      BY <2>1, <2>2 DEF IInv, TypeOK, Signatures, ClientKey, PartialsOf
    <3>2. thresholdSigners[ps[i].signer].key = ps[i].key
      BY <2>2, <3>1 DEF IInv, SignersInv
    <3>3. thresholdSigners[ps[i].signer] # NoSigner
      BY <3>1, <3>2 DEF NoSigner
    <3>4. QED
      BY <3>1, <3>2, <3>3 DEF Registry
  <2>3. ASSUME NEW i \in 1..Len(ps),
               ps[i].signer \in DOMAIN Registry, ps[i].key = Registry[ps[i].signer]
        PROVE  ps[i] \in signed
    <3>1. /\ ps[i].signer \in SignerIds /\ thresholdSigners[ps[i].signer].key # 0
          /\ ps[i].key = thresholdSigners[ps[i].signer].key
      BY <2>3 DEF Registry, IInv, SignersInv
    <3>2. ps[i] \in Submittable
      BY <2>1 DEF PartialsOf
    <3>3. PICK o \in signed : o.key = ps[i].key /\ o.round = ps[i].round
      BY <3>1, <3>2 DEF Submittable, ClientKey
    <3>4. o.signer = ps[i].signer
      BY <3>1, <3>3 DEF IInv, KeysInv
    <3>5. o \in Signatures /\ ps[i] \in Signatures
      BY <3>2, <3>3, SubmittableGrows DEF IInv, TypeOK
    <3>6. o = ps[i]
      BY <3>3, <3>4, <3>5 DEF Signatures
    <3>7. QED
      BY <3>6
  <2>4. \A i \in 1..Len(ps) : /\ ps[i].round = r
                             /\ \A j \in 1..(i - 1) : ps[j].signer # ps[i].signer
    BY <2>1 DEF PartialsOf
  <2>5. QED
    BY <2>1, <2>2, <2>3, <2>4 DEF Verify
<1>2. QED
  BY Invariance, <1>1, PTL

\* A round leaves the map only when its time is over or its signature given.
THEOREM RoundsAreKept == Spec => []NoRoundLost
BY Invariance, PTL DEF IInv, LostInv
=============================================================================
