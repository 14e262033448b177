----------------------------- MODULE ReplayCache -----------------------------
(***************************************************************************)
(* Replay protection of hybrid decryption: the freshness window and the    *)
(* bounded cache of internal/hybrid, behind /encrypt and /decrypt, across  *)
(* restarts of the process.                                                *)
(*                                                                         *)
(* A ciphertext stands for its KEM part, which the cache is keyed with; a  *)
(* request brings it with intact or damaged data.  Encryption is ideal:    *)
(* damaged data does not open, and no two encryptions have one KEM part.   *)
(* The key is there throughout (KeyStore says when).  Time is in seconds.  *)
(***************************************************************************)
EXTENDS Integers, Sequences, FiniteSets, Functions

CONSTANTS
    Ciphertexts, Procs,
    SeenCacheMax,           \* seenCacheMax; a cache of one would evict nothing
    MaxAge,                 \* maxAge, 0 to switch the freshness check off
    Skew,                   \* how far ahead CreatedAt may be
    MaxTime, MaxLives, MaxAccepted  \* bounds: clock, processes, history

ASSUME ReplayAssumption ==
    /\ SeenCacheMax \in Nat \ {0, 1} /\ MaxAge \in Nat /\ Skew \in Nat
    /\ MaxTime \in Nat \ {0} /\ MaxLives \in Nat \ {0} /\ MaxAccepted \in Nat

VARIABLES
    seen, seenSeq,  \* the cache, and its keys in the order of insertion
    created,        \* CreatedAt of the ciphertexts made so far, or Unmade
    proc,           \* requests in /decrypt
    seconds,        \* time.Now().Unix()
    lives,          \* when each process so far began
    accepted        \* history: what was decrypted, and by which process

replayVars == <<seen, seenSeq, created, proc, seconds, lives, accepted>>

-----------------------------------------------------------------------------
Idle   == [pc |-> "idle"]
Unmade == MaxTime + 1
Life   == Len(lives)

\* The freshness check of a ciphertext made at t.
FreshUnlessAhead(t, now) == MaxAge > 0 => t > 0 /\ t <= now + Skew
Fresh(t, now) == MaxAge > 0 => t > 0 /\ now - t <= MaxAge /\ t <= now + Skew

\* The cache after c is added: over its limit, it loses the older half of what
\* it may hold.
RememberUntilFull(c) ==
    LET order == Append(seenSeq, c)
        gone  == IF Cardinality(seen) + 1 >= SeenCacheMax THEN SeenCacheMax \div 2 ELSE 0
    IN  /\ seenSeq' = SubSeq(order, gone + 1, Len(order))
        /\ seen' = (seen \cup {c}) \ Range(SubSeq(order, 1, gone))
RememberInPlace(c) ==
    LET order == Append(seenSeq, c)
        gone  == IF Cardinality(seen) + 1 > SeenCacheMax THEN SeenCacheMax \div 2 ELSE 0
    IN  /\ seenSeq' = order
        /\ seen' = (seen \cup {c}) \ Range(SubSeq(order, 1, gone))
Remember(c) ==
    LET order == Append(seenSeq, c)
        gone  == IF Cardinality(seen) + 1 > SeenCacheMax THEN SeenCacheMax \div 2 ELSE 0
    IN  /\ seenSeq' = SubSeq(order, gone + 1, Len(order))
        /\ seen' = (seen \cup {c}) \ Range(SubSeq(order, 1, gone))

ReplayInit ==
    /\ seen = {} /\ seenSeq = <<>>
    /\ created = [c \in Ciphertexts |-> Unmade]
    /\ proc = [p \in Procs |-> Idle]
    /\ seconds = 1
    /\ lives = <<1>>
    /\ accepted = <<>>

-----------------------------------------------------------------------------
\* Encrypter.Encrypt, in this process (t = seconds) or on a computer whose seconds
\* reads t.
Encrypt(c, t) ==
    /\ created[c] = Unmade
    /\ created' = [created EXCEPT ![c] = t]
    /\ UNCHANGED <<seen, seenSeq, proc, seconds, lives, accepted>>

\* POST /decrypt, as far as the lock of the cache: open, check the freshness.
DecryptRemembers(p, c, intact) ==
    /\ proc[p] = Idle
    /\ created[c] # Unmade /\ c \notin seen
    /\ Remember(c)
    /\ proc' = IF intact /\ Fresh(created[c], seconds)
               THEN [proc EXCEPT ![p] = [pc |-> "fresh", ct |-> c]] ELSE proc
    /\ UNCHANGED <<created, seconds, lives, accepted>>
DecryptCheck(p, c, intact) ==
    /\ proc[p] = Idle
    /\ created[c] # Unmade
    /\ intact
    /\ Fresh(created[c], seconds)
    /\ proc' = [proc EXCEPT ![p] = [pc |-> "fresh", ct |-> c]]
    /\ UNCHANGED <<seen, seenSeq, created, seconds, lives, accepted>>

\* The critical section: refuse what was seen, else remember it, then answer.
DecryptRefuse(p) ==
    /\ proc[p].pc = "fresh"
    /\ proc[p].ct \in seen
    /\ proc' = [proc EXCEPT ![p] = Idle]
    /\ UNCHANGED <<seen, seenSeq, created, seconds, lives, accepted>>

DecryptAccept(p) ==
    /\ proc[p].pc = "fresh"
    /\ proc[p].ct \notin seen
    /\ Len(accepted) < MaxAccepted
    /\ Remember(proc[p].ct)
    /\ accepted' = Append(accepted, [ct |-> proc[p].ct, life |-> Life])
    /\ proc' = [proc EXCEPT ![p] = Idle]
    /\ UNCHANGED <<created, seconds, lives>>

\* The process ends and another begins, with an empty cache.
Restart ==
    /\ Life < MaxLives
    /\ lives' = Append(lives, seconds)
    /\ seen' = {} /\ seenSeq' = <<>>
    /\ proc' = [p \in Procs |-> Idle]
    /\ UNCHANGED <<created, seconds, accepted>>

ReplayTick ==
    /\ seconds < MaxTime
    /\ seconds' = seconds + 1
    /\ UNCHANGED <<seen, seenSeq, created, proc, lives, accepted>>

ReplayNext ==
    \/ \E c \in Ciphertexts, t \in 0..MaxTime : Encrypt(c, t)
    \/ \E p \in Procs : \/ \E c \in Ciphertexts, intact \in BOOLEAN : DecryptCheck(p, c, intact)
                        \/ DecryptRefuse(p) \/ DecryptAccept(p)
    \/ Restart
    \/ ReplayTick

ReplaySpec == ReplayInit /\ [][ReplayNext]_replayVars
-----------------------------------------------------------------------------
\* Among the types: the order is one of the cached ciphertexts, each once, and
\* the cache never holds more than its limit.
ReplayTypeOK ==
    /\ seen \in SUBSET Ciphertexts /\ Cardinality(seen) <= SeenCacheMax
    /\ seenSeq \in Seq(Ciphertexts)
    /\ Range(seenSeq) = seen /\ Len(seenSeq) = Cardinality(seen)
    /\ created \in [Ciphertexts -> 0..Unmade]
    /\ proc \in [Procs -> {Idle} \cup [pc: {"fresh"}, ct: Ciphertexts]]
    /\ seconds \in 1..MaxTime
    /\ Life \in 1..MaxLives /\ lives \in Seq(1..MaxTime)
    /\ accepted \in Seq([ct: Ciphertexts, life: 1..Life])

\* How far "ciphertexts seen within the same process lifetime are rejected on
\* the second attempt" goes: a process decrypts a ciphertext again only after
\* as many different others as it takes to fill the cache and to evict it,
\* whatever requests race for the lock and whichever are refused.
SpacedReplay ==
    \A i, j \in 1..Len(accepted) :
        i < j /\ accepted[i] = accepted[j] =>
            Cardinality({accepted[k].ct : k \in (i + 1)..(j - 1)} \ {accepted[i].ct})
                >= SeenCacheMax + 1 - SeenCacheMax \div 2

\* "A server restart does not reset this protection": a process that began
\* after the freshness window of a ciphertext never decrypts it.  (One that was
\* there before may: it waits for the cache's lock after the freshness check.)
WindowClosed ==
    MaxAge > 0 => \A i \in 1..Len(accepted) :
        lives[accepted[i].life] <= created[accepted[i].ct] + MaxAge

\* A request that is refused, damaged or too early, does not use the ciphertext
\* up: what is in the cache was decrypted by this process.
OnlyDecryptedSeen ==
    \A c \in seen : [ct |-> c, life |-> Life] \in Range(accepted)
=============================================================================
