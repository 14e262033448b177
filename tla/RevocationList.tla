--------------------------- MODULE RevocationList ---------------------------
(***************************************************************************)
(* The token authority of internal/auth, as the API server runs it with    *)
(* REVOCATION_FILE set: tokens are issued, verified and revoked by         *)
(* concurrent requests, a background goroutine prunes expired entries, and *)
(* both revoking and pruning write the list to disk AFTER releasing the    *)
(* lock, from a snapshot taken under it.                                   *)
(*                                                                         *)
(* A token stands for its jti; its expiry is the one Issue signed into it. *)
(* Revoke does not check signatures: what it is given bears the jti of a   *)
(* token that was issued (any other names no token Verify would accept, or *)
(* is malformed and ignored) and some exp, the token's own or another.     *)
(* The map from jti to exp is the set of its entries.                      *)
(***************************************************************************)
EXTENDS FileReplace

CONSTANTS
    MaxTokens,   \* bound: the tokens issued in a behaviour
    Revokers,    \* request goroutines that may be inside Revoke
    Pruner,      \* the goroutine of pruneLoop
    Verifiers,   \* request goroutines that may be inside Verify
    TTL,         \* a.ttl, in seconds
    OtherExps,   \* what else the exp of an unverified payload may be
    MaxClock     \* bound: the clock stops here

ASSUME RevocationAssumption ==
    /\ MaxTokens \in Nat
    /\ TTL \in Nat \ {0}
    /\ OtherExps \subseteq Int
    /\ MaxClock \in Nat
    /\ Pruner \notin Revokers
    /\ IsFiniteSet(Revokers)

VARIABLES
    running,     \* is there a process?
    clock,       \* time.Now().Unix()
    expiry,      \* claims.ExpiresAt of each token; 0: not issued yet
    issued,      \* tokens signed with the key of the running process
    revoked,     \* a.revoked, as a set of entries
    writer,      \* per goroutine: its progress through persistRevocation
    verifier,    \* per goroutine: its progress through Verify
    fs,          \* the revocation file and its temporary
    \* History (no part of the code's state):
    withdrawn,   \* the entries Revoke ever made in memory
    saved,       \* the tokens in lists whose persistRevocation returned nil
    overlapped   \* have two goroutines ever been in persistRevocation at once?

history == <<withdrawn, saved, overlapped>>
vars == <<running, clock, expiry, issued, revoked, writer, verifier, fs, history>>

-----------------------------------------------------------------------------
Tokens    == 1..MaxTokens     \* numbered in the order of their issue
Writers   == Revokers \cup {Pruner}
Inodes    == 1..(Cardinality(Writers) + 2)
Entry     == [jti: Tokens, exp: Int]
Jtis(list) == {e.jti : e \in list}
Idle      == [pc |-> "idle"]
NoVerdict == [pc |-> "idle"]

\* The size of the JSON list goes with the number of tokens in it ("[]" is not
\* empty); that an exp may have fewer digits than another is abstracted.
SizeOf(list) == Cardinality(Jtis(list)) + 1

Busy(w)   == writer[w].pc \in {"open", "write", "rename", "remove"}
HeldBy(w) == IF writer[w].pc = "write" THEN {writer[w].fd} ELSE {}
Held      == UNION {HeldBy(w) : w \in Writers}
HeldByOthers(w) == UNION {HeldBy(u) : u \in Writers \ {w}}

\* The claim Issue signs, and the same with the sign of the lifetime lost.
ExpiryLost(now) == now - TTL - 1
ExpiryAt(now) == now + TTL

\* The test pruneExpired and loadRevocationLocked make on an entry; the
\* variants take the boundary second for expired, or the comparison round.
ExpiredInclusive(exp, now) == exp > 0 /\ exp <= now
ExpiredReversed(exp, now)  == exp > 0 /\ exp > now
Expired(exp, now) == exp > 0 /\ exp < now

OnlyLive(list, now) == {e \in list : ~Expired(e.exp, now)}

\* a.revoked[jti] = exp, over whatever was recorded for jti.
Recorded(list, t, exp) == {e \in list : e.jti # t} \cup {[jti |-> t, exp |-> exp]}

-----------------------------------------------------------------------------
Init ==
    /\ running = FALSE
    /\ clock = 0
    /\ expiry = [t \in Tokens |-> 0]
    /\ issued = {}
    /\ revoked = {}
    /\ writer = [w \in Writers |-> Idle]
    /\ verifier = [v \in Verifiers |-> NoVerdict]
    /\ fs = EmptyDir(Inodes, {})
    /\ withdrawn = {}
    /\ saved = {}
    /\ overlapped = FALSE

\* NewAuthority makes a fresh signing key, SetRevocationFile loads the live
\* entries.  A file that does not parse is an error and the server does not start.
Start ==
    /\ ~running
    /\ Readable(fs)
    /\ running' = TRUE
    /\ issued' = {}
    /\ revoked' = IF NoFileYet(fs) THEN {}
                  ELSE OnlyLive(Published(fs).value, clock)
    /\ UNCHANGED <<clock, expiry, writer, verifier, fs, history>>

Issue(t) ==
    /\ running
    /\ expiry[t] = 0 /\ (t > 1 => expiry[t - 1] # 0)
    /\ expiry' = [expiry EXCEPT ![t] = ExpiryAt(clock)]
    /\ issued' = issued \cup {t}
    /\ UNCHANGED <<running, clock, revoked, writer, verifier, fs, history>>

\* Verify, up to the expiry check: signature good, now <= exp.  A failure up
\* to here changes nothing.  late is history: was the token revoked before?
VerifyBegin(v, t) ==
    /\ running
    /\ verifier[v].pc = "idle"
    /\ t \in issued
    /\ clock <= expiry[t]
    /\ verifier' = [verifier EXCEPT
            ![v] = [pc |-> "lookup", token |-> t, late |-> t \in Jtis(withdrawn)]]
    /\ UNCHANGED <<running, clock, expiry, issued, revoked, writer, fs, history>>

\* Verify, the rest: the lookup in a.revoked under the read lock decides.
Accepts(v) == verifier[v].pc = "lookup" /\ verifier[v].token \notin Jtis(revoked)
VerifyLookup(v) ==
    /\ verifier[v].pc = "lookup"
    /\ verifier' = [verifier EXCEPT ![v] = NoVerdict]
    /\ UNCHANGED <<running, clock, expiry, issued, revoked, writer, fs, history>>

\* A goroutine leaves the lock with a snapshot of the whole list and enters
\* persistRevocation.
EnterPersist(w, list) ==
    /\ writer' = [writer EXCEPT ![w] = [pc |-> "open", list |-> list]]
    /\ overlapped' = (overlapped \/ \E u \in Writers \ {w} : Busy(u))

\* Revoke: the update and the snapshot under the lock.  extractJTIAndExp
\* takes jti and exp from the payload without verifying the signature.
Revoke(w, t, exp) ==
    /\ running
    /\ ~Busy(w)
    /\ expiry[t] # 0
    /\ revoked' = Recorded(revoked, t, exp)
    /\ EnterPersist(w, revoked')
    /\ withdrawn' = withdrawn \cup {[jti |-> t, exp |-> exp]}
    /\ UNCHANGED <<running, clock, expiry, issued, verifier, fs, saved>>

\* pruneExpired reads the clock before it asks for the lock ...
PruneTick ==
    /\ running
    /\ writer[Pruner].pc = "idle"
    /\ writer' = [writer EXCEPT ![Pruner] = [pc |-> "lock", now |-> clock]]
    /\ UNCHANGED <<running, clock, expiry, issued, revoked, verifier, fs, history>>

\* ... and drops what had expired by then.
PruneApply ==
    /\ writer[Pruner].pc = "lock"
    /\ revoked' = OnlyLive(revoked, writer[Pruner].now)
    /\ EnterPersist(Pruner, revoked')
    /\ UNCHANGED <<running, clock, expiry, issued, verifier, fs, withdrawn, saved>>

-----------------------------------------------------------------------------
\* persistRevocation, one system call at a time.  Errors are dropped by both
\* callers, so a failing call simply ends it.
Finished(w) == writer' = [writer EXCEPT ![w] = Idle]

OpenTmp(w) ==
    /\ writer[w].pc = "open"
    /\ fs' = OpenedTmp(fs, Held, {})
    /\ writer' = [writer EXCEPT ![w] = [pc |-> "write", list |-> @.list, fd |-> fs'.tmp]]
    /\ UNCHANGED <<running, clock, expiry, issued, revoked, verifier, history>>

WriteTmp(w) ==
    /\ writer[w].pc = "write"
    /\ fs' = Collected(WrittenTo(fs, writer[w].fd, writer[w].list, SizeOf(writer[w].list), {}),
                       HeldByOthers(w), {})
    /\ writer' = [writer EXCEPT ![w] = [pc |-> "rename", list |-> @.list]]
    /\ UNCHANGED <<running, clock, expiry, issued, revoked, verifier, history>>

WriteFails(w) ==
    /\ writer[w].pc = "write"
    /\ fs' = Collected(ShortWrittenTo(fs, writer[w].fd, SizeOf(writer[w].list), {}),
                       HeldByOthers(w), {})
    /\ Finished(w)
    /\ UNCHANGED <<running, clock, expiry, issued, revoked, verifier, history>>

Rename(w) ==
    /\ writer[w].pc = "rename"
    /\ IF CanRename(fs)
       THEN /\ fs' = Collected(Renamed(fs), Held, {})
            /\ Finished(w)
            /\ saved' = saved \cup Jtis(writer[w].list)
       ELSE /\ writer' = [writer EXCEPT ![w] = [pc |-> "remove"]]
            /\ UNCHANGED <<fs, saved>>
    /\ UNCHANGED <<running, clock, expiry, issued, revoked, verifier, withdrawn, overlapped>>

RemoveTmp(w) ==
    /\ writer[w].pc = "remove"
    /\ fs' = Collected(TmpRemoved(fs), Held, {})
    /\ Finished(w)
    /\ UNCHANGED <<running, clock, expiry, issued, revoked, verifier, history>>

\* The process ends between any two system calls.
Crash ==
    /\ running
    /\ running' = FALSE
    /\ issued' = {}
    /\ revoked' = {}
    /\ writer' = [w \in Writers |-> Idle]
    /\ verifier' = [v \in Verifiers |-> NoVerdict]
    /\ fs' = Collected(fs, {}, {})
    /\ UNCHANGED <<clock, expiry, history>>

Tick ==
    /\ clock < MaxClock
    /\ clock' = clock + 1
    /\ UNCHANGED <<running, expiry, issued, revoked, writer, verifier, fs, history>>

Persist(w) == OpenTmp(w) \/ WriteTmp(w) \/ WriteFails(w) \/ Rename(w) \/ RemoveTmp(w)

Next ==
    \/ Start
    \/ \E t \in Tokens : Issue(t)
    \/ \E v \in Verifiers, t \in Tokens : VerifyBegin(v, t)
    \/ \E v \in Verifiers : VerifyLookup(v)
    \/ \E w \in Revokers, t \in Tokens : \E exp \in {expiry[t]} \cup OtherExps : Revoke(w, t, exp)
    \/ PruneTick
    \/ PruneApply
    \/ \E w \in Writers : Persist(w)
    \/ Crash
    \/ Tick

Spec == Init /\ [][Next]_vars

\* The ticker of pruneLoop keeps firing and the pruner's own calls return;
\* nothing is assumed of requests, of the clock or of restarts.
PrunerStep == PruneTick \/ PruneApply \/ Persist(Pruner)
FairSpec == Spec /\ WF_vars(PrunerStep)

-----------------------------------------------------------------------------
Writing ==
    {Idle} \cup [pc: {"lock"}, now: Nat] \cup [pc: {"remove"}]
    \cup [pc: {"open", "rename"}, list: SUBSET Entry]
    \cup [pc: {"write"}, list: SUBSET Entry, fd: Inodes]
Verifying ==
    {NoVerdict} \cup [pc: {"lookup"}, token: Tokens, late: BOOLEAN]

\* The authority's maps hold entries of tokens, the file holds a list of
\* them, and only the pruner waits for the lock with an old clock.
TypeOK ==
    /\ running \in BOOLEAN
    /\ clock \in Nat
    /\ expiry \in [Tokens -> Nat]
    /\ issued \subseteq Tokens
    /\ revoked \subseteq Entry
    /\ writer \in [Writers -> Writing]
    /\ verifier \in [Verifiers -> Verifying]
    /\ fs \in FileSystem(Inodes, SUBSET Entry)
    /\ withdrawn \subseteq Entry
    /\ saved \subseteq Tokens
    /\ overlapped \in BOOLEAN

\* An expiry the token was revoked with has passed; 0 means none.
Lapsed(t) == \E e \in withdrawn : e.jti = t /\ 0 < e.exp /\ e.exp < clock

\* A token whose revocation was applied before a Verify began is not accepted
\* by it before one of the expiries it was revoked with has passed, the last
\* second included, whatever is revoked, pruned or loaded meanwhile.  Revoked
\* with the token as it was issued, that is its lifetime (the lookup may come
\* after the expiry check by so long that the entry has been pruned meanwhile).
RevokedNotAccepted ==
    \A v \in Verifiers :
        Accepts(v) /\ verifier[v].late => Lapsed(verifier[v].token)


\* The promise of persistRevocation ("guarantees no partial writes") where it
\* holds: as long as no two goroutines have been in it at once (then one can
\* rename the file that the other has just truncated, see CAServer), whatever
\* write fails and wherever the process is killed, the server can start again.
SerialFileReadable == ~overlapped => Readable(fs)

\* A token whose revocation reached the disk stays revoked there, and in
\* memory, until one of the expiries it was revoked with has passed, through
\* pruning, further calls, failing writes, crashes and restarts, as long as no
\* two goroutines have been in persistRevocation at once.
SerialRevocationDurable ==
    ~overlapped =>
        \A t \in saved :
            ~Lapsed(t) =>
                /\ ~NoFileYet(fs) /\ t \in Jtis(Published(fs).value)
                /\ running => t \in Jtis(revoked)

\* Expired entries do not pile up in a.revoked: the pruner removes each of
\* them, unless it is overwritten or the process ends first.  (An entry whose
\* exp is 0 never expires.)
ExpiredEventuallyPruned ==
    \A t \in Tokens, exp \in 1..MaxClock :
        ([jti |-> t, exp |-> exp] \in revoked /\ exp < clock)
            ~> ([jti |-> t, exp |-> exp] \notin revoked \/ ~running)
=============================================================================
