------------------------------ MODULE CAServer ------------------------------
(***************************************************************************)
(* The certificate authority behind the /ca endpoints of one server with   *)
(* CA_STORE_PATH set: internal/ca holds the root and its revocation list,  *)
(* pkg/api the handlers, internal/castore the encrypted file.              *)
(*                                                                         *)
(* Three locks matter.  caMu guards the server's pointers; the handlers    *)
(* that change them save the hierarchy while holding it exclusively, but   *)
(* /ca/revoke saves while holding it SHARED.  The lock inside castore is   *)
(* taken exclusively by SetRoot and SetIntermediate and shared by Save, for *)
(* all of its export, encryption and file replacement.  The lock inside ca *)
(* makes Revoke and Export atomic.                                         *)
(*                                                                         *)
(* Serials are random and never collide, so they are numbered in the order *)
(* they are drawn; a CA is known by the serial of its certificate.         *)
(* Validity periods are left out: no certificate here expires.             *)
(***************************************************************************)
EXTENDS FileReplace, Sequences

CONSTANTS
    Procs,       \* request goroutines inside a handler that saves
    MaxSerials   \* bound: certificates made in a behaviour

ASSUME CAAssumption == IsFiniteSet(Procs) /\ MaxSerials \in Nat

VARIABLES
    running,     \* is there a process?
    drawn,       \* serials drawn so far
    certs,       \* what each drawn serial was bound to
    caInstance,  \* s.caInstance: the serial of the root, or None
    caIntermediates, \* s.caIntermediates: serials of the subordinate CAs
    revoked,     \* the revocation list of the root CA
    caStore,     \* what castore.Store holds: root and intermediates
    proc,        \* per goroutine: where it is in its handler
    fs,          \* the CA store file and its temporary
    \* History (no part of the code's state):
    answered,    \* serials of certificates whose handler answered with success
    ackedRevoked, \* serials whose /ca/revoke answered {"revoked": true}
    faulted      \* has a write to the disk failed?

memory  == <<caInstance, caIntermediates, revoked, caStore>>
history == <<answered, ackedRevoked, faulted>>
vars    == <<running, drawn, certs, memory, proc, fs, history>>

-----------------------------------------------------------------------------
None    == 0
Serials == 1..MaxSerials
Inodes  == 1..(Cardinality(Procs) + 2)
Idle    == [pc |-> "idle"]
NoCert  == [isCA |-> FALSE, issuer |-> None]

\* The payload of the file: persistedStore.
Hierarchy == [root: Serials \cup {None}, subs: SUBSET Serials, revoked: SUBSET Serials]
NoHierarchy == [root |-> None, subs |-> {}, revoked |-> {}]

\* Within one process a hierarchy only grows, and so does its encoding.
SizeOf(h) == 1 + Cardinality(h.subs) + Cardinality(h.revoked)

\* Goroutines inside castore.Save, between its RLock and RUnlock.
Saving(p)   == proc[p].pc \in {"open", "write", "rename", "remove"}
\* Goroutines that hold caMu, exclusively or shared.
HoldsCaMu(p) == proc[p].pc = "export" \/ Saving(p)
WriteLocked == \E p \in Procs : HoldsCaMu(p) /\ proc[p].does # "revoke"
CaMuFree    == \A p \in Procs : ~HoldsCaMu(p)

\* castore's own lock: SetRoot needs that nobody is inside Save.
StoreUnguarded == TRUE
StoreFree   == \A p \in Procs : ~Saving(p)

Held            == {proc[p].fd : p \in {q \in Procs : proc[q].pc = "write"}}
HeldByOthers(p) == {proc[q].fd : q \in {q \in Procs \ {p} : proc[q].pc = "write"}}

\* Handlers read s.caInstance under caMu.RLock, so they see a root only after
\* the init that made it has saved it and unlocked.  (Once set it never
\* changes, so it does not matter how long ago a handler read it.)
RootVisible ==
    /\ caInstance # None
    /\ \A p \in Procs : ~(HoldsCaMu(p) /\ proc[p].does = "init")

IsRoot(c) == certs[c].isCA /\ certs[c].issuer = c

\* ca.Verify, as /ca/verify calls it: an end-entity certificate of this CA
\* whose serial is not on the revocation list.
Verifies(c) ==
    /\ certs[c].issuer = caInstance
    /\ ~certs[c].isCA
    /\ c \notin revoked

\* ca.VerifyChain, as /ca/chain/verify calls it with the server's root: chain
\* begins with the issuer of c.  Revocation is none of its business.
verifySingleLink(issued, signer) == certs[issued].issuer = signer
VerifyChain(c, chain, trustAnchor) ==
    LET signers == Append(chain, trustAnchor)
        issued  == <<c>> \o chain
    IN  /\ IsRoot(trustAnchor)
        /\ \A i \in DOMAIN chain : certs[chain[i]].isCA
        /\ \A i \in DOMAIN issued : verifySingleLink(issued[i], signers[i])
ChainVerifies(c, chain) == caInstance # None /\ VerifyChain(c, chain, caInstance)

-----------------------------------------------------------------------------
Init ==
    /\ running = FALSE
    /\ drawn = 0
    /\ certs = [c \in Serials |-> NoCert]
    /\ caInstance = None
    /\ caIntermediates = {}
    /\ revoked = {}
    /\ caStore = [root |-> None, subs |-> {}]
    /\ proc = [p \in Procs |-> Idle]
    /\ fs = EmptyDir(Inodes, NoHierarchy)
    /\ answered = {}
    /\ ackedRevoked = {}
    /\ faulted = FALSE

\* api.New: no file means an empty store, a file that cannot be loaded means
\* that the server does not start.
Start ==
    /\ ~running
    /\ Readable(fs)
    /\ running' = TRUE
    /\ LET h == IF NoFileYet(fs) THEN NoHierarchy ELSE Published(fs).value
       IN  /\ caInstance' = h.root
           /\ caIntermediates' = h.subs
           /\ revoked' = h.revoked
           /\ caStore' = [root |-> h.root, subs |-> h.subs]
    /\ UNCHANGED <<drawn, certs, proc, fs, history>>

\* The certificate Init, Issue and IssueIntermediate make.
CertUnflagged(isCA, issuer) == [isCA |-> FALSE, issuer |-> issuer]
Cert(isCA, issuer) == [isCA |-> isCA, issuer |-> issuer]

NewCert(isCA, issuer) ==
    /\ drawn < MaxSerials
    /\ drawn' = drawn + 1
    /\ certs' = [certs EXCEPT ![drawn + 1] = Cert(isCA, issuer)]

\* handleCAInit: the pre-check, then the key generation outside the lock.
InitGenerate(p) ==
    /\ running
    /\ proc[p].pc = "idle"
    /\ ~RootVisible
    /\ NewCert(TRUE, drawn + 1)
    /\ proc' = [proc EXCEPT ![p] = [pc |-> "commit", does |-> "init", serial |-> drawn + 1]]
    /\ UNCHANGED <<running, memory, fs, history>>

\* caStoreSave, first part: SetRoot and one SetIntermediate for each
\* subordinate, which need castore's lock exclusively.
Enlist(root, subs) ==
    /\ StoreFree
    /\ caStore' = [root |-> root, subs |-> caStore.subs \cup subs]
Exporting(p) == proc' = [proc EXCEPT ![p].pc = "export"]

\* handleCAInit, under caMu: another init may have won meanwhile.
NoRootYetAssumed == TRUE
NoRootYet == caInstance = None
InitCommit(p) ==
    /\ proc[p].pc = "commit" /\ proc[p].does = "init"
    /\ CaMuFree
    /\ IF NoRootYet
       THEN /\ caInstance' = proc[p].serial
            /\ Enlist(caInstance', caIntermediates)
            /\ revoked' = {}
            /\ Exporting(p)
       ELSE /\ proc' = [proc EXCEPT ![p] = Idle]
            /\ UNCHANGED <<caInstance, caStore, revoked>>
    /\ UNCHANGED <<running, drawn, certs, caIntermediates, fs, history>>

\* handleCASign and handleCAIntermediateSign change nothing but the world.
Issue(issuer) ==
    /\ NewCert(FALSE, issuer)
    /\ answered' = answered \cup {drawn'}
    /\ UNCHANGED <<running, memory, proc, fs, ackedRevoked, faulted>>

Sign ==
    /\ running
    /\ RootVisible /\ ~WriteLocked
    /\ Issue(caInstance)

IntermediateSign(s) ==
    /\ running
    /\ s \in caIntermediates /\ ~WriteLocked
    /\ Issue(s)

\* handleCAIntermediate: issue outside the lock, then register and save under it.
SubGenerate(p) ==
    /\ running
    /\ proc[p].pc = "idle"
    /\ RootVisible /\ ~WriteLocked
    /\ NewCert(TRUE, caInstance)
    /\ proc' = [proc EXCEPT ![p] = [pc |-> "commit", does |-> "sub", serial |-> drawn + 1]]
    /\ UNCHANGED <<running, memory, fs, history>>

SubCommit(p) ==
    /\ proc[p].pc = "commit" /\ proc[p].does = "sub"
    /\ CaMuFree
    /\ caIntermediates' = caIntermediates \cup {proc[p].serial}
    /\ Enlist(caInstance, caIntermediates')
    /\ Exporting(p)
    /\ UNCHANGED <<running, drawn, certs, caInstance, revoked, fs, history>>

\* handleCARevoke: ca.Revoke takes no more than ca's own lock ...
RevokeApply(p, c) ==
    /\ running
    /\ proc[p].pc = "idle"
    /\ RootVisible
    /\ c <= drawn
    /\ revoked' = revoked \cup {c}
    /\ proc' = [proc EXCEPT ![p] = [pc |-> "commit", does |-> "revoke", serial |-> c]]
    /\ UNCHANGED <<running, drawn, certs, caInstance, caIntermediates, caStore, fs, history>>

\* ... and the save holds caMu shared.  Everything caStoreSave registers is in
\* the store already, so only the waiting for castore's lock matters here.
RevokeSave(p) ==
    /\ proc[p].pc = "commit" /\ proc[p].does = "revoke"
    /\ ~WriteLocked
    /\ Enlist(caInstance, caIntermediates)
    /\ Exporting(p)
    /\ UNCHANGED <<running, drawn, certs, caInstance, caIntermediates, revoked, fs, history>>

-----------------------------------------------------------------------------
\* castore.Save: take the lock shared and export the CAs it holds.
SnapshotOfRoot == [root |-> caStore.root, subs |-> {}, revoked |-> revoked]
Snapshot == [root |-> caStore.root, subs |-> caStore.subs, revoked |-> revoked]
Export(p) ==
    /\ proc[p].pc = "export"
    /\ proc' = [proc EXCEPT ![p] =
           [pc |-> "open", does |-> @.does, serial |-> @.serial, data |-> Snapshot]]
    /\ UNCHANGED <<running, drawn, certs, memory, fs, history>>

\* The handler's last step: a failed save is only put in the audit log, so the
\* caller gets the same answer either way.
Answer(p) ==
    /\ proc' = [proc EXCEPT ![p] = Idle]
    /\ IF proc[p].does = "revoke"
       THEN /\ ackedRevoked' = ackedRevoked \cup {proc[p].serial}
            /\ UNCHANGED answered
       ELSE /\ answered' = answered \cup {proc[p].serial}
            /\ UNCHANGED ackedRevoked

\* atomicWrite, one system call at a time.
OpenTmp(p) ==
    /\ proc[p].pc = "open"
    /\ fs' = OpenedTmp(fs, Held, NoHierarchy)
    /\ proc' = [proc EXCEPT ![p] = [pc |-> "write", does |-> @.does, serial |-> @.serial,
                                    data |-> @.data, fd |-> fs'.tmp]]
    /\ UNCHANGED <<running, drawn, certs, memory, history>>

WriteTmp(p) ==
    /\ proc[p].pc = "write"
    /\ fs' = Collected(WrittenTo(fs, proc[p].fd, proc[p].data, SizeOf(proc[p].data), NoHierarchy),
                       HeldByOthers(p), NoHierarchy)
    /\ proc' = [proc EXCEPT ![p] = [pc |-> "rename", does |-> @.does, serial |-> @.serial]]
    /\ UNCHANGED <<running, drawn, certs, memory, history>>

WriteFails(p) ==
    /\ proc[p].pc = "write"
    /\ fs' = Collected(ShortWrittenTo(fs, proc[p].fd, SizeOf(proc[p].data), NoHierarchy),
                       HeldByOthers(p), NoHierarchy)
    /\ Answer(p)
    /\ faulted' = TRUE
    /\ UNCHANGED <<running, drawn, certs, memory>>

Rename(p) ==
    /\ proc[p].pc = "rename"
    /\ IF CanRename(fs)
       THEN fs' = Collected(Renamed(fs), Held, NoHierarchy) /\ Answer(p)
       ELSE /\ proc' = [proc EXCEPT ![p].pc = "remove"]
            /\ UNCHANGED <<fs, answered, ackedRevoked>>
    /\ UNCHANGED <<running, drawn, certs, memory, faulted>>

RemoveTmp(p) ==
    /\ proc[p].pc = "remove"
    /\ fs' = Collected(TmpRemoved(fs), Held, NoHierarchy)
    /\ Answer(p)
    /\ UNCHANGED <<running, drawn, certs, memory, faulted>>

\* The process ends between any two system calls.
Crash ==
    /\ running
    /\ running' = FALSE
    /\ caInstance' = None
    /\ caIntermediates' = {}
    /\ revoked' = {}
    /\ caStore' = [root |-> None, subs |-> {}]
    /\ proc' = [p \in Procs |-> Idle]
    /\ fs' = Collected(fs, {}, NoHierarchy)
    /\ UNCHANGED <<drawn, certs, history>>

Handler(p) ==
    \/ InitGenerate(p) \/ InitCommit(p)
    \/ SubGenerate(p) \/ SubCommit(p)
    \/ \E c \in Serials : RevokeApply(p, c)
    \/ RevokeSave(p)
    \/ Export(p)
    \/ OpenTmp(p) \/ WriteTmp(p) \/ WriteFails(p) \/ Rename(p) \/ RemoveTmp(p)

Next ==
    \/ Start
    \/ Sign
    \/ \E s \in Serials : IntermediateSign(s)
    \/ \E p \in Procs : Handler(p)
    \/ Crash

Spec == Init /\ [][Next]_vars

-----------------------------------------------------------------------------
Handling ==
    LET Does == {"init", "sub", "revoke"}
    IN  {Idle}
        \cup [pc: {"commit", "export", "rename", "remove"}, does: Does, serial: Serials]
        \cup [pc: {"open"}, does: Does, serial: Serials, data: Hierarchy]
        \cup [pc: {"write"}, does: Does, serial: Serials, data: Hierarchy, fd: Inodes]

\* The server's root is a self-signed CA, its intermediates are CAs that are
\* not, a file holds a hierarchy, and the rest has the shape of the code's types.
TypeOK ==
    /\ running \in BOOLEAN
    /\ drawn \in 0..MaxSerials
    /\ certs \in [Serials -> [isCA: BOOLEAN, issuer: Serials \cup {None}]]
    /\ caInstance = None \/ IsRoot(caInstance)
    /\ caIntermediates \subseteq {s \in Serials : certs[s].isCA /\ ~IsRoot(s)}
    /\ revoked \subseteq Serials
    /\ caStore \in [root: Serials \cup {None}, subs: SUBSET Serials]
    /\ proc \in [Procs -> Handling]
    /\ fs \in FileSystem(Inodes, Hierarchy)
    /\ answered \subseteq Serials
    /\ ackedRevoked \subseteq Serials
    /\ faulted \in BOOLEAN

\* "Subsequent Verify calls for a certificate with this serial will fail"
\* (Revoke), in this process and in every later one that manages to start,
\* unless a disk write failed: although concurrent /ca/revoke requests share
\* the temporary file, the one whose snapshot is older cannot finish after the
\* one whose snapshot is newer has been acknowledged.
RevokedNeverVerifies ==
    running /\ ~faulted => \A c \in ackedRevoked : ~Verifies(c)

\* A leaf the server signed with its root keeps verifying, across restarts,
\* until somebody revokes it: no request can sign with a root that a crash
\* could still take away, and no second init replaces a root in use.  One signed
\* with a subordinate keeps verifying through the subordinate's certificate,
\* whoever revokes what.
IssuedKeepVerifying ==
    running /\ ~faulted =>
        \A c \in {d \in answered : ~certs[d].isCA} :
            IF IsRoot(certs[c].issuer)
            THEN c \notin revoked => Verifies(c) /\ ChainVerifies(c, <<>>)
            ELSE ChainVerifies(c, <<certs[c].issuer>>)

\* A subordinate CA the server handed out is there to sign after a restart.
SubordinatesSurvive ==
    running /\ ~faulted =>
        \A s \in answered :
            certs[s].isCA /\ ~IsRoot(s) => s \in caIntermediates

\* When no handler is at work the file is the hierarchy in memory, however
\* the saves before it were interleaved.
FileIsMemoryAtRest ==
    running /\ ~faulted /\ (\A p \in Procs : proc[p] = Idle) /\ caInstance # None
        => /\ Readable(fs)
           /\ Published(fs).value = [root |-> caInstance, subs |-> caIntermediates,
                                     revoked |-> revoked]

\* What the comment on castore.Save says: "a crash during Save never corrupts
\* the existing file".
SaveNeverCorrupts == ~faulted => Readable(fs)
=============================================================================
