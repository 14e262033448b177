-------------------------- MODULE CAServer_proofs --------------------------
(* Theorems about the certificate authority of one server: what it promised *)
(* survives crashes and the saves of concurrent revocations.                *)
EXTENDS CAServer, FileReplace_proofs, FiniteSetTheorems, SequenceTheorems, TLAPS

-----------------------------------------------------------------------------
(* Certificates, locks and handlers: what holds whatever the disk does.     *)

IsSub(s) == certs[s].isCA /\ ~IsRoot(s)
Made(cs, h) ==
    /\ h.root = None \/ (cs[h.root].isCA /\ cs[h.root].issuer = h.root)
    /\ \A s \in h.subs : cs[s].isCA /\ cs[s].issuer # s /\ cs[s].issuer = h.root
WellMade(h) == Made(certs, h)

\* Serials that are not drawn are bound to nothing, the others were signed by
\* one of them, and every hierarchy, in memory, in a file or on its way there,
\* is made of a root and of CAs it signed.
CertsInv ==
    /\ \A c \in Serials : IF c > drawn THEN certs[c] = NoCert ELSE certs[c].issuer \in 1..drawn
    /\ answered \subseteq 1..drawn
    /\ caStore = [root |-> caInstance, subs |-> caIntermediates]
    /\ WellMade(caStore)
    /\ \A p \in Procs : proc[p].pc \in {"open", "write"} => WellMade(proc[p].data)
    /\ \A i \in Inodes : WellMade(fs.data[i].value)

\* A handler that is not /ca/revoke saves alone; what it saves is in memory.
HandlerOK(p) ==
    proc[p] # Idle =>
        /\ running
        /\ proc[p].does = "init" => IsRoot(proc[p].serial)
        /\ proc[p].does = "init" /\ HoldsCaMu(p) => proc[p].serial = caInstance
        /\ proc[p].does = "sub" => IsSub(proc[p].serial) /\ certs[proc[p].serial].issuer = caInstance
        /\ proc[p].does = "sub" /\ HoldsCaMu(p) => proc[p].serial \in caIntermediates
        /\ proc[p].does = "revoke" => proc[p].serial \in revoked
        /\ proc[p].does # "init" \/ HoldsCaMu(p) => caInstance # None
SavesAlone ==
    \A p, q \in Procs :
        HoldsCaMu(p) /\ HoldsCaMu(q) /\ p # q => proc[p].does = "revoke" /\ proc[q].does = "revoke"

HandlersInv ==
    /\ SavesAlone
    /\ \A p \in Procs : HandlerOK(p)
    /\ fs.path # NoFile => fs.path # fs.tmp

-----------------------------------------------------------------------------
(* The file, as long as no write has failed.                                *)

\* Revocations that must survive: acknowledged, or being saved, or not waiting
\* for their save.
Waiting(c) == \E p \in Procs :
    proc[p].pc = "commit" /\ proc[p].does = "revoke" /\ proc[p].serial = c
BeingSaved(c) == \E p \in Procs :
    HoldsCaMu(p) /\ proc[p].does = "revoke" /\ proc[p].serial = c
Owed(c) == c \in ackedRevoked \/ BeingSaved(c) \/ (c \in revoked /\ ~Waiting(c))
Unsettled == \E c \in revoked : ~Owed(c)

\* A hierarchy that breaks no promise made to a client.
Keeps(h) ==
    /\ answered \cup ackedRevoked # {} => h.root # None
    /\ ackedRevoked \subseteq h.revoked
    /\ \A c \in answered :
          /\ IsRoot(c) => h.root = c
          /\ IsSub(c) => c \in h.subs
          /\ ~certs[c].isCA =>
                \/ certs[c].issuer = h.root /\ IsRoot(h.root)
                \/ IsSub(certs[c].issuer) /\ certs[certs[c].issuer].issuer = h.root

\* A hierarchy that is no newer than memory, and one that lacks no revocation
\* that must survive.
Memory == [root |-> caInstance, subs |-> caIntermediates, revoked |-> revoked]
Matches(h) == h.root = caInstance /\ h.subs = caIntermediates /\ h.revoked \subseteq revoked
Current(h) == Matches(h) /\ \A c \in Serials : Owed(c) => c \in h.revoked

\* An inode with a current hierarchy, or one that will get it: a goroutine is
\* about to write to it, or a revocation is waiting whose save replaces it.
Good(i) ==
    LET x == fs.data[i]
    IN  IF x.intact THEN Current(x.value)
        ELSE Unsettled \/ \E p \in Procs : proc[p].pc = "write" /\ proc[p].fd = i
PathGood == fs.path # NoFile /\ Good(fs.path)

PastOpen(p) == proc[p].pc \in {"write", "rename", "remove"}

\* The file keeps the promises, if it can be read.
FileInv ==
    IF fs.path = NoFile THEN answered = {} /\ ackedRevoked = {}
    ELSE \A h \in Hierarchy : Published(fs).intact /\ Published(fs).value = h => Keeps(h)

\* The saves under way, by what they have done already.
SavesInv ==
    /\ Keeps(Memory)
    /\ \A p \in Procs : proc[p].pc \in {"open", "write"} => Current(proc[p].data)
    /\ \A p \in Procs : proc[p].pc = "write" => fs.data[proc[p].fd].size <= SizeOf(Memory)
    /\ (\E p \in Procs : PastOpen(p)) /\ fs.tmp # NoFile => Good(fs.tmp)
    /\ (\E p \in Procs : PastOpen(p)) /\ fs.tmp = NoFile => PathGood
    /\ (\E p \in Procs : proc[p].pc = "remove") => PathGood
    /\ CaMuFree /\ caInstance # None => PathGood
    /\ ~WriteLocked /\ caInstance # None =>
          fs.path # NoFile /\ (Published(fs).intact => Matches(Published(fs).value))

DiskInv == ~faulted => FileInv /\ (running => SavesInv)

IInv == TypeOK /\ CertsInv /\ HandlersInv /\ DiskInv
-----------------------------------------------------------------------------
(* Types, sizes and the file.                                               *)

LEMMA ConstantsTyped ==
    /\ None \notin Serials /\ NoFile \notin Inodes
    /\ IsFiniteSet(Serials) /\ IsFiniteSet(Inodes)
    /\ Cardinality(Inodes) = Cardinality(Procs) + 2 /\ Cardinality(Procs) \in Nat
<1>1. Cardinality(Procs) \in Nat
  BY FS_CardinalityType, CAAssumption
<1>2. IsFiniteSet(Serials)
  BY FS_Interval, CAAssumption DEF Serials
<1>3. IsFiniteSet(Inodes) /\ Cardinality(Inodes) = Cardinality(Procs) + 2
  BY <1>1, FS_Interval DEF Inodes
<1> QED
  BY <1>1, <1>2, <1>3, CAAssumption DEF None, Serials, NoFile, Inodes

\* A hierarchy is not larger than one that has all it has.
LEMMA SizesGrow ==
    ASSUME NEW h \in Hierarchy, NEW k \in Hierarchy,
           h.subs \subseteq k.subs, h.revoked \subseteq k.revoked
    PROVE  SizeOf(h) \in Nat \ {0} /\ SizeOf(k) \in Nat \ {0} /\ SizeOf(h) <= SizeOf(k)
<1>1. \A S \in SUBSET Serials : IsFiniteSet(S) /\ Cardinality(S) \in Nat
  BY ConstantsTyped, FS_Subset, FS_CardinalityType
<1>2. \A S, T \in SUBSET Serials : S \subseteq T => Cardinality(S) <= Cardinality(T)
  BY <1>1, FS_Subset
<1> QED
  BY <1>1, <1>2 DEF Hierarchy, SizeOf

\* Handlers by the place they are at.
LEMMA Shapes ==
    ASSUME TypeOK, NEW p \in Procs
    PROVE  /\ proc[p] # Idle => proc[p].does \in {"init", "sub", "revoke"} /\ proc[p].serial \in Serials
           /\ proc[p].pc \in {"idle", "commit", "export", "open", "write", "rename", "remove"}
           /\ proc[p].pc = "idle" <=> proc[p] = Idle
           /\ proc[p].pc \in {"commit", "export", "rename", "remove"} =>
                 proc[p] = [pc |-> proc[p].pc, does |-> proc[p].does, serial |-> proc[p].serial]
           /\ proc[p].pc = "open" =>
                 /\ proc[p].data \in Hierarchy
                 /\ proc[p] = [pc |-> "open", does |-> proc[p].does, serial |-> proc[p].serial,
                               data |-> proc[p].data]
           /\ proc[p].pc = "write" => proc[p].data \in Hierarchy /\ proc[p].fd \in Inodes
<1> DEFINE Does == {"init", "sub", "revoke"}
<1>1. \/ proc[p] = Idle
      \/ proc[p] \in [pc: {"commit", "export", "rename", "remove"}, does: Does, serial: Serials]
      \/ proc[p] \in [pc: {"open"}, does: Does, serial: Serials, data: Hierarchy]
      \/ proc[p] \in [pc: {"write"}, does: Does, serial: Serials, data: Hierarchy, fd: Inodes]
  BY DEF TypeOK, Handling
<1> QED
  BY <1>1 DEF Idle

Fs == FileSystem(Inodes, Hierarchy)

LEMMA FsTyped ==
    ASSUME NEW f \in Fs
    PROVE  /\ f.path \in Inodes \cup {NoFile} /\ f.tmp \in Inodes \cup {NoFile}
           /\ DOMAIN f.data = Inodes
           /\ \A i \in Inodes : f.data[i] \in [intact: BOOLEAN, size: Nat, value: Hierarchy]
           /\ f = [path |-> f.path, tmp |-> f.tmp, data |-> f.data]
BY FileTyped DEF Fs, Content

LEMMA NoHierarchyTyped ==
    /\ NoHierarchy \in Hierarchy
    /\ NothingIn(NoHierarchy) \in [intact: BOOLEAN, size: Nat, value: Hierarchy]
    /\ NothingIn(NoHierarchy) = [intact |-> FALSE, size |-> 0, value |-> NoHierarchy]
<1>1. NoHierarchy \in Hierarchy
  BY DEF NoHierarchy, Hierarchy
<1> QED
  BY <1>1, NothingTyped DEF Content

LEMMA CollectedKeeps ==
    ASSUME NEW f \in Fs, NEW held
    PROVE  LET g == Collected(f, held, NoHierarchy)
           IN  /\ g \in Fs /\ g.path = f.path /\ g.tmp = f.tmp
               /\ \A i \in Inodes :
                     g.data[i] = IF i \in held \cup {f.path, f.tmp} THEN f.data[i]
                                 ELSE NothingIn(NoHierarchy)
<1>1. f \in FileSystem(Inodes, Hierarchy)
  BY DEF Fs
<1>2. NoHierarchy \in Hierarchy
  BY NoHierarchyTyped
<1>3. Collected(f, held, NoHierarchy) \in FileSystem(Inodes, Hierarchy)
  BY <1>1, <1>2, CollectedStep
<1> QED
  BY <1>1, <1>2, <1>3, CollectedStep DEF Fs

\* At most one descriptor per goroutine is open, so an inode is free.
LEMMA SaveOpened ==
    ASSUME TypeOK
    PROVE  LET g == OpenedTmp(fs, Held, NoHierarchy)
           IN  /\ g \in Fs /\ g.path = fs.path /\ g.tmp \in Inodes
               /\ fs.tmp # NoFile => g.tmp = fs.tmp
               /\ fs.tmp = NoFile => g.tmp \notin Held \cup {fs.path}
               /\ \A i \in Inodes :
                     g.data[i] = IF i = g.tmp THEN NothingIn(NoHierarchy) ELSE fs.data[i]
<1> DEFINE W == {p \in Procs : proc[p].pc = "write"}
<1>1. IsFiniteSet(W) /\ Cardinality(W) <= Cardinality(Procs)
  BY FS_Subset, CAAssumption
<1>2. IsFiniteSet(Held) /\ Cardinality(Held) <= Cardinality(W)
  <2> DEFINE fd == [p \in W |-> proc[p].fd]
  <2>1. fd \in Surjection(W, Held)
    BY DEF Surjection, Held
  <2> QED
    BY <1>1, <2>1, FS_Surjection
<1>3. Cardinality(Held) \in Nat /\ Cardinality(W) \in Nat
  BY <1>1, <1>2, FS_CardinalityType
<1>4. Cardinality(Inodes) >= Cardinality(Held) + 2
  BY <1>1, <1>2, <1>3, ConstantsTyped
<1>5. \E j \in Inodes : j \notin Held \cup {fs.path}
  BY <1>2, <1>4, ConstantsTyped, OneIsFree
<1>6. fs \in FileSystem(Inodes, Hierarchy) /\ NoHierarchy \in Hierarchy /\ NoFile \notin Inodes
  BY NoHierarchyTyped, ConstantsTyped DEF TypeOK
<1> QED
  BY <1>5, <1>6, OpenedStep DEF Fs

LEMMA SaveWritten ==
    ASSUME NEW f \in Fs, NEW fd \in Inodes, NEW h \in Hierarchy, NEW size \in Nat \ {0}
    PROVE  LET g == WrittenTo(f, fd, h, size, NoHierarchy)
               k == ShortWrittenTo(f, fd, size, NoHierarchy)
           IN  /\ g \in Fs /\ g.path = f.path /\ g.tmp = f.tmp
               /\ \A i \in Inodes :
                     g.data[i] = IF i = fd THEN Overwritten(f.data[i], h, size, NoHierarchy)
                                 ELSE f.data[i]
               /\ k \in Fs /\ k.path = f.path /\ k.tmp = f.tmp
               /\ \A i \in Inodes : k.data[i].value \in {NoHierarchy, f.data[i].value}
<1>1. f \in FileSystem(Inodes, Hierarchy) /\ NoHierarchy \in Hierarchy
  BY NoHierarchyTyped DEF Fs
<1>2. \A old : CutShort(old, size, NoHierarchy).value = NoHierarchy
  BY DEF CutShort
<1> DEFINE g == WrittenTo(f, fd, h, size, NoHierarchy)
           k == ShortWrittenTo(f, fd, size, NoHierarchy)
<1>3. /\ g \in Fs /\ g.path = f.path /\ g.tmp = f.tmp
      /\ \A i \in Inodes :
            g.data[i] = IF i = fd THEN Overwritten(f.data[i], h, size, NoHierarchy) ELSE f.data[i]
  BY <1>1, WrittenStep DEF Fs
<1>4. /\ k \in Fs /\ k.path = f.path /\ k.tmp = f.tmp
      /\ \A i \in Inodes :
            k.data[i] = IF i = fd THEN CutShort(f.data[i], size, NoHierarchy) ELSE f.data[i]
  BY <1>1, WrittenStep DEF Fs
<1>5. \A i \in Inodes : k.data[i].value \in {NoHierarchy, f.data[i].value}
  BY <1>2, <1>4
<1> QED
  BY <1>3, <1>4, <1>5

LEMMA SaveRenamed ==
    ASSUME NEW f \in Fs
    PROVE  /\ Renamed(f) \in Fs /\ Renamed(f).path = f.tmp /\ Renamed(f).tmp = NoFile
           /\ Renamed(f).data = f.data
           /\ TmpRemoved(f) \in Fs /\ TmpRemoved(f).path = f.path /\ TmpRemoved(f).tmp = NoFile
           /\ TmpRemoved(f).data = f.data
BY RenamedStep DEF Fs

-----------------------------------------------------------------------------
(* Certificates: a new one takes nothing from the old ones.                 *)

\* CAs are drawn serials, so they stay what they are.
LEMMA CAsAreDrawn ==
    ASSUME TypeOK, CertsInv
    PROVE  /\ caInstance \in Serials \cup {None}
           /\ caIntermediates \subseteq Serials
           /\ \A c \in Serials : certs[c].isCA => c \in 1..drawn
           /\ \A h \in Hierarchy : WellMade(h) /\ h.root = None => h.subs = {}
           /\ caInstance = None => caIntermediates = {}
           /\ \A s \in caIntermediates : IsSub(s) /\ certs[s].issuer = caInstance
<1>1. \A c \in Serials : certs[c].isCA => c \in 1..drawn
  BY DEF TypeOK, CertsInv, NoCert, Serials
<1>2. caStore.root = caInstance /\ caStore.subs = caIntermediates
  BY DEF CertsInv
<1>3. \A h \in Hierarchy : WellMade(h) /\ h.root = None => h.subs = {}
  BY <1>1, CAAssumption DEF Hierarchy, WellMade, Made, CertsInv, TypeOK, None, Serials
<1>4. \A s \in caIntermediates : IsSub(s) /\ certs[s].issuer = caInstance
  BY <1>2 DEF CertsInv, WellMade, Made, IsSub, IsRoot
<1>5. caIntermediates \subseteq Serials /\ caInstance \in Serials \cup {None}
  BY <1>2 DEF TypeOK
<1>6. caInstance = None => caIntermediates = {}
  BY <1>1, <1>4, <1>5, CAAssumption DEF IsSub, IsRoot, CertsInv, TypeOK, None, Serials
<1> QED
  BY <1>1, <1>3, <1>4, <1>5, <1>6

LEMMA NewCertStep ==
    ASSUME TypeOK, CertsInv, NEW isCA \in BOOLEAN, NEW issuer \in 1..(drawn + 1),
           NewCert(isCA, issuer)
    PROVE  /\ drawn + 1 \in Serials /\ drawn' = drawn + 1 /\ drawn' \in 0..MaxSerials
           /\ certs' \in [Serials -> [isCA: BOOLEAN, issuer: Serials \cup {None}]]
           /\ certs'[drawn + 1] = [isCA |-> isCA, issuer |-> issuer]
           /\ \A c \in Serials : c # drawn + 1 => certs'[c] = certs[c]
           /\ ~certs[drawn + 1].isCA
           /\ \A c \in Serials :
                 IF c > drawn' THEN certs'[c] = NoCert ELSE certs'[c].issuer \in 1..drawn'
           /\ \A c \in Serials : certs[c].isCA => certs'[c] = certs[c]
           /\ \A h \in Hierarchy : Made(certs, h) => Made(certs', h)
<1>1. drawn + 1 \in Serials /\ drawn' = drawn + 1 /\ drawn' \in 0..MaxSerials /\ drawn \in Nat
  BY CAAssumption DEF NewCert, TypeOK, Serials
<1>2. certs' = [certs EXCEPT ![drawn + 1] = [isCA |-> isCA, issuer |-> issuer]]
  BY DEF NewCert, Cert
<1>3. issuer \in Serials
  BY <1>1, CAAssumption DEF Serials
<1>4. certs' \in [Serials -> [isCA: BOOLEAN, issuer: Serials \cup {None}]]
  BY <1>1, <1>2, <1>3 DEF TypeOK
<1>5. certs'[drawn + 1] = [isCA |-> isCA, issuer |-> issuer]
  BY <1>1, <1>2 DEF TypeOK
<1>6. \A c \in Serials : c # drawn + 1 => certs'[c] = certs[c]
  BY <1>1, <1>2 DEF TypeOK
<1>7. certs[drawn + 1] = NoCert
  BY <1>1 DEF CertsInv
<1>8. \A c \in Serials :
         IF c > drawn' THEN certs'[c] = NoCert ELSE certs'[c].issuer \in 1..drawn'
  BY <1>1, <1>5, <1>6 DEF CertsInv, Serials
<1>9. \A c \in Serials : certs[c].isCA => certs'[c] = certs[c]
  BY <1>6, <1>7 DEF NoCert
<1>11. \A h \in Hierarchy : Made(certs, h) => Made(certs', h)
  BY <1>9 DEF Made, Hierarchy
<1> QED
  BY <1>1, <1>4, <1>5, <1>6, <1>7, <1>8, <1>9, <1>11 DEF NoCert

-----------------------------------------------------------------------------
(* The goroutines: what a step of one of them does to the locks.            *)

LEMMA OwnStep ==
    ASSUME TypeOK, NEW p \in Procs, NEW r \in Handling, proc' = [proc EXCEPT ![p] = r]
    PROVE  /\ proc' \in [Procs -> Handling]
           /\ proc'[p] = r
           /\ \A q \in Procs : q # p => proc'[q] = proc[q]
           /\ \A q \in Procs : q # p => (HoldsCaMu(q)' <=> HoldsCaMu(q))
BY DEF TypeOK, HoldsCaMu, Saving

\* Two records the handlers go through.
LEMMA Records ==
    ASSUME NEW x \in {"commit", "export", "rename", "remove"},
           NEW d \in {"init", "sub", "revoke"}, NEW s \in Serials, NEW h \in Hierarchy, NEW fd \in Inodes
    PROVE  /\ Idle \in Handling
           /\ [pc |-> x, does |-> d, serial |-> s] \in Handling
           /\ [pc |-> "open", does |-> d, serial |-> s, data |-> h] \in Handling
           /\ [pc |-> "write", does |-> d, serial |-> s, data |-> h, fd |-> fd] \in Handling
BY DEF Handling

LEMMA PcStep ==
    ASSUME TypeOK, NEW p \in Procs, proc[p].pc \in {"commit", "rename"},
           NEW x \in {"export", "remove"}, proc' = [proc EXCEPT ![p].pc = x]
    PROVE  proc' = [proc EXCEPT ![p] = [pc |-> x, does |-> proc[p].does, serial |-> proc[p].serial]]
<1>1. proc' = [proc EXCEPT ![p] = [proc[p] EXCEPT !.pc = x]]
  OBVIOUS
<1> DEFINE r == proc[p]
<1>2. r = [pc |-> r.pc, does |-> r.does, serial |-> r.serial]
  BY Shapes
<1> HIDE DEF r
<1>3. [r EXCEPT !.pc = x] = [pc |-> x, does |-> r.does, serial |-> r.serial]
  BY <1>2
<1> QED
  BY <1>1, <1>3 DEF r

\* The goroutines that do not move keep what they rely on.
LEMMA OthersStep ==
    ASSUME TypeOK, CertsInv, HandlersInv,
           NEW p \in Procs, NEW r \in Handling, proc' = [proc EXCEPT ![p] = r], running' = running,
           \A c \in Serials : certs[c].isCA => certs'[c] = certs[c],
           caInstance' = caInstance, caIntermediates \subseteq caIntermediates', revoked \subseteq revoked'
    PROVE  \A q \in Procs : q # p => HandlerOK(q)'
<1> SUFFICES ASSUME NEW q \in Procs, q # p
             PROVE  HandlerOK(q)'
  OBVIOUS
<1>1. proc'[q] = proc[q] /\ (HoldsCaMu(q)' <=> HoldsCaMu(q)) /\ HandlerOK(q)
  BY OwnStep DEF HandlersInv
<1>2. proc[q] # Idle => proc[q].serial \in Serials
  BY Shapes
<1>3. \A c \in Serials : (IsRoot(c) => IsRoot(c)') /\ (IsSub(c) => IsSub(c)' /\ certs'[c] = certs[c])
  BY DEF IsRoot, IsSub
<1> QED
  BY <1>1, <1>2, <1>3 DEF HandlerOK

\* A goroutine that does not take caMu leaves it as it is.
LEMMA AloneStep ==
    ASSUME TypeOK, SavesAlone, NEW p \in Procs, NEW r \in Handling, proc' = [proc EXCEPT ![p] = r],
           r.pc \in {"idle", "commit"} \/ (HoldsCaMu(p) /\ r.does = proc[p].does)
    PROVE  SavesAlone'
<1>1. HoldsCaMu(p)' => HoldsCaMu(p) /\ r.does = proc[p].does
  BY OwnStep DEF HoldsCaMu, Saving
<1>2. \A q \in Procs : HoldsCaMu(q)' => HoldsCaMu(q) /\ proc'[q].does = proc[q].does
  BY <1>1, OwnStep
<1> QED
  BY <1>2 DEF SavesAlone

-----------------------------------------------------------------------------
(* What holds whatever the disk does, step by step.                         *)

BaseInv == TypeOK /\ CertsInv /\ HandlersInv

LEMMA CertsGrow ==
    ASSUME TypeOK, CertsInv, NEW isCA \in BOOLEAN, NEW issuer \in 1..(drawn + 1),
           NewCert(isCA, issuer),
           running' = running, caInstance' = caInstance, caIntermediates' = caIntermediates,
           revoked' = revoked, caStore' = caStore, fs' = fs,
           ackedRevoked' = ackedRevoked, faulted' = faulted,
           answered' \subseteq answered \cup {drawn + 1},
           proc' \in [Procs -> Handling],
           \A q \in Procs : proc'[q].pc \in {"open", "write"} => proc'[q] = proc[q]
    PROVE  TypeOK' /\ CertsInv'
<1>1. /\ drawn + 1 \in Serials /\ drawn' = drawn + 1 /\ drawn' \in 0..MaxSerials
      /\ certs' \in [Serials -> [isCA: BOOLEAN, issuer: Serials \cup {None}]]
      /\ \A c \in Serials : certs[c].isCA => certs'[c] = certs[c]
      /\ \A c \in Serials :
            IF c > drawn' THEN certs'[c] = NoCert ELSE certs'[c].issuer \in 1..drawn'
      /\ \A h \in Hierarchy : Made(certs, h) => Made(certs', h)
  BY NewCertStep
<1>2. TypeOK'
  <2>1. caInstance' = None \/ IsRoot(caInstance)'
    BY <1>1, CAsAreDrawn DEF TypeOK, IsRoot
  <2>2. (caIntermediates \subseteq {c \in Serials : certs[c].isCA /\ ~IsRoot(c)})'
    BY <1>1, CAsAreDrawn DEF IsSub, IsRoot
  <2>3. answered' \subseteq Serials
    BY <1>1 DEF TypeOK
  <2> QED
    BY <1>1, <2>1, <2>2, <2>3 DEF TypeOK
<1>3. CertsInv'
  <2>1. answered' \subseteq 1..drawn'
    BY <1>1 DEF CertsInv, TypeOK
  <2>2. Made(certs', caStore')
    <3>1. [root |-> caStore.root, subs |-> caStore.subs] = caStore
      BY DEF TypeOK
    <3>2. caStore.root \in Serials \cup {None} /\ caStore.subs \subseteq Serials
      BY DEF TypeOK
    <3> QED
      BY <1>1, <3>2 DEF CertsInv, Made, WellMade
  <2>3. \A q \in Procs : proc'[q].pc \in {"open", "write"} => Made(certs', proc'[q].data)
    BY <1>1, Shapes DEF CertsInv, WellMade
  <2>4. \A i \in Inodes : Made(certs', fs'.data[i].value)
    <3>1. \A i \in Inodes : fs.data[i].value \in Hierarchy
      BY FsTyped DEF TypeOK, Fs
    <3> QED
      BY <1>1, <3>1 DEF CertsInv, WellMade
  <2> QED
    BY <1>1, <2>1, <2>2, <2>3, <2>4 DEF CertsInv, WellMade
<1> QED
  BY <1>2, <1>3

\* handleCASign and handleCAIntermediateSign.
LEMMA IssueBase ==
    ASSUME BaseInv, NEW s \in Serials, IsRoot(s) \/ IsSub(s), Issue(s)
    PROVE  BaseInv'
<1>1. NewCert(FALSE, s) /\ answered' = answered \cup {drawn'}
      /\ UNCHANGED <<running, caInstance, caIntermediates, revoked, caStore, proc, fs,
                     ackedRevoked, faulted>>
  BY DEF Issue, memory
<1>2. s \in 1..(drawn + 1)
  BY CAsAreDrawn DEF BaseInv, IsRoot, IsSub, TypeOK
<1>3. drawn' = drawn + 1 /\ \A c \in Serials : certs[c].isCA => certs'[c] = certs[c]
  BY <1>1, <1>2, NewCertStep DEF BaseInv
<1>4. proc' \in [Procs -> Handling]
  BY <1>1 DEF BaseInv, TypeOK
<1>5. TypeOK' /\ CertsInv'
  BY <1>1, <1>2, <1>3, <1>4, CertsGrow DEF BaseInv
<1>6. HandlersInv'
  <2>1. SavesAlone'
    BY <1>1 DEF BaseInv, HandlersInv, SavesAlone, HoldsCaMu, Saving
  <2>2. ASSUME NEW q \in Procs
        PROVE  HandlerOK(q)'
    <3>1. HandlerOK(q) /\ (HoldsCaMu(q)' <=> HoldsCaMu(q)) /\ (proc[q] # Idle => proc[q].serial \in Serials)
      BY <1>1, Shapes DEF BaseInv, HandlersInv, HoldsCaMu, Saving
    <3> QED
      BY <1>1, <1>3, <3>1 DEF HandlerOK, IsRoot, IsSub
  <2> QED
    BY <1>1, <2>1, <2>2 DEF BaseInv, HandlersInv
<1> QED
  BY <1>5, <1>6 DEF BaseInv

\* handleCAInit and handleCAIntermediate, before they take the lock.
LEMMA GenerateBase ==
    ASSUME BaseInv, NEW p \in Procs, NEW d \in {"init", "sub"}, NEW j,
           running, proc[p].pc = "idle", NewCert(TRUE, j),
           d = "init" => j = drawn + 1,
           d = "sub" => j = caInstance /\ caInstance # None,
           proc' = [proc EXCEPT ![p] = [pc |-> "commit", does |-> d, serial |-> drawn + 1]],
           UNCHANGED <<running, memory, fs, history>>
    PROVE  BaseInv'
<1> DEFINE r == [pc |-> "commit", does |-> d, serial |-> drawn + 1]
<1>1. UNCHANGED <<running, caInstance, caIntermediates, revoked, caStore, fs, answered,
                  ackedRevoked, faulted>>
  BY DEF memory, history
<1>2. j \in 1..(drawn + 1) /\ (d = "sub" => j # drawn + 1)
  <2>1. drawn \in Nat /\ (d = "sub" => caInstance \in 1..drawn)
    BY CAsAreDrawn DEF BaseInv, TypeOK, IsRoot
  <2> QED
    BY <2>1
<1>3. /\ drawn' = drawn + 1 /\ drawn + 1 \in Serials
      /\ certs'[drawn + 1] = [isCA |-> TRUE, issuer |-> j]
      /\ \A c \in Serials : certs[c].isCA => certs'[c] = certs[c]
  BY <1>2, NewCertStep DEF BaseInv
<1>4. r \in Handling /\ r.pc = "commit" /\ r.does = d /\ r.serial = drawn + 1 /\ r # Idle
  BY <1>3 DEF Handling, Idle
<1> HIDE DEF r
<1>5. proc' = [proc EXCEPT ![p] = r]
  BY DEF r
<1>6. /\ proc' \in [Procs -> Handling] /\ proc'[p] = r
      /\ \A q \in Procs : q # p => proc'[q] = proc[q]
  BY <1>4, <1>5, OwnStep DEF BaseInv
<1>7. TypeOK' /\ CertsInv'
  <2>1. \A q \in Procs : proc'[q].pc \in {"open", "write"} => proc'[q] = proc[q]
    BY <1>4, <1>6
  <2> QED
    BY <1>1, <1>2, <1>6, <2>1, CertsGrow DEF BaseInv
<1>8. HandlersInv'
  <2>1. SavesAlone'
    BY <1>4, <1>5, AloneStep DEF BaseInv, HandlersInv
  <2>2. \A q \in Procs : q # p => HandlerOK(q)'
    BY <1>1, <1>3, <1>4, <1>5, OthersStep DEF BaseInv
  <2>3. HandlerOK(p)'
    <3>1. ~HoldsCaMu(p)'
      BY <1>4, <1>6 DEF HoldsCaMu, Saving
    <3> QED
      BY <1>1, <1>2, <1>3, <1>4, <1>6, <3>1 DEF HandlerOK, IsRoot, IsSub
  <2> QED
    BY <1>1, <2>1, <2>2, <2>3 DEF BaseInv, HandlersInv
<1> QED
  BY <1>7, <1>8 DEF BaseInv

\* A step of a goroutine that holds caMu and is on its way to the file.
LEMMA FileBase ==
    ASSUME BaseInv, NEW p \in Procs, HoldsCaMu(p),
           UNCHANGED <<running, drawn, certs, memory>>,
           NEW r \in Handling, proc' = [proc EXCEPT ![p] = r],
           \/ r = Idle
           \/ r.pc \in {"open", "write", "rename", "remove"}
              /\ r.does = proc[p].does /\ r.serial = proc[p].serial,
           r.pc \in {"open", "write"} => WellMade(r.data),
           fs' \in Fs, fs'.path # NoFile => fs'.path # fs'.tmp,
           \A i \in Inodes : WellMade(fs'.data[i].value),
           answered' = answered \/ (proc[p].does # "revoke" /\ answered' = answered \cup {proc[p].serial}),
           ackedRevoked' \subseteq ackedRevoked \cup {proc[p].serial}, faulted' \in BOOLEAN
    PROVE  BaseInv'
<1>1. UNCHANGED <<running, drawn, certs, caInstance, caIntermediates, revoked, caStore>>
  BY DEF memory
<1>2. proc[p] # Idle /\ proc[p].does \in {"init", "sub", "revoke"} /\ proc[p].serial \in Serials
  BY Shapes DEF HoldsCaMu, Saving, BaseInv
<1>3. /\ proc' \in [Procs -> Handling] /\ proc'[p] = r
      /\ \A q \in Procs : q # p => proc'[q] = proc[q]
  BY OwnStep DEF BaseInv
<1>4. TypeOK'
  BY <1>1, <1>2, <1>3 DEF BaseInv, TypeOK, IsRoot, Fs
<1>5. CertsInv'
  <2>1. proc[p].does # "revoke" => proc[p].serial \in 1..drawn
    BY <1>2, CAsAreDrawn DEF BaseInv, HandlersInv, HandlerOK, IsRoot, IsSub
  <2>2. answered' \subseteq 1..drawn
    BY <2>1 DEF BaseInv, CertsInv
  <2>3. \A q \in Procs : proc'[q].pc \in {"open", "write"} => Made(certs, proc'[q].data)
    BY <1>3 DEF BaseInv, CertsInv, WellMade
  <2> QED
    BY <1>1, <2>2, <2>3 DEF BaseInv, CertsInv, WellMade
<1>6. HandlersInv'
  <2>1. r.pc = "idle" \/ r.does = proc[p].does
    BY DEF Idle
  <2>2. SavesAlone'
    BY <2>1, AloneStep DEF BaseInv, HandlersInv
  <2>3. \A q \in Procs : q # p => HandlerOK(q)'
    BY <1>1, OthersStep DEF BaseInv
  <2>4. HandlerOK(p)'
    BY <1>1, <1>2, <1>3 DEF BaseInv, HandlersInv, HandlerOK, IsRoot, IsSub
  <2> QED
    BY <2>2, <2>3, <2>4 DEF HandlersInv
<1> QED
  BY <1>4, <1>5, <1>6 DEF BaseInv

\* handleCARevoke, before it takes the lock.
LEMMA RevokeApplyBase ==
    ASSUME BaseInv, NEW p \in Procs, NEW c \in Serials, RevokeApply(p, c)
    PROVE  BaseInv'
<1> DEFINE r == [pc |-> "commit", does |-> "revoke", serial |-> c]
<1>1. /\ running /\ caInstance # None /\ revoked' = revoked \cup {c} /\ proc' = [proc EXCEPT ![p] = r]
      /\ UNCHANGED <<running, drawn, certs, caInstance, caIntermediates, caStore, fs,
                     answered, ackedRevoked, faulted>>
  BY DEF RevokeApply, RootVisible, history
<1>2. r \in Handling /\ r # Idle
  BY DEF Handling, Idle
<1>3. /\ proc' \in [Procs -> Handling] /\ proc'[p] = r
      /\ \A q \in Procs : q # p => proc'[q] = proc[q]
  BY <1>1, <1>2, OwnStep DEF BaseInv
<1>4. TypeOK'
  BY <1>1, <1>3 DEF BaseInv, TypeOK, IsRoot
<1>5. CertsInv'
  <2>1. \A q \in Procs : proc'[q].pc \in {"open", "write"} => Made(certs, proc'[q].data)
    BY <1>3 DEF BaseInv, CertsInv, WellMade
  <2>2. UNCHANGED <<drawn, certs, caInstance, caIntermediates, caStore, fs, answered>>
    BY <1>1
  <2> QED
    BY <2>1, <2>2 DEF BaseInv, CertsInv, WellMade
<1>6. HandlersInv'
  <2>1. SavesAlone'
    BY <1>1, <1>2, AloneStep DEF BaseInv, HandlersInv
  <2>2. \A q \in Procs : q # p => HandlerOK(q)'
    BY <1>1, <1>2, OthersStep DEF BaseInv
  <2>3. HandlerOK(p)'
    BY <1>1, <1>2, <1>3 DEF HandlerOK
  <2> QED
    BY <1>1, <2>1, <2>2, <2>3 DEF BaseInv, HandlersInv
<1> QED
  BY <1>4, <1>5, <1>6 DEF BaseInv

\* ... and when it gets it, shared with other revocations.
LEMMA RevokeSaveBase ==
    ASSUME BaseInv, NEW p \in Procs, RevokeSave(p)
    PROVE  BaseInv'
<1> DEFINE r == [pc |-> "export", does |-> "revoke", serial |-> proc[p].serial]
<1>1. /\ proc[p].pc = "commit" /\ proc[p].does = "revoke" /\ ~WriteLocked
      /\ caStore' = [root |-> caInstance, subs |-> caStore.subs \cup caIntermediates]
      /\ UNCHANGED <<running, drawn, certs, caInstance, caIntermediates, revoked, fs,
                     answered, ackedRevoked, faulted>>
  BY DEF RevokeSave, Enlist, history
<1>2. r \in Handling /\ r # Idle
  BY <1>1, Shapes DEF Handling, Idle, BaseInv
<1>3. proc' = [proc EXCEPT ![p] = r]
  BY <1>1, PcStep DEF BaseInv, RevokeSave, Exporting
<1>4. /\ proc' \in [Procs -> Handling] /\ proc'[p] = r
      /\ \A q \in Procs : q # p => proc'[q] = proc[q]
  BY <1>2, <1>3, OwnStep DEF BaseInv
<1>5. caStore' = caStore
  BY <1>1 DEF BaseInv, CertsInv
<1>6. TypeOK'
  BY <1>1, <1>4, <1>5 DEF BaseInv, TypeOK, IsRoot
<1>7. CertsInv'
  <2>1. \A q \in Procs : proc'[q].pc \in {"open", "write"} => Made(certs, proc'[q].data)
    BY <1>4 DEF BaseInv, CertsInv, WellMade
  <2>2. UNCHANGED <<drawn, certs, caInstance, caIntermediates, caStore, fs, answered>>
    BY <1>1, <1>5
  <2> QED
    BY <2>1, <2>2 DEF BaseInv, CertsInv, WellMade
<1>8. HandlersInv'
  <2>1. SavesAlone'
    <3>1. \A q \in Procs : HoldsCaMu(q)' => proc'[q].does = "revoke"
      BY <1>1, <1>2, <1>3, <1>4, OwnStep DEF BaseInv, WriteLocked
    <3> QED
      BY <3>1 DEF SavesAlone
  <2>2. \A q \in Procs : q # p => HandlerOK(q)'
    BY <1>1, <1>2, <1>3, OthersStep DEF BaseInv
  <2>3. HandlerOK(p)'
    BY <1>1, <1>2, <1>4 DEF BaseInv, HandlersInv, HandlerOK, Idle
  <2> QED
    BY <1>1, <2>1, <2>2, <2>3 DEF BaseInv, HandlersInv
<1> QED
  BY <1>6, <1>7, <1>8 DEF BaseInv

\* handleCAInit under the lock: only the first one becomes the root, and nobody
\* can be revoking or making a subordinate yet.
LEMMA InitCommitBase ==
    ASSUME BaseInv, NEW p \in Procs, InitCommit(p)
    PROVE  BaseInv'
<1> DEFINE r == [pc |-> "export", does |-> "init", serial |-> proc[p].serial]
<1>1. /\ proc[p].pc = "commit" /\ proc[p].does = "init" /\ CaMuFree
      /\ UNCHANGED <<running, drawn, certs, caIntermediates, fs, answered, ackedRevoked, faulted>>
  BY DEF InitCommit, history
<1>2. /\ proc[p] # Idle /\ proc[p].serial \in Serials /\ IsRoot(proc[p].serial) /\ running
      /\ caInstance \in Serials \cup {None}
  BY <1>1, Shapes, CAsAreDrawn DEF BaseInv, HandlersInv, HandlerOK, Idle
<1>3. CASE ~NoRootYet
  <2>1. proc' = [proc EXCEPT ![p] = Idle] /\ UNCHANGED <<caInstance, caStore, revoked>>
    BY <1>3 DEF InitCommit
  <2>2. Idle \in Handling
    BY DEF Handling
  <2>3. /\ proc' \in [Procs -> Handling] /\ proc'[p] = Idle
        /\ \A q \in Procs : q # p => proc'[q] = proc[q]
    BY <2>1, <2>2, OwnStep DEF BaseInv
  <2>4. TypeOK'
    BY <1>1, <2>1, <2>3 DEF BaseInv, TypeOK, IsRoot
  <2>5. CertsInv'
    <3>1. \A q \in Procs : proc'[q].pc \in {"open", "write"} => Made(certs, proc'[q].data)
      BY <2>3 DEF BaseInv, CertsInv, WellMade, Idle
    <3> QED
      BY <1>1, <2>1, <3>1 DEF BaseInv, CertsInv, WellMade
  <2>6. HandlersInv'
    <3>1. SavesAlone'
      BY <2>1, <2>2, AloneStep DEF BaseInv, HandlersInv, Idle
    <3>2. \A q \in Procs : q # p => HandlerOK(q)'
      BY <1>1, <2>1, <2>2, OthersStep DEF BaseInv
    <3> QED
      BY <1>1, <2>3, <3>1, <3>2 DEF BaseInv, HandlersInv, HandlerOK
  <2> QED
    BY <2>4, <2>5, <2>6 DEF BaseInv
<1>4. CASE NoRootYet
  <2>1. /\ caInstance = None /\ caInstance' = proc[p].serial /\ revoked' = {}
        /\ caStore' = [root |-> proc[p].serial, subs |-> caStore.subs \cup caIntermediates]
        /\ proc' = [proc EXCEPT ![p].pc = "export"]
    BY <1>4 DEF InitCommit, NoRootYet, Enlist, Exporting
  <2>2. r \in Handling /\ r # Idle
    BY <1>2 DEF Handling, Idle
  <2>3. proc' = [proc EXCEPT ![p] = r]
    BY <1>1, <2>1, PcStep DEF BaseInv
  <2>4. /\ proc' \in [Procs -> Handling] /\ proc'[p] = r
        /\ \A q \in Procs : q # p => proc'[q] = proc[q] /\ ~HoldsCaMu(q)'
    BY <1>1, <2>2, <2>3, OwnStep DEF BaseInv, CaMuFree
  <2>5. caIntermediates = {} /\ caStore' = [root |-> proc[p].serial, subs |-> {}]
    BY <2>1, CAsAreDrawn DEF BaseInv, CertsInv
  <2>6. TypeOK'
    BY <1>1, <1>2, <2>1, <2>4, <2>5 DEF BaseInv, TypeOK, IsRoot
  <2>7. CertsInv'
    <3>1. \A q \in Procs : proc'[q].pc \in {"open", "write"} => Made(certs, proc'[q].data)
      BY <2>4 DEF BaseInv, CertsInv, WellMade
    <3>2. Made(certs, caStore')
      BY <1>2, <2>5 DEF Made, IsRoot
    <3> QED
      BY <1>1, <2>1, <2>5, <3>1, <3>2 DEF BaseInv, CertsInv, WellMade
  <2>8. HandlersInv'
    <3>1. SavesAlone'
      BY <2>4 DEF SavesAlone
    <3>2. HandlerOK(p)'
      BY <1>1, <1>2, <2>1, <2>4, ConstantsTyped DEF HandlerOK, IsRoot
    <3>3. ASSUME NEW q \in Procs, q # p
          PROVE  HandlerOK(q)'
      <4>1. HandlerOK(q) /\ (proc[q] # Idle => proc[q].does \in {"init", "sub", "revoke"})
        BY Shapes DEF BaseInv, HandlersInv
      <4>2. proc[q] # Idle => proc[q].does = "init"
        BY <2>1, <4>1 DEF HandlerOK
      <4> QED
        BY <1>1, <2>4, <3>3, <4>1, <4>2 DEF HandlerOK, IsRoot
    <3> QED
      BY <1>1, <3>1, <3>2, <3>3 DEF BaseInv, HandlersInv
  <2> QED
    BY <2>6, <2>7, <2>8 DEF BaseInv
<1> QED
  BY <1>3, <1>4

\* handleCAIntermediate under the lock.
LEMMA SubCommitBase ==
    ASSUME BaseInv, NEW p \in Procs, SubCommit(p)
    PROVE  BaseInv'
<1> DEFINE r == [pc |-> "export", does |-> "sub", serial |-> proc[p].serial]
<1>1. /\ proc[p].pc = "commit" /\ proc[p].does = "sub" /\ CaMuFree
      /\ caIntermediates' = caIntermediates \cup {proc[p].serial}
      /\ caStore' = [root |-> caInstance, subs |-> caStore.subs \cup caIntermediates']
      /\ UNCHANGED <<running, drawn, certs, caInstance, revoked, fs, answered, ackedRevoked, faulted>>
  BY DEF SubCommit, Enlist, history
<1>2. /\ proc[p] # Idle /\ proc[p].serial \in Serials /\ IsSub(proc[p].serial)
      /\ certs[proc[p].serial].issuer = caInstance /\ running /\ caInstance # None
      /\ caInstance \in Serials
  BY <1>1, Shapes, CAsAreDrawn DEF BaseInv, HandlersInv, HandlerOK, Idle
<1>3. r \in Handling /\ r # Idle
  BY <1>2 DEF Handling, Idle
<1>4. proc' = [proc EXCEPT ![p] = r]
  BY <1>1, PcStep DEF BaseInv, SubCommit, Exporting
<1>5. /\ proc' \in [Procs -> Handling] /\ proc'[p] = r
      /\ \A q \in Procs : q # p => proc'[q] = proc[q] /\ ~HoldsCaMu(q)'
  BY <1>1, <1>3, <1>4, OwnStep DEF BaseInv, CaMuFree
<1>6. caStore' = [root |-> caInstance, subs |-> caIntermediates']
  BY <1>1 DEF BaseInv, CertsInv
<1>7. TypeOK'
  <2>1. caStore' \in [root: Serials \cup {None}, subs: SUBSET Serials]
    BY <1>1, <1>2, <1>6, CAsAreDrawn DEF BaseInv
  <2>2. (caIntermediates \subseteq {s \in Serials : certs[s].isCA /\ ~IsRoot(s)})'
    BY <1>1, <1>2 DEF BaseInv, TypeOK, IsRoot, IsSub
  <2> QED
    BY <1>1, <1>5, <2>1, <2>2 DEF BaseInv, TypeOK, IsRoot
<1>8. CertsInv'
  <2>1. \A q \in Procs : proc'[q].pc \in {"open", "write"} => Made(certs, proc'[q].data)
    BY <1>5 DEF BaseInv, CertsInv, WellMade
  <2>2. Made(certs, caStore')
    BY <1>1, <1>2, <1>6 DEF BaseInv, CertsInv, WellMade, Made, IsRoot, IsSub
  <2> QED
    BY <1>1, <1>6, <2>1, <2>2 DEF BaseInv, CertsInv, WellMade
<1>9. HandlersInv'
  <2>1. SavesAlone'
    BY <1>5 DEF SavesAlone
  <2>2. \A q \in Procs : q # p => HandlerOK(q)'
    BY <1>1, <1>3, <1>4, OthersStep DEF BaseInv
  <2>3. HandlerOK(p)'
    BY <1>1, <1>2, <1>5 DEF HandlerOK, IsSub, IsRoot
  <2> QED
    BY <1>1, <2>1, <2>2, <2>3 DEF BaseInv, HandlersInv
<1> QED
  BY <1>7, <1>8, <1>9 DEF BaseInv

-----------------------------------------------------------------------------
(* The steps of castore.Save, as equations.                                 *)

\* Export takes what the server has in memory.
LEMMA ExportStep ==
    ASSUME BaseInv, NEW p \in Procs, Export(p)
    PROVE  LET r == [pc |-> "open", does |-> proc[p].does, serial |-> proc[p].serial, data |-> Memory]
           IN  /\ proc[p].pc = "export" /\ r \in Handling /\ proc' = [proc EXCEPT ![p] = r]
               /\ Memory \in Hierarchy /\ WellMade(Memory)
               /\ UNCHANGED <<running, drawn, certs, memory, fs, history>>
<1>1. Snapshot = Memory
  BY DEF BaseInv, CertsInv, Snapshot, Memory
<1>2. Memory \in Hierarchy
  BY CAsAreDrawn DEF Memory, Hierarchy, BaseInv, TypeOK
<1>3. WellMade(Memory)
  BY DEF BaseInv, CertsInv, WellMade, Made, Memory
<1>4. proc[p].does \in {"init", "sub", "revoke"} /\ proc[p].serial \in Serials
  BY Shapes DEF BaseInv, Export, Idle
<1> QED
  BY <1>1, <1>2, <1>3, <1>4 DEF Export, Handling

LEMMA OpenTmpStep ==
    ASSUME BaseInv, NEW p \in Procs, OpenTmp(p)
    PROVE  LET r == [pc |-> "write", does |-> proc[p].does, serial |-> proc[p].serial,
                     data |-> proc[p].data, fd |-> fs'.tmp]
           IN  /\ proc[p].pc = "open" /\ r \in Handling /\ proc' = [proc EXCEPT ![p] = r]
               /\ UNCHANGED <<running, drawn, certs, memory, history>>
               /\ fs' \in Fs /\ fs'.path = fs.path /\ fs'.tmp \in Inodes
               /\ fs'.path # NoFile => fs'.path # fs'.tmp
               /\ \A i \in Inodes :
                     fs'.data[i] = IF i = fs'.tmp THEN NothingIn(NoHierarchy) ELSE fs.data[i]
<1>1. /\ fs' = OpenedTmp(fs, Held, NoHierarchy) /\ proc[p].pc = "open"
      /\ UNCHANGED <<running, drawn, certs, memory, history>>
  BY DEF OpenTmp
<1>2. /\ fs' \in Fs /\ fs'.path = fs.path /\ fs'.tmp \in Inodes
      /\ fs.tmp # NoFile => fs'.tmp = fs.tmp
      /\ fs.tmp = NoFile => fs'.tmp # fs.path
      /\ \A i \in Inodes :
            fs'.data[i] = IF i = fs'.tmp THEN NothingIn(NoHierarchy) ELSE fs.data[i]
  BY <1>1, SaveOpened DEF BaseInv
<1>3. fs'.path # NoFile => fs'.path # fs'.tmp
  BY <1>2 DEF BaseInv, HandlersInv
<1>4. proc[p].does \in {"init", "sub", "revoke"} /\ proc[p].serial \in Serials /\ proc[p].data \in Hierarchy
  BY <1>1, Shapes DEF BaseInv, Idle
<1> QED
  BY <1>1, <1>2, <1>3, <1>4 DEF OpenTmp, Handling

\* The inodes somebody else can reach keep what they have, but for the one written.
LEMMA WriteTmpStep ==
    ASSUME BaseInv, NEW p \in Procs, WriteTmp(p)
    PROVE  LET r == [pc |-> "rename", does |-> proc[p].does, serial |-> proc[p].serial]
               size == SizeOf(proc[p].data)
           IN  /\ proc[p].pc = "write" /\ r \in Handling /\ proc' = [proc EXCEPT ![p] = r]
               /\ UNCHANGED <<running, drawn, certs, memory, history>>
               /\ fs' \in Fs /\ fs'.path = fs.path /\ fs'.tmp = fs.tmp
               /\ \A i \in Inodes :
                     fs'.data[i] =
                        IF i \notin HeldByOthers(p) \cup {fs.path, fs.tmp} THEN NothingIn(NoHierarchy)
                        ELSE IF i = proc[p].fd THEN Overwritten(fs.data[i], proc[p].data, size, NoHierarchy)
                        ELSE fs.data[i]
<1> DEFINE size == SizeOf(proc[p].data)
           f == WrittenTo(fs, proc[p].fd, proc[p].data, size, NoHierarchy)
<1>1. proc[p].pc = "write" /\ UNCHANGED <<running, drawn, certs, memory, history>>
  BY DEF WriteTmp
<1>2. /\ proc[p].does \in {"init", "sub", "revoke"} /\ proc[p].serial \in Serials
      /\ proc[p].data \in Hierarchy /\ proc[p].fd \in Inodes
  BY <1>1, Shapes DEF BaseInv, Idle
<1>3. fs \in Fs
  BY DEF BaseInv, TypeOK, Fs
<1>4. size \in Nat \ {0}
  BY <1>2, SizesGrow
<1>5. fs' = Collected(f, HeldByOthers(p), NoHierarchy)
  BY DEF WriteTmp
<1> HIDE DEF size
<1>6. /\ f \in Fs /\ f.path = fs.path /\ f.tmp = fs.tmp
      /\ \A i \in Inodes : f.data[i] = IF i = proc[p].fd
                                       THEN Overwritten(fs.data[i], proc[p].data, size, NoHierarchy)
                                       ELSE fs.data[i]
  BY <1>2, <1>3, <1>4, SaveWritten
<1> HIDE DEF f
<1>7. /\ fs' \in Fs /\ fs'.path = fs.path /\ fs'.tmp = fs.tmp
      /\ \A i \in Inodes : fs'.data[i] = IF i \in HeldByOthers(p) \cup {fs.path, fs.tmp} THEN f.data[i]
                                         ELSE NothingIn(NoHierarchy)
  BY <1>5, <1>6, CollectedKeeps
<1> DEFINE r == [pc |-> "rename", does |-> proc[p].does, serial |-> proc[p].serial]
<1>8. r \in Handling /\ proc' = [proc EXCEPT ![p] = r]
  BY <1>2 DEF WriteTmp, Handling
<1> QED
  BY <1>1, <1>6, <1>7, <1>8 DEF size

LEMMA AnswerStep ==
    ASSUME BaseInv, NEW p \in Procs, proc[p] # Idle, Answer(p)
    PROVE  /\ proc' = [proc EXCEPT ![p] = Idle]
           /\ proc[p].does = "revoke" => /\ ackedRevoked' = ackedRevoked \cup {proc[p].serial}
                                         /\ answered' = answered
           /\ proc[p].does # "revoke" => /\ answered' = answered \cup {proc[p].serial}
                                         /\ ackedRevoked' = ackedRevoked
BY DEF Answer

\* rename and remove take the temporary name away.
LEMMA RenameStep ==
    ASSUME BaseInv, NEW p \in Procs, Rename(p)
    PROVE  /\ proc[p].pc = "rename" /\ UNCHANGED <<running, drawn, certs, memory, faulted>>
           /\ fs.tmp # NoFile =>
                 /\ Answer(p)
                 /\ fs' \in Fs /\ fs'.path = fs.tmp /\ fs'.tmp = NoFile
                 /\ \A i \in Inodes : fs'.data[i] = IF i \in Held \cup {fs.tmp, NoFile} THEN fs.data[i]
                                                    ELSE NothingIn(NoHierarchy)
           /\ fs.tmp = NoFile =>
                 LET r == [pc |-> "remove", does |-> proc[p].does, serial |-> proc[p].serial]
                 IN  r \in Handling /\ proc' = [proc EXCEPT ![p] = r]
                     /\ UNCHANGED <<fs, answered, ackedRevoked>>
<1>1. proc[p].pc = "rename" /\ UNCHANGED <<running, drawn, certs, memory, faulted>>
  BY DEF Rename
<1>2. fs \in Fs
  BY DEF BaseInv, TypeOK, Fs
<1>3. ASSUME fs.tmp # NoFile
      PROVE  /\ Answer(p)
             /\ fs' \in Fs /\ fs'.path = fs.tmp /\ fs'.tmp = NoFile
             /\ \A i \in Inodes : fs'.data[i] = IF i \in Held \cup {fs.tmp, NoFile} THEN fs.data[i]
                                                ELSE NothingIn(NoHierarchy)
  <2>1. fs' = Collected(Renamed(fs), Held, NoHierarchy) /\ Answer(p)
    BY <1>3 DEF Rename, CanRename
  <2> DEFINE f == Renamed(fs)
  <2>2. f \in Fs /\ f.path = fs.tmp /\ f.tmp = NoFile /\ f.data = fs.data
    BY <1>2, SaveRenamed
  <2> HIDE DEF f
  <2>3. fs' = Collected(f, Held, NoHierarchy)
    BY <2>1 DEF f
  <2> QED
    BY <2>1, <2>2, <2>3, CollectedKeeps
<1>4. ASSUME fs.tmp = NoFile
      PROVE  LET r == [pc |-> "remove", does |-> proc[p].does, serial |-> proc[p].serial]
             IN  r \in Handling /\ proc' = [proc EXCEPT ![p] = r]
                 /\ UNCHANGED <<fs, answered, ackedRevoked>>
  <2>1. proc' = [proc EXCEPT ![p].pc = "remove"] /\ UNCHANGED <<fs, answered, ackedRevoked>>
    BY <1>4 DEF Rename, CanRename
  <2>2. proc[p].does \in {"init", "sub", "revoke"} /\ proc[p].serial \in Serials
    BY <1>1, Shapes DEF BaseInv, Idle
  <2> QED
    BY <1>1, <2>1, <2>2, PcStep DEF BaseInv, Handling
<1> QED
  BY <1>1, <1>3, <1>4

LEMMA RemoveTmpStep ==
    ASSUME BaseInv, NEW p \in Procs, RemoveTmp(p)
    PROVE  /\ proc[p].pc = "remove" /\ Answer(p) /\ UNCHANGED <<running, drawn, certs, memory, faulted>>
           /\ fs' \in Fs /\ fs'.path = fs.path /\ fs'.tmp = NoFile
           /\ \A i \in Inodes : fs'.data[i] = IF i \in Held \cup {fs.path, NoFile} THEN fs.data[i]
                                              ELSE NothingIn(NoHierarchy)
<1> DEFINE f == TmpRemoved(fs)
<1>1. /\ proc[p].pc = "remove" /\ Answer(p) /\ UNCHANGED <<running, drawn, certs, memory, faulted>>
      /\ fs' = Collected(f, Held, NoHierarchy)
  BY DEF RemoveTmp
<1>2. f \in Fs /\ f.path = fs.path /\ f.tmp = NoFile /\ f.data = fs.data
  BY SaveRenamed DEF BaseInv, TypeOK, Fs
<1> HIDE DEF f
<1> QED
  BY <1>1, <1>2, CollectedKeeps

\* A wiped inode holds no hierarchy.
LEMMA NothingMade == WellMade(NoHierarchy) /\ Made(certs', NoHierarchy)
BY DEF WellMade, Made, NoHierarchy

LEMMA OverwrittenValue ==
    ASSUME NEW old, NEW v, NEW size, NEW none
    PROVE  Overwritten(old, v, size, none).value \in {v, none}
BY DEF Overwritten

LEMMA SaveBase ==
    ASSUME BaseInv, NEW p \in Procs,
           Export(p) \/ OpenTmp(p) \/ WriteTmp(p) \/ WriteFails(p) \/ Rename(p) \/ RemoveTmp(p)
    PROVE  BaseInv'
<1>1. ASSUME proc[p].pc \in {"export", "open", "write", "rename", "remove"}
      PROVE  /\ HoldsCaMu(p) /\ proc[p] # Idle
             /\ proc[p].does \in {"init", "sub", "revoke"} /\ proc[p].serial \in Serials
             /\ proc[p].pc \in {"open", "write"} => WellMade(proc[p].data)
  BY <1>1, Shapes DEF HoldsCaMu, Saving, Idle, BaseInv, CertsInv
<1>2. /\ fs \in Fs /\ faulted \in BOOLEAN /\ \A i \in Inodes : WellMade(fs.data[i].value)
      /\ fs.path # NoFile => fs.path # fs.tmp
  BY DEF BaseInv, TypeOK, CertsInv, HandlersInv, Fs
<1>3. Idle \in Handling /\ Idle.pc = "idle"
  BY DEF Handling, Idle
<1>4. CASE Export(p)
  <2> DEFINE r == [pc |-> "open", does |-> proc[p].does, serial |-> proc[p].serial, data |-> Memory]
  <2>1. /\ proc[p].pc = "export" /\ r \in Handling /\ proc' = [proc EXCEPT ![p] = r]
        /\ WellMade(Memory) /\ UNCHANGED <<running, drawn, certs, memory, fs, history>>
    BY <1>4, ExportStep
  <2>2. r.pc = "open" /\ r.does = proc[p].does /\ r.serial = proc[p].serial /\ r.data = Memory
    OBVIOUS
  <2> HIDE DEF r
  <2> QED
    BY <1>1, <1>2, <2>1, <2>2, FileBase DEF history
<1>5. CASE OpenTmp(p)
  <2> DEFINE r == [pc |-> "write", does |-> proc[p].does, serial |-> proc[p].serial,
                   data |-> proc[p].data, fd |-> fs'.tmp]
  <2>1. /\ proc[p].pc = "open" /\ r \in Handling /\ proc' = [proc EXCEPT ![p] = r]
        /\ UNCHANGED <<running, drawn, certs, memory, history>>
        /\ fs' \in Fs /\ (fs'.path # NoFile => fs'.path # fs'.tmp)
        /\ \A i \in Inodes :
              fs'.data[i] = IF i = fs'.tmp THEN NothingIn(NoHierarchy) ELSE fs.data[i]
    BY <1>5, OpenTmpStep
  <2>2. /\ r.pc = "write" /\ r.does = proc[p].does /\ r.serial = proc[p].serial
        /\ r.data = proc[p].data
    OBVIOUS
  <2>3. \A i \in Inodes : WellMade(fs'.data[i].value)
    BY <1>2, <2>1, NoHierarchyTyped, NothingMade
  <2> HIDE DEF r
  <2> QED
    BY <1>1, <1>2, <2>1, <2>2, <2>3, FileBase DEF history
<1>6. CASE WriteTmp(p)
  <2> DEFINE r == [pc |-> "rename", does |-> proc[p].does, serial |-> proc[p].serial]
  <2>1. /\ proc[p].pc = "write" /\ r \in Handling /\ proc' = [proc EXCEPT ![p] = r]
        /\ UNCHANGED <<running, drawn, certs, memory, history>>
        /\ fs' \in Fs /\ fs'.path = fs.path /\ fs'.tmp = fs.tmp
        /\ \A i \in Inodes :
              \/ fs'.data[i] = NothingIn(NoHierarchy)
              \/ fs'.data[i] = fs.data[i]
              \/ fs'.data[i] = Overwritten(fs.data[i], proc[p].data, SizeOf(proc[p].data), NoHierarchy)
    BY <1>6, WriteTmpStep
  <2>2. r.pc = "rename" /\ r.does = proc[p].does /\ r.serial = proc[p].serial
    OBVIOUS
  <2>3. \A i \in Inodes : WellMade(fs'.data[i].value)
    <3>1. \A i \in Inodes : fs'.data[i].value \in {NoHierarchy, fs.data[i].value, proc[p].data}
      BY <2>1, NoHierarchyTyped, OverwrittenValue
    <3> QED
      BY <1>1, <1>2, <2>1, <3>1, NothingMade
  <2> HIDE DEF r
  <2> QED
    BY <1>1, <1>2, <2>1, <2>2, <2>3, FileBase DEF history
<1>7. CASE WriteFails(p)
  <2> DEFINE f == ShortWrittenTo(fs, proc[p].fd, SizeOf(proc[p].data), NoHierarchy)
  <2>1. /\ proc[p].pc = "write" /\ Answer(p) /\ faulted' = TRUE
        /\ UNCHANGED <<running, drawn, certs, memory>>
        /\ fs' = Collected(f, HeldByOthers(p), NoHierarchy)
    BY <1>7 DEF WriteFails
  <2>2. proc[p].data \in Hierarchy /\ proc[p].fd \in Inodes
    BY <2>1, Shapes DEF BaseInv
  <2>3. SizeOf(proc[p].data) \in Nat \ {0}
    BY <2>2, SizesGrow
  <2>4. /\ f \in Fs /\ f.path = fs.path /\ f.tmp = fs.tmp
        /\ \A i \in Inodes : f.data[i].value \in {NoHierarchy, fs.data[i].value}
    BY <1>2, <2>2, <2>3, SaveWritten
  <2> HIDE DEF f
  <2>5. /\ fs' \in Fs /\ fs'.path = fs.path /\ fs'.tmp = fs.tmp
        /\ \A i \in Inodes : fs'.data[i] = f.data[i] \/ fs'.data[i] = NothingIn(NoHierarchy)
    BY <2>1, <2>4, CollectedKeeps
  <2>6. \A i \in Inodes : WellMade(fs'.data[i].value)
    BY <1>2, <2>4, <2>5, NoHierarchyTyped, NothingMade
  <2>7. /\ proc' = [proc EXCEPT ![p] = Idle]
        /\ answered' = answered \/ (proc[p].does # "revoke" /\ answered' = answered \cup {proc[p].serial})
        /\ ackedRevoked' \subseteq ackedRevoked \cup {proc[p].serial}
    BY <1>1, <2>1, AnswerStep
  <2> QED
    BY <1>1, <1>2, <1>3, <2>1, <2>5, <2>6, <2>7, FileBase
<1>8. ASSUME proc[p].pc \in {"rename", "remove"}, Answer(p), UNCHANGED <<running, drawn, certs, memory, faulted>>,
             fs' \in Fs, fs'.tmp = NoFile,
             \A i \in Inodes : fs'.data[i] = fs.data[i] \/ fs'.data[i] = NothingIn(NoHierarchy)
      PROVE  BaseInv'
  <2>1. \A i \in Inodes : WellMade(fs'.data[i].value)
    BY <1>2, <1>8, NoHierarchyTyped, NothingMade
  <2>2. /\ proc' = [proc EXCEPT ![p] = Idle]
        /\ answered' = answered \/ (proc[p].does # "revoke" /\ answered' = answered \cup {proc[p].serial})
        /\ ackedRevoked' \subseteq ackedRevoked \cup {proc[p].serial}
    BY <1>1, <1>8, AnswerStep
  <2> QED
    BY <1>1, <1>2, <1>3, <1>8, <2>1, <2>2, FileBase
<1>9. CASE Rename(p)
  <2>1. CASE fs.tmp # NoFile
    <3>1. /\ proc[p].pc \in {"rename", "remove"} /\ Answer(p) /\ fs' \in Fs /\ fs'.tmp = NoFile
          /\ UNCHANGED <<running, drawn, certs, memory, faulted>>
          /\ \A i \in Inodes : fs'.data[i] = fs.data[i] \/ fs'.data[i] = NothingIn(NoHierarchy)
      BY <1>9, <2>1, RenameStep
    <3> QED
      BY <1>8, <3>1
  <2>2. CASE fs.tmp = NoFile
    <3> DEFINE r == [pc |-> "remove", does |-> proc[p].does, serial |-> proc[p].serial]
    <3>1. /\ proc[p].pc = "rename" /\ UNCHANGED <<running, drawn, certs, memory, faulted>>
          /\ r \in Handling /\ proc' = [proc EXCEPT ![p] = r]
          /\ UNCHANGED <<fs, answered, ackedRevoked>>
      BY <1>9, <2>2, RenameStep
    <3>2. r.pc = "remove" /\ r.does = proc[p].does /\ r.serial = proc[p].serial
      OBVIOUS
    <3> HIDE DEF r
    <3> QED
      BY <1>1, <1>2, <3>1, <3>2, FileBase
  <2> QED
    BY <2>1, <2>2
<1>10. CASE RemoveTmp(p)
  <2>1. /\ proc[p].pc \in {"rename", "remove"} /\ Answer(p) /\ fs' \in Fs /\ fs'.tmp = NoFile
        /\ UNCHANGED <<running, drawn, certs, memory, faulted>>
        /\ \A i \in Inodes : fs'.data[i] = fs.data[i] \/ fs'.data[i] = NothingIn(NoHierarchy)
    BY <1>10, RemoveTmpStep
  <2> QED
    BY <1>8, <2>1
<1> QED
  BY <1>4, <1>5, <1>6, <1>7, <1>9, <1>10

\* A start believes the file, which is made of a root and CAs it signed.
LEMMA StartBase ==
    ASSUME BaseInv, Start
    PROVE  /\ BaseInv' /\ \A p \in Procs : proc'[p] = Idle
           /\ LET h == IF NoFileYet(fs) THEN NoHierarchy ELSE Published(fs).value
              IN  h \in Hierarchy /\ Memory' = h
<1> DEFINE h == IF NoFileYet(fs) THEN NoHierarchy ELSE Published(fs).value
<1>1. /\ ~running /\ running' = TRUE /\ caInstance' = h.root /\ caIntermediates' = h.subs
      /\ revoked' = h.revoked /\ caStore' = [root |-> h.root, subs |-> h.subs]
      /\ UNCHANGED <<drawn, certs, proc, fs, answered, ackedRevoked, faulted>>
  BY DEF Start, history
<1>2. \A p \in Procs : proc[p] = Idle
  BY <1>1 DEF BaseInv, HandlersInv, HandlerOK
<1>3. h \in Hierarchy /\ Made(certs, h)
  <2>1. fs.path # NoFile => fs.path \in Inodes /\ fs.data[fs.path].value \in Hierarchy
                            /\ Made(certs, fs.data[fs.path].value)
    BY FsTyped DEF BaseInv, TypeOK, Fs, CertsInv, WellMade
  <2> QED
    BY <2>1, NoHierarchyTyped, NothingMade DEF NoFileYet, Published, WellMade
<1> HIDE DEF h
<1>4. h.root \in Serials \cup {None} /\ h.subs \subseteq Serials /\ h.revoked \subseteq Serials
      /\ h = [root |-> h.root, subs |-> h.subs, revoked |-> h.revoked]
  BY <1>3 DEF Hierarchy
<1>5. TypeOK'
  <2>1. caInstance' = None \/ IsRoot(caInstance)'
    BY <1>1, <1>3 DEF Made, IsRoot
  <2>2. (caIntermediates \subseteq {s \in Serials : certs[s].isCA /\ ~IsRoot(s)})'
    BY <1>1, <1>3, <1>4 DEF Made, IsRoot
  <2> QED
    BY <1>1, <1>4, <2>1, <2>2 DEF BaseInv, TypeOK
<1>6. CertsInv'
  <2>1. Made(certs, [root |-> h.root, subs |-> h.subs])
    BY <1>3 DEF Made
  <2> QED
    BY <1>1, <2>1 DEF BaseInv, CertsInv, WellMade
<1>7. HandlersInv'
  BY <1>1, <1>2 DEF BaseInv, HandlersInv, HandlerOK, SavesAlone, HoldsCaMu, Saving, Idle
<1>8. Memory' = h
  BY <1>1, <1>4 DEF Memory
<1> QED
  BY <1>1, <1>2, <1>3, <1>5, <1>6, <1>7, <1>8 DEF BaseInv, h

LEMMA CrashBase ==
    ASSUME BaseInv, Crash
    PROVE  /\ BaseInv'
           /\ fs'.path = fs.path /\ (fs.path # NoFile => fs'.data[fs.path] = fs.data[fs.path])
<1>1. /\ running' = FALSE /\ caInstance' = None /\ caIntermediates' = {} /\ revoked' = {}
      /\ caStore' = [root |-> None, subs |-> {}] /\ proc' = [p \in Procs |-> Idle]
      /\ fs' = Collected(fs, {}, NoHierarchy)
      /\ UNCHANGED <<drawn, certs, answered, ackedRevoked, faulted>>
  BY DEF Crash, history
<1>2. fs \in Fs
  BY DEF BaseInv, TypeOK, Fs
<1>3. /\ fs' \in Fs /\ fs'.path = fs.path /\ fs'.tmp = fs.tmp
      /\ \A i \in Inodes : fs'.data[i] = IF i \in {fs.path, fs.tmp} THEN fs.data[i]
                                         ELSE NothingIn(NoHierarchy)
  BY <1>1, <1>2, CollectedKeeps
<1>4. TypeOK'
  BY <1>1, <1>3 DEF BaseInv, TypeOK, Handling, Fs, None
<1>5. CertsInv'
  <2>1. \A i \in Inodes : Made(certs, fs'.data[i].value)
    BY <1>3, NoHierarchyTyped, NothingMade DEF BaseInv, CertsInv, WellMade
  <2>2. Made(certs, [root |-> None, subs |-> {}])
    BY DEF Made
  <2>3. \A p \in Procs : proc'[p].pc = "idle"
    BY <1>1 DEF Idle
  <2> QED
    BY <1>1, <2>1, <2>2, <2>3 DEF BaseInv, CertsInv, WellMade
<1>6. HandlersInv'
  BY <1>1, <1>3 DEF BaseInv, HandlersInv, HandlerOK, SavesAlone, HoldsCaMu, Saving, Idle
<1>7. fs.path # NoFile => fs.path \in Inodes
  BY <1>2, FsTyped
<1> QED
  BY <1>3, <1>4, <1>5, <1>6, <1>7 DEF BaseInv

-----------------------------------------------------------------------------
(* What is owed to the clients, step by step.                               *)

LEMMA MemoryTyped ==
    /\ BaseInv => Memory \in Hierarchy
    /\ BaseInv' => Memory' \in Hierarchy
BY DEF BaseInv, TypeOK, CertsInv, Memory, Hierarchy

\* A goroutine on its way to the file, without an answer yet.
LEMMA OwedOnTheWay ==
    ASSUME TypeOK, NEW p \in Procs, HoldsCaMu(p), NEW r \in Handling, proc' = [proc EXCEPT ![p] = r],
           r.pc \in {"open", "write", "rename", "remove"},
           r.does = proc[p].does, r.serial = proc[p].serial,
           revoked' = revoked, ackedRevoked' = ackedRevoked
    PROVE  /\ \A c \in Serials : Owed(c)' <=> Owed(c)
           /\ Unsettled' <=> Unsettled
           /\ ~CaMuFree' /\ (WriteLocked' <=> WriteLocked)
<1>1. /\ proc'[p] = r /\ HoldsCaMu(p)' /\ proc[p].pc # "commit"
      /\ \A q \in Procs : q # p => proc'[q] = proc[q] /\ (HoldsCaMu(q)' <=> HoldsCaMu(q))
  BY OwnStep DEF HoldsCaMu, Saving
<1>2. \A c \in Serials : Waiting(c)' <=> Waiting(c)
  BY <1>1 DEF Waiting
<1>3. \A c \in Serials : BeingSaved(c)' <=> BeingSaved(c)
  BY <1>1 DEF BeingSaved
<1>4. \A c \in Serials : Owed(c)' <=> Owed(c)
  BY <1>2, <1>3 DEF Owed
<1>5. Unsettled' <=> Unsettled
  BY <1>4 DEF Unsettled, TypeOK
<1>6. ~CaMuFree' /\ (WriteLocked' <=> WriteLocked)
  BY <1>1 DEF CaMuFree, WriteLocked
<1> QED
  BY <1>4, <1>5, <1>6

\* The answer to a revocation takes over from its save.
LEMMA OwedAnswered ==
    ASSUME BaseInv, NEW p \in Procs, HoldsCaMu(p), Answer(p), revoked' = revoked
    PROVE  /\ \A c \in Serials : Owed(c)' <=> Owed(c)
           /\ Unsettled' <=> Unsettled
<1>1. proc[p] # Idle /\ proc[p].does \in {"init", "sub", "revoke"} /\ proc[p].pc # "commit"
  BY Shapes DEF HoldsCaMu, Saving, Idle, BaseInv
<1>2. proc' = [proc EXCEPT ![p] = Idle] /\ Idle \in Handling
  BY <1>1, AnswerStep DEF Handling
<1>3. /\ proc'[p] = Idle /\ ~HoldsCaMu(p)'
      /\ \A q \in Procs : q # p => proc'[q] = proc[q] /\ (HoldsCaMu(q)' <=> HoldsCaMu(q))
  BY <1>2, OwnStep DEF HoldsCaMu, Saving, Idle, BaseInv
<1>4. \A c \in Serials : Waiting(c)' <=> Waiting(c)
  BY <1>1, <1>3 DEF Waiting, Idle
<1>5. \A c \in Serials :
         (c \in ackedRevoked \/ BeingSaved(c)) <=> (c \in ackedRevoked' \/ BeingSaved(c)')
  BY <1>1, <1>3, AnswerStep DEF BeingSaved
<1>6. \A c \in Serials : Owed(c)' <=> Owed(c)
  BY <1>4, <1>5 DEF Owed
<1> QED
  BY <1>6 DEF Unsettled, BaseInv, TypeOK

\* A hierarchy with the CAs of one that keeps the promises, and with the
\* acknowledged revocations, keeps them too.
LEMMA CurrentKeeps ==
    /\ \A h : Keeps(Memory) /\ Current(h) /\ ackedRevoked \subseteq Serials => Keeps(h)
    /\ \A h : Keeps(Memory)' /\ Current(h)' /\ ackedRevoked' \subseteq Serials => Keeps(h)'
BY DEF Keeps, Memory, Current, Matches, Owed

\* What is owed is revoked, so what is exported lacks nothing.
LEMMA MemoryCurrent ==
    ASSUME BaseInv, Keeps(Memory)
    PROVE  Current(Memory)
<1>1. \A c \in Serials : BeingSaved(c) => c \in revoked
  BY DEF BeingSaved, BaseInv, HandlersInv, HandlerOK, HoldsCaMu, Saving, Idle
<1> QED
  BY <1>1 DEF Keeps, Memory, Current, Matches, Owed

\* An older hierarchy is smaller than memory only for want of a revocation
\* that may still be lost.
LEMMA SmallerIsUnsettled ==
    ASSUME BaseInv, NEW h \in Hierarchy, Current(h)
    PROVE  /\ SizeOf(h) <= SizeOf(Memory) /\ SizeOf(h) \in Nat \ {0} /\ SizeOf(Memory) \in Nat
           /\ SizeOf(h) < SizeOf(Memory) => Unsettled
<1>1. /\ Memory \in Hierarchy /\ h.subs \subseteq Memory.subs /\ h.revoked \subseteq Memory.revoked
      /\ h = [root |-> h.root, subs |-> h.subs, revoked |-> h.revoked]
      /\ Memory = [root |-> h.root, subs |-> h.subs, revoked |-> revoked]
  BY MemoryTyped DEF Current, Matches, Memory, Hierarchy
<1>2. SizeOf(h) <= SizeOf(Memory) /\ SizeOf(h) \in Nat \ {0} /\ SizeOf(Memory) \in Nat
  BY <1>1, SizesGrow
<1>3. h.revoked = revoked => SizeOf(h) = SizeOf(Memory)
  BY <1>1
<1>4. h.revoked # revoked => Unsettled
  BY <1>1 DEF Current, Matches, Unsettled, BaseInv, TypeOK
<1> QED
  BY <1>2, <1>3, <1>4

-----------------------------------------------------------------------------
(* The file and the saves, step by step.                                    *)

\* A step that leaves the file alone and moves no save on.
LEMMA DiskKept ==
    ASSUME BaseInv, BaseInv', FileInv, SavesInv,
           UNCHANGED <<caInstance, caIntermediates, fs>>, revoked \subseteq revoked',
           \A c \in Serials : Owed(c)' => Owed(c),
           Unsettled => Unsettled',
           \A q \in Procs :
              /\ HoldsCaMu(q)' <=> HoldsCaMu(q)
              /\ HoldsCaMu(q) => proc'[q].does = proc[q].does
              /\ proc'[q].pc = "open" => proc'[q] = proc[q] \/ proc'[q].data = Memory
              /\ proc'[q].pc = "write" \/ proc[q].pc = "write" => proc'[q] = proc[q]
              /\ PastOpen(q)' => PastOpen(q)
              /\ proc'[q].pc = "remove" => proc[q].pc = "remove" \/ PathGood,
           FileInv', Keeps(Memory)'
    PROVE  FileInv' /\ SavesInv'
<1>1. \A q \in Procs :
         /\ proc[q].pc = "write" => proc[q].data \in Hierarchy /\ proc[q].fd \in Inodes
         /\ proc[q].pc = "open" => proc[q].data \in Hierarchy
  BY Shapes DEF BaseInv
<1>2. /\ fs.path \in Inodes \cup {NoFile} /\ fs.tmp \in Inodes \cup {NoFile}
      /\ \A i \in Inodes : fs.data[i].value \in Hierarchy /\ fs.data[i].size \in Nat
  BY FsTyped DEF BaseInv, TypeOK, Fs
<1>3. \A i \in Inodes : Good(i) => Good(i)'
  <2>1. \A i \in Inodes : (\E q \in Procs : proc[q].pc = "write" /\ proc[q].fd = i)
            => \E q \in Procs : proc'[q].pc = "write" /\ proc'[q].fd = i
    OBVIOUS
  <2>2. \A i \in Inodes : fs.data[i].intact /\ Good(i) => Good(i)'
    BY DEF Good, Current, Matches
  <2>3. \A i \in Inodes : ~fs.data[i].intact /\ Good(i) => Good(i)'
    BY <2>1 DEF Good
  <2> QED
    BY <2>2, <2>3
<1>4. PathGood => PathGood'
  <2>1. \A i \in Inodes : i = fs'.path /\ Good(i)' => Good(fs.path)'
    BY DEF Good, Current, Matches
  <2> QED
    BY <1>2, <1>3, <2>1 DEF PathGood
<1>5. fs.tmp # NoFile /\ Good(fs.tmp) => Good(fs.tmp)'
  <2>1. \A i \in Inodes : i = fs'.tmp /\ Good(i)' => Good(fs.tmp)'
    BY DEF Good, Current, Matches
  <2> QED
    BY <1>2, <1>3, <2>1
<1>6. \A q \in Procs : proc'[q].pc \in {"open", "write"} => Current(proc[q].data)'
  <2>1. Current(Memory)
    BY MemoryCurrent DEF SavesInv
  <2>2. \A q \in Procs : proc'[q].pc \in {"open", "write"} => proc'[q].data = Memory \/ proc'[q] = proc[q]
    OBVIOUS
  <2>3. \A q \in Procs : proc'[q].pc \in {"open", "write"} /\ proc'[q] = proc[q] => Current(proc[q].data)'
    BY DEF SavesInv, Current, Matches
  <2>4. \A q \in Procs : proc'[q].data = Memory => Current(proc[q].data)'
    BY <2>1 DEF Current, Matches
  <2> QED
    BY <2>2, <2>3, <2>4
<1>7. \A q \in Procs : proc'[q].pc = "write" => fs'.data[proc'[q].fd].size <= SizeOf(Memory')
  <2>1. Memory \in Hierarchy /\ Memory' \in Hierarchy
    BY MemoryTyped
  <2>2. Memory.subs \subseteq Memory'.subs /\ Memory.revoked \subseteq Memory'.revoked
    BY DEF Memory
  <2>3. SizeOf(Memory) \in Nat /\ SizeOf(Memory') \in Nat /\ SizeOf(Memory) <= SizeOf(Memory')
    BY <2>1, <2>2, SizesGrow
  <2> QED
    BY <1>1, <1>2, <2>3 DEF SavesInv
<1>8. CaMuFree' <=> CaMuFree
  BY DEF CaMuFree
<1>9. WriteLocked' <=> WriteLocked
  BY DEF WriteLocked
<1>10. ~WriteLocked' /\ caInstance' # None =>
           fs'.path # NoFile /\ (Published(fs)'.intact => Matches(Published(fs).value)')
  BY <1>9 DEF SavesInv, Published, Matches
<1>11. (\E q \in Procs : PastOpen(q)') => \E q \in Procs : PastOpen(q)
  OBVIOUS
<1>12. /\ (\E q \in Procs : PastOpen(q)') /\ fs'.tmp # NoFile => Good(fs.tmp)'
       /\ (\E q \in Procs : PastOpen(q)') /\ fs'.tmp = NoFile => PathGood'
       /\ (\E q \in Procs : proc'[q].pc = "remove") => PathGood'
       /\ CaMuFree' /\ caInstance' # None => PathGood'
  BY <1>4, <1>5, <1>8, <1>11 DEF SavesInv
<1> QED
  BY <1>6, <1>7, <1>10, <1>12 DEF SavesInv

\* A new certificate breaks no promise, and makes none unless it is answered:
\* then it must be a leaf under the hierarchy.
LEMMA KeepsStays ==
    ASSUME BaseInv, NEW isCA \in BOOLEAN, NEW issuer \in 1..(drawn + 1), NewCert(isCA, issuer),
           ackedRevoked' = ackedRevoked,
           NEW h \in Hierarchy, Keeps(h),
           \/ answered' = answered
           \/ /\ answered' = answered \cup {drawn + 1} /\ ~isCA /\ h.root # None
              /\ \/ issuer = h.root /\ IsRoot(issuer)
                 \/ IsSub(issuer) /\ certs[issuer].issuer = h.root
    PROVE  Keeps(h)'
<1>1. /\ drawn \in Nat /\ drawn + 1 \in Serials
      /\ certs'[drawn + 1] = [isCA |-> isCA, issuer |-> issuer]
      /\ \A c \in Serials : certs[c].isCA => certs'[c] = certs[c]
      /\ \A c \in Serials : c # drawn + 1 => certs'[c] = certs[c]
  BY NewCertStep DEF BaseInv, TypeOK
<1>2. \A c \in 1..drawn : c \in Serials /\ c # drawn + 1 /\ certs'[c] = certs[c] /\ certs[c].issuer \in 1..drawn
  <2>1. \A c \in 1..drawn : c \in Serials /\ c # drawn + 1 /\ ~(c > drawn)
    BY <1>1, CAAssumption DEF Serials
  <2> QED
    BY <1>1, <2>1 DEF BaseInv, CertsInv
<1>3. answered \subseteq 1..drawn
  BY DEF BaseInv, CertsInv
<1>4. answered' \cup ackedRevoked' # {} => h.root # None
  BY DEF Keeps
<1>5. ASSUME NEW c \in answered
      PROVE  /\ IsRoot(c)' => h.root = c
             /\ IsSub(c)' => c \in h.subs
             /\ ~certs'[c].isCA =>
                   \/ certs'[c].issuer = h.root /\ IsRoot(h.root)'
                   \/ IsSub(certs[c].issuer)' /\ certs'[certs'[c].issuer].issuer = h.root
  <2>1. c \in 1..drawn /\ certs[c].issuer \in 1..drawn /\ certs'[c] = certs[c]
        /\ certs'[certs[c].issuer] = certs[certs[c].issuer]
    BY <1>2, <1>3
  <2> QED
    BY <2>1 DEF Keeps, IsRoot, IsSub
<1>6. ASSUME answered' # answered, NEW c, c = drawn + 1
      PROVE  /\ ~certs'[c].isCA
             /\ \/ certs'[c].issuer = h.root /\ IsRoot(h.root)'
                \/ IsSub(certs[c].issuer)' /\ certs'[certs'[c].issuer].issuer = h.root
  <2>1. issuer \in Serials /\ ~isCA
    BY <1>1, <1>6, CAAssumption DEF Serials
  <2>2. certs[issuer].isCA => certs'[issuer] = certs[issuer]
    BY <1>1, <2>1
  <2> QED
    BY <1>1, <1>6, <2>1, <2>2 DEF IsRoot, IsSub
<1> QED
  BY <1>4, <1>5, <1>6 DEF Keeps, IsRoot, IsSub

LEMMA FileSame ==
    ASSUME FileInv, UNCHANGED <<certs, answered, ackedRevoked>>,
           fs'.path = fs.path, fs.path # NoFile => fs'.data[fs.path] = fs.data[fs.path]
    PROVE  FileInv'
<1>1. \A h \in Hierarchy : Keeps(h) => Keeps(h)'
  BY DEF Keeps, IsRoot, IsSub
<1> QED
  BY <1>1 DEF FileInv, Published

LEMMA IssueDisk ==
    ASSUME BaseInv, BaseInv', DiskInv, running, ~WriteLocked, caInstance # None,
           NEW s \in Serials, s = caInstance \/ s \in caIntermediates, Issue(s)
    PROVE  DiskInv'
<1>1. /\ NewCert(FALSE, s) /\ answered' = answered \cup {drawn'} /\ drawn' = drawn + 1
      /\ UNCHANGED <<running, caInstance, caIntermediates, revoked, caStore, proc, fs,
                     ackedRevoked, faulted>>
  BY DEF Issue, NewCert, memory
<1>2. SUFFICES ASSUME ~faulted
               PROVE  FileInv' /\ SavesInv'
  BY <1>1 DEF DiskInv
<1>3. FileInv /\ SavesInv
  BY <1>2 DEF DiskInv
<1>4. s \in 1..(drawn + 1) /\ ((IsRoot(s) /\ s = caInstance) \/ (IsSub(s) /\ certs[s].issuer = caInstance))
  <2>1. (IsRoot(s) /\ s = caInstance) \/ (IsSub(s) /\ certs[s].issuer = caInstance)
    BY CAsAreDrawn DEF BaseInv, TypeOK
  <2>2. s \in 1..drawn /\ drawn \in Nat
    BY <2>1, CAsAreDrawn DEF BaseInv, IsRoot, IsSub, TypeOK
  <2> QED
    BY <2>1, <2>2
<1>5. \A h \in Hierarchy : Keeps(h) /\ h.root = caInstance => Keeps(h)'
  BY <1>1, <1>4, KeepsStays
<1>6. Keeps(Memory)'
  <2>1. Memory' = Memory /\ Memory \in Hierarchy /\ Memory.root = caInstance
    BY <1>1, MemoryTyped DEF Memory
  <2>2. \A h \in Hierarchy : h = Memory' /\ Keeps(h)' => Keeps(Memory)'
    BY DEF Keeps
  <2> QED
    BY <1>3, <1>5, <2>1, <2>2 DEF SavesInv
<1>7. FileInv'
  <2>1. fs.path # NoFile /\ (Published(fs).intact => Published(fs).value.root = caInstance)
    BY <1>3 DEF SavesInv, Matches
  <2>2. \A h \in Hierarchy : Published(fs).intact /\ Published(fs).value = h => Keeps(h)'
    BY <1>3, <1>5, <2>1 DEF FileInv
  <2> QED
    BY <1>1, <2>1, <2>2 DEF FileInv, Published
<1>8. /\ \A c \in Serials : Owed(c)' => Owed(c)
      /\ Unsettled => Unsettled'
  <2>1. \A c \in Serials : Owed(c)' <=> Owed(c)
    BY <1>1 DEF Owed, Waiting, BeingSaved, HoldsCaMu, Saving
  <2> QED
    BY <1>1, <2>1 DEF Unsettled, BaseInv, TypeOK
<1>9. \A q \in Procs :
         /\ HoldsCaMu(q)' <=> HoldsCaMu(q)
         /\ PastOpen(q)' => PastOpen(q)
         /\ proc'[q] = proc[q]
  BY <1>1 DEF HoldsCaMu, Saving, PastOpen
<1> QED
  BY <1>1, <1>3, <1>6, <1>7, <1>8, <1>9, DiskKept

\* No save moves, whoever waits for the lock.
LEMMA GenerateDisk ==
    ASSUME BaseInv, BaseInv', DiskInv, NEW p \in Procs, NEW d \in {"init", "sub"},
           NEW j \in 1..(drawn + 1), running, proc[p].pc = "idle", NewCert(TRUE, j),
           proc' = [proc EXCEPT ![p] = [pc |-> "commit", does |-> d, serial |-> drawn + 1]],
           UNCHANGED <<running, memory, fs, history>>
    PROVE  DiskInv'
<1> DEFINE r == [pc |-> "commit", does |-> d, serial |-> drawn + 1]
<1>1. UNCHANGED <<running, caInstance, caIntermediates, revoked, caStore, fs, answered,
                  ackedRevoked, faulted>>
  BY DEF memory, history
<1>2. SUFFICES ASSUME ~faulted
               PROVE  FileInv' /\ SavesInv'
  BY <1>1 DEF DiskInv
<1>3. FileInv /\ SavesInv
  BY <1>2 DEF DiskInv
<1>4. r \in Handling /\ r.pc = "commit" /\ r.does # "revoke"
  BY NewCertStep DEF Handling, BaseInv
<1> HIDE DEF r
<1>5. /\ proc'[p] = r
      /\ \A q \in Procs : q # p => proc'[q] = proc[q]
  BY <1>4, OwnStep DEF BaseInv, r
<1>6. \A h \in Hierarchy : Keeps(h) => Keeps(h)'
  BY <1>1, KeepsStays
<1>7. Keeps(Memory)'
  <2>1. Memory' = Memory /\ Memory \in Hierarchy
    BY <1>1, MemoryTyped DEF Memory
  <2>2. \A h \in Hierarchy : h = Memory' /\ Keeps(h)' => Keeps(Memory)'
    BY DEF Keeps
  <2> QED
    BY <1>3, <1>6, <2>1, <2>2 DEF SavesInv
<1>8. FileInv'
  BY <1>1, <1>3, <1>6 DEF FileInv, Published
<1>9. \A q \in Procs :
         /\ HoldsCaMu(q)' <=> HoldsCaMu(q)
         /\ HoldsCaMu(q) => proc'[q] = proc[q]
         /\ PastOpen(q)' => PastOpen(q)
         /\ proc'[q].pc \in {"open", "write", "remove"} => proc'[q] = proc[q]
         /\ proc[q].pc = "write" => proc'[q] = proc[q]
  BY <1>4, <1>5 DEF HoldsCaMu, Saving, PastOpen
<1>10. /\ \A c \in Serials : Owed(c)' => Owed(c)
       /\ Unsettled => Unsettled'
  <2>1. \A c \in Serials : Waiting(c)' <=> Waiting(c)
    BY <1>4, <1>5 DEF Waiting
  <2>2. \A c \in Serials : BeingSaved(c)' <=> BeingSaved(c)
    BY <1>9 DEF BeingSaved
  <2>3. \A c \in Serials : Owed(c)' <=> Owed(c)
    BY <1>1, <2>1, <2>2 DEF Owed
  <2> QED
    BY <1>1, <2>3 DEF Unsettled, BaseInv, TypeOK
<1> QED
  BY <1>1, <1>3, <1>7, <1>8, <1>9, <1>10, DiskKept

\* A revocation is owed again once its handler has come for the save.
LEMMA RevokeApplyDisk ==
    ASSUME BaseInv, BaseInv', DiskInv, NEW p \in Procs, NEW c \in Serials, RevokeApply(p, c)
    PROVE  DiskInv'
<1> DEFINE r == [pc |-> "commit", does |-> "revoke", serial |-> c]
<1>1. /\ running /\ proc[p].pc = "idle" /\ revoked' = revoked \cup {c} /\ proc' = [proc EXCEPT ![p] = r]
      /\ UNCHANGED <<running, certs, caInstance, caIntermediates, caStore, fs,
                     answered, ackedRevoked, faulted>>
  BY DEF RevokeApply, history
<1>2. SUFFICES ASSUME ~faulted
               PROVE  FileInv' /\ SavesInv'
  BY <1>1 DEF DiskInv
<1>3. FileInv /\ SavesInv
  BY <1>1, <1>2 DEF DiskInv
<1>4. r \in Handling /\ r.pc = "commit" /\ r.does = "revoke" /\ r.serial = c
  BY DEF Handling
<1> HIDE DEF r
<1>5. /\ proc'[p] = r
      /\ \A q \in Procs : q # p => proc'[q] = proc[q]
  BY <1>1, <1>4, OwnStep DEF BaseInv
<1>6. Keeps(Memory)'
  BY <1>1, <1>3 DEF SavesInv, Keeps, Memory, IsRoot, IsSub
<1>7. FileInv'
  BY <1>1, <1>3, FileSame
<1>8. \A q \in Procs :
         /\ HoldsCaMu(q)' <=> HoldsCaMu(q)
         /\ HoldsCaMu(q) => proc'[q] = proc[q]
         /\ PastOpen(q)' => PastOpen(q)
         /\ proc'[q].pc \in {"open", "write", "remove"} => proc'[q] = proc[q]
         /\ proc[q].pc = "write" => proc'[q] = proc[q]
  BY <1>1, <1>4, <1>5 DEF HoldsCaMu, Saving, PastOpen
<1>9. \A d \in Serials : Owed(d)' => Owed(d)
  <2>1. \A d \in Serials : d # c => (Waiting(d)' <=> Waiting(d))
    BY <1>1, <1>4, <1>5 DEF Waiting
  <2>2. Waiting(c)'
    BY <1>4, <1>5 DEF Waiting
  <2>3. \A d \in Serials : BeingSaved(d)' <=> BeingSaved(d)
    BY <1>8 DEF BeingSaved
  <2> QED
    BY <1>1, <2>1, <2>2, <2>3 DEF Owed
<1>10. Unsettled => Unsettled'
  BY <1>1, <1>9 DEF Unsettled, BaseInv, TypeOK
<1> QED
  BY <1>1, <1>3, <1>6, <1>7, <1>8, <1>9, <1>10, DiskKept

\* Whoever comes to the file finds nobody at it.
LEMMA EnterDisk ==
    ASSUME BaseInv, StoreFree, NEW p \in Procs, proc[p].pc = "commit", proc' = [proc EXCEPT ![p].pc = "export"],
           Keeps(Memory)',
           \/ proc[p].does # "revoke"
           \/ fs'.path # NoFile /\ (Published(fs)'.intact => Matches(Published(fs).value)')
    PROVE  SavesInv'
<1> DEFINE r == [pc |-> "export", does |-> proc[p].does, serial |-> proc[p].serial]
<1>1. proc' = [proc EXCEPT ![p] = r]
  BY PcStep DEF BaseInv
<1>2. r \in Handling
  BY Shapes DEF BaseInv, Handling, Idle
<1>3. proc'[p] = r /\ \A q \in Procs : q # p => proc'[q] = proc[q]
  BY <1>1, <1>2, OwnStep DEF BaseInv
<1>4. \A q \in Procs : proc'[q].pc \notin {"open", "write", "rename", "remove"}
  BY <1>3 DEF StoreFree, Saving
<1>5. HoldsCaMu(p)' /\ ~CaMuFree'
  BY <1>3 DEF HoldsCaMu, CaMuFree
<1>6. proc[p].does # "revoke" => WriteLocked'
  BY <1>3, <1>5 DEF WriteLocked
<1> QED
  BY <1>4, <1>5, <1>6 DEF SavesInv, PastOpen

LEMMA CommitDisk ==
    ASSUME BaseInv, BaseInv', DiskInv, NEW p \in Procs, InitCommit(p) \/ SubCommit(p) \/ RevokeSave(p)
    PROVE  DiskInv'
<1>1. /\ proc[p].pc = "commit" /\ running /\ proc[p] # Idle /\ HandlerOK(p)
      /\ UNCHANGED <<running, certs, fs, answered, ackedRevoked, faulted>>
  BY DEF InitCommit, SubCommit, RevokeSave, BaseInv, HandlersInv, HandlerOK, Idle, history
<1>2. SUFFICES ASSUME ~faulted
               PROVE  FileInv' /\ SavesInv'
  BY <1>1 DEF DiskInv
<1>3. FileInv /\ SavesInv
  BY <1>1, <1>2 DEF DiskInv
<1>4. FileInv'
  BY <1>1, <1>3, FileSame
<1>5. CASE InitCommit(p) /\ NoRootYet
  <2>1. /\ caInstance = None /\ revoked' = {} /\ caIntermediates' = caIntermediates
        /\ StoreFree /\ proc' = [proc EXCEPT ![p].pc = "export"] /\ proc[p].does = "init"
    BY <1>5 DEF InitCommit, NoRootYet, Enlist, Exporting
  <2>2. answered = {} /\ ackedRevoked = {}
    BY <1>3, <2>1 DEF SavesInv, Keeps, Memory
  <2>3. Keeps(Memory)'
    BY <1>1, <2>2 DEF Keeps
  <2> QED
    BY <1>1, <1>4, <2>1, <2>3, EnterDisk
<1>6. CASE InitCommit(p) /\ ~NoRootYet
  <2>1. /\ proc' = [proc EXCEPT ![p] = Idle] /\ UNCHANGED <<caInstance, caIntermediates, revoked>>
        /\ proc[p].does = "init"
    BY <1>6 DEF InitCommit
  <2>2. /\ Idle \in Handling /\ Idle.pc = "idle"
    BY DEF Handling, Idle
  <2>3. /\ proc'[p] = Idle /\ \A q \in Procs : q # p => proc'[q] = proc[q]
    BY <2>1, <2>2, OwnStep DEF BaseInv
  <2>4. Keeps(Memory)'
    BY <1>1, <1>3, <2>1 DEF SavesInv, Keeps, Memory, IsRoot, IsSub
  <2>5. \A q \in Procs :
           /\ HoldsCaMu(q)' <=> HoldsCaMu(q)
           /\ HoldsCaMu(q) => proc'[q] = proc[q]
           /\ PastOpen(q)' => PastOpen(q)
           /\ proc'[q].pc \in {"open", "write", "remove"} => proc'[q] = proc[q]
           /\ proc[q].pc = "write" => proc'[q] = proc[q]
    BY <1>1, <2>2, <2>3 DEF HoldsCaMu, Saving, PastOpen
  <2>6. \A c \in Serials : Owed(c)' <=> Owed(c)
    <3>1. \A c \in Serials : Waiting(c)' <=> Waiting(c)
      BY <2>1, <2>2, <2>3 DEF Waiting
    <3>2. \A c \in Serials : BeingSaved(c)' <=> BeingSaved(c)
      BY <2>5 DEF BeingSaved
    <3> QED
      BY <1>1, <2>1, <3>1, <3>2 DEF Owed
  <2>7. Unsettled => Unsettled'
    BY <2>1, <2>6 DEF Unsettled, BaseInv, TypeOK
  <2> QED
    BY <1>1, <1>3, <1>4, <2>1, <2>4, <2>5, <2>6, <2>7, DiskKept
<1>7. CASE SubCommit(p)
  <2>1. /\ caIntermediates' = caIntermediates \cup {proc[p].serial} /\ UNCHANGED <<caInstance, revoked>>
        /\ StoreFree /\ proc' = [proc EXCEPT ![p].pc = "export"] /\ proc[p].does = "sub"
    BY <1>7 DEF SubCommit, Enlist, Exporting
  <2>2. Keeps(Memory)'
    BY <1>1, <1>3, <2>1 DEF SavesInv, Keeps, Memory, IsRoot, IsSub
  <2> QED
    BY <1>1, <1>4, <2>1, <2>2, EnterDisk
<1>8. CASE RevokeSave(p)
  <2>1. /\ UNCHANGED <<caInstance, caIntermediates, revoked>> /\ ~WriteLocked
        /\ StoreFree /\ proc' = [proc EXCEPT ![p].pc = "export"] /\ proc[p].does = "revoke"
    BY <1>8 DEF RevokeSave, Enlist, Exporting
  <2>2. Keeps(Memory)'
    BY <1>1, <1>3, <2>1 DEF SavesInv, Keeps, Memory, IsRoot, IsSub
  <2>3. fs.path # NoFile /\ (Published(fs).intact => Matches(Published(fs).value))
    BY <1>1, <1>3, <2>1 DEF SavesInv, HandlerOK
  <2>4. fs'.path # NoFile /\ (Published(fs)'.intact => Matches(Published(fs).value)')
    BY <1>1, <2>1, <2>3 DEF Published, Matches
  <2> QED
    BY <1>1, <1>4, <2>1, <2>2, <2>4, EnterDisk
<1> QED
  BY <1>5, <1>6, <1>7, <1>8

LEMMA ExportDisk ==
    ASSUME BaseInv, BaseInv', DiskInv, NEW p \in Procs, Export(p)
    PROVE  DiskInv'
<1> DEFINE r == [pc |-> "open", does |-> proc[p].does, serial |-> proc[p].serial, data |-> Memory]
<1>1. /\ proc[p].pc = "export" /\ r \in Handling /\ proc' = [proc EXCEPT ![p] = r]
      /\ UNCHANGED <<running, certs, caInstance, caIntermediates, revoked, fs,
                     answered, ackedRevoked, faulted>>
  BY ExportStep DEF memory, history
<1>2. SUFFICES ASSUME ~faulted, running
               PROVE  FileInv' /\ SavesInv'
  <2>1. FileInv => FileInv'
    BY <1>1, FileSame
  <2> QED
    BY <1>1, <2>1 DEF DiskInv
<1>3. FileInv /\ SavesInv
  BY <1>2 DEF DiskInv
<1>4. FileInv'
  BY <1>1, <1>3, FileSame
<1>5. r.pc = "open" /\ r.does = proc[p].does /\ r.serial = proc[p].serial /\ r.data = Memory
  OBVIOUS
<1> HIDE DEF r
<1>6. HoldsCaMu(p) /\ HoldsCaMu(p)' /\ proc'[p] = r /\ \A q \in Procs : q # p => proc'[q] = proc[q]
  BY <1>1, <1>5, OwnStep DEF BaseInv, HoldsCaMu, Saving
<1>7. (\A c \in Serials : Owed(c)' <=> Owed(c)) /\ (Unsettled' <=> Unsettled)
  BY <1>1, <1>5, <1>6, OwedOnTheWay DEF BaseInv
<1>8. Keeps(Memory)'
  BY <1>1, <1>3 DEF SavesInv, Keeps, Memory, IsRoot, IsSub
<1>9. \A q \in Procs :
         /\ HoldsCaMu(q)' <=> HoldsCaMu(q)
         /\ HoldsCaMu(q) => proc'[q].does = proc[q].does
         /\ proc'[q].pc = "open" => proc'[q] = proc[q] \/ proc'[q].data = Memory
         /\ proc'[q].pc \in {"write", "remove"} => proc'[q] = proc[q]
         /\ proc[q].pc = "write" => proc'[q] = proc[q]
         /\ PastOpen(q)' => PastOpen(q)
  BY <1>1, <1>5, <1>6 DEF HoldsCaMu, Saving, PastOpen
<1> QED
  BY <1>1, <1>3, <1>4, <1>7, <1>8, <1>9, DiskKept

\* The temporary file is wiped under whoever else had it, but the one who wiped
\* it is about to write it.
LEMMA OpenTmpDisk ==
    ASSUME BaseInv, BaseInv', DiskInv, NEW p \in Procs, OpenTmp(p)
    PROVE  DiskInv'
<1> DEFINE r == [pc |-> "write", does |-> proc[p].does, serial |-> proc[p].serial,
                 data |-> proc[p].data, fd |-> fs'.tmp]
<1>1. /\ proc[p].pc = "open" /\ r \in Handling /\ proc' = [proc EXCEPT ![p] = r]
      /\ UNCHANGED <<running, certs, caInstance, caIntermediates, revoked,
                     answered, ackedRevoked, faulted>>
      /\ fs'.path = fs.path /\ fs'.tmp \in Inodes /\ (fs'.path # NoFile => fs'.path # fs'.tmp)
      /\ \A i \in Inodes :
            fs'.data[i] = IF i = fs'.tmp THEN NothingIn(NoHierarchy) ELSE fs.data[i]
  BY OpenTmpStep DEF memory, history
<1>2. /\ fs.path \in Inodes \cup {NoFile}
      /\ fs.path # NoFile => fs'.data[fs.path] = fs.data[fs.path]
  BY <1>1, FsTyped DEF BaseInv, TypeOK, Fs
<1>3. SUFFICES ASSUME ~faulted, running
               PROVE  FileInv' /\ SavesInv'
  <2>1. FileInv => FileInv'
    BY <1>1, <1>2, FileSame
  <2> QED
    BY <1>1, <2>1 DEF DiskInv
<1>4. FileInv /\ SavesInv
  BY <1>3 DEF DiskInv
<1>5. FileInv'
  BY <1>1, <1>2, <1>4, FileSame
<1>6. /\ r.pc = "write" /\ r.does = proc[p].does /\ r.serial = proc[p].serial
      /\ r.data = proc[p].data /\ r.fd = fs'.tmp
  OBVIOUS
<1> HIDE DEF r
<1>7. HoldsCaMu(p) /\ proc'[p] = r /\ \A q \in Procs : q # p => proc'[q] = proc[q]
  BY <1>1, <1>6, OwnStep DEF BaseInv, HoldsCaMu, Saving
<1>8. /\ (\A c \in Serials : Owed(c)' <=> Owed(c)) /\ (Unsettled' <=> Unsettled)
      /\ ~CaMuFree' /\ (WriteLocked' <=> WriteLocked)
  BY <1>1, <1>6, <1>7, OwedOnTheWay DEF BaseInv
<1>9. Keeps(Memory)' /\ Memory' = Memory
  BY <1>1, <1>4 DEF SavesInv, Keeps, Memory, IsRoot, IsSub
<1>10. \A q \in Procs : proc'[q].pc \in {"open", "write"} => Current(proc[q].data)'
  <2>1. \A q \in Procs : proc'[q].pc \in {"open", "write"} =>
            Current(proc[q].data) /\ proc'[q].data = proc[q].data
    BY <1>1, <1>4, <1>6, <1>7 DEF SavesInv
  <2> QED
    BY <1>1, <1>8, <2>1 DEF Current, Matches
<1>11. \A q \in Procs : proc'[q].pc = "write" => fs'.data[proc'[q].fd].size <= SizeOf(Memory')
  <2>1. SizeOf(Memory) \in Nat
    BY MemoryTyped, SizesGrow
  <2>2. \A i \in Inodes : fs'.data[i].size = 0 \/ fs'.data[i] = fs.data[i]
    BY <1>1, NoHierarchyTyped
  <2>3. \A q \in Procs : proc'[q].pc = "write" =>
            /\ proc'[q].fd \in Inodes
            /\ q # p => proc[q].pc = "write" /\ fs.data[proc'[q].fd].size <= SizeOf(Memory)
    <3>1. \A q \in Procs : proc[q].pc = "write" =>
              proc[q].fd \in Inodes /\ fs.data[proc[q].fd].size <= SizeOf(Memory)
      BY <1>4, Shapes DEF SavesInv, BaseInv
    <3> QED
      BY <1>1, <1>6, <1>7, <3>1
  <2>4. \A q \in Procs : proc'[q].pc = "write" /\ q = p => fs'.data[proc'[q].fd].size = 0
    BY <1>1, <1>6, <1>7, NoHierarchyTyped
  <2> QED
    BY <1>9, <2>1, <2>2, <2>3, <2>4
<1>12. fs'.tmp # NoFile /\ Good(fs.tmp)'
  <2>1. fs'.tmp # NoFile /\ ~fs'.data[fs'.tmp].intact
    BY <1>1, NoHierarchyTyped, ConstantsTyped
  <2>2. \E q \in Procs : proc'[q].pc = "write" /\ proc'[q].fd = fs'.tmp
    BY <1>6, <1>7
  <2> QED
    BY <2>1, <2>2 DEF Good
<1>13. PathGood => PathGood'
  <2>1. \A i : (\E q \in Procs : proc[q].pc = "write" /\ proc[q].fd = i)
            => \E q \in Procs : proc'[q].pc = "write" /\ proc'[q].fd = i
    BY <1>1, <1>7
  <2>2. PathGood /\ fs.data[fs.path].intact => Good(fs.path)'
    BY <1>1, <1>2, <1>8 DEF PathGood, Good, Current, Matches
  <2>3. PathGood /\ ~fs.data[fs.path].intact => Good(fs.path)'
    BY <1>1, <1>2, <1>8, <2>1 DEF PathGood, Good
  <2> QED
    BY <1>1, <2>2, <2>3 DEF PathGood
<1>14. (\E q \in Procs : proc'[q].pc = "remove") => PathGood'
  <2>1. (\E q \in Procs : proc'[q].pc = "remove") => \E q \in Procs : proc[q].pc = "remove"
    BY <1>6, <1>7
  <2> QED
    BY <1>4, <1>13, <2>1 DEF SavesInv
<1>15. ~WriteLocked' /\ caInstance' # None =>
           fs'.path # NoFile /\ (Published(fs)'.intact => Matches(Published(fs).value)')
  BY <1>1, <1>2, <1>4, <1>8 DEF SavesInv, Published, Matches
<1> QED
  BY <1>5, <1>8, <1>9, <1>10, <1>11, <1>12, <1>14, <1>15 DEF SavesInv

\* A write may find a longer content of somebody else's and leave it torn, but
\* only while a revocation still waits for the save that will replace it.
LEMMA WriteTmpDisk ==
    ASSUME BaseInv, BaseInv', DiskInv, NEW p \in Procs, WriteTmp(p)
    PROVE  DiskInv'
<1> DEFINE r == [pc |-> "rename", does |-> proc[p].does, serial |-> proc[p].serial]
           fd == proc[p].fd
           h == proc[p].data
           new == Overwritten(fs.data[fd], h, SizeOf(h), NoHierarchy)
<1>1. /\ proc[p].pc = "write" /\ r \in Handling /\ proc' = [proc EXCEPT ![p] = r]
      /\ UNCHANGED <<running, certs, caInstance, caIntermediates, revoked,
                     answered, ackedRevoked, faulted>>
      /\ fs'.path = fs.path /\ fs'.tmp = fs.tmp
      /\ \A i \in Inodes : i \in HeldByOthers(p) \cup {fs.path, fs.tmp} =>
            fs'.data[i] = IF i = fd THEN new ELSE fs.data[i]
  BY WriteTmpStep DEF memory, history
<1>2. SUFFICES ASSUME ~faulted, running
               PROVE  FileInv' /\ SavesInv'
  BY <1>1 DEF DiskInv, BaseInv, HandlersInv, HandlerOK, Idle
<1>3. FileInv /\ SavesInv
  BY <1>2, <1>1 DEF DiskInv
<1>4. r.pc = "rename" /\ r.does = proc[p].does /\ r.serial = proc[p].serial
  OBVIOUS
<1> HIDE DEF r
<1>5. HoldsCaMu(p) /\ proc'[p] = r /\ \A q \in Procs : q # p => proc'[q] = proc[q]
  BY <1>1, <1>4, OwnStep DEF BaseInv, HoldsCaMu, Saving
<1>6. /\ (\A c \in Serials : Owed(c)' <=> Owed(c)) /\ (Unsettled' <=> Unsettled)
      /\ ~CaMuFree' /\ (WriteLocked' <=> WriteLocked)
  BY <1>1, <1>4, <1>5, OwedOnTheWay DEF BaseInv
<1>7. /\ h \in Hierarchy /\ fd \in Inodes /\ Current(h)
      /\ \A i \in Inodes : fs.data[i].size \in Nat
      /\ fs.path \in Inodes \cup {NoFile} /\ fs.tmp \in Inodes \cup {NoFile}
      /\ fs.data[fd].size <= SizeOf(Memory)
  BY <1>1, <1>3, Shapes, FsTyped DEF SavesInv, BaseInv, TypeOK, Fs
<1>8. /\ SizeOf(Memory) \in Nat /\ SizeOf(h) \in Nat /\ SizeOf(h) <= SizeOf(Memory)
      /\ SizeOf(h) < SizeOf(Memory) => Unsettled
  BY <1>7, SmallerIsUnsettled
<1>9. /\ new.size \in Nat /\ new.size <= SizeOf(Memory)
      /\ new.intact => new.value = h
      /\ ~new.intact => Unsettled
  <2>1. CASE fs.data[fd].size <= SizeOf(h)
    <3>1. new = [intact |-> TRUE, size |-> SizeOf(h), value |-> h]
      BY <2>1 DEF Overwritten
    <3> QED
      BY <1>8, <3>1
  <2>2. CASE ~(fs.data[fd].size <= SizeOf(h))
    <3>1. new = [intact |-> FALSE, size |-> fs.data[fd].size, value |-> NoHierarchy]
      BY <2>2 DEF Overwritten
    <3>2. SizeOf(h) < SizeOf(Memory)
      BY <1>7, <1>8, <2>2
    <3> QED
      BY <1>7, <1>8, <3>1, <3>2
  <2> QED
    BY <2>1, <2>2
<1> HIDE DEF new, h, fd
<1>10. Keeps(Memory)' /\ Memory' = Memory
  BY <1>1, <1>3 DEF SavesInv, Keeps, Memory, IsRoot, IsSub
<1>11. FileInv'
  <2>1. CASE fs.path = fd
    <3>1. fs'.path # NoFile /\ fs'.data[fs'.path] = new
      BY <1>1, <1>7, <2>1, ConstantsTyped
    <3>2. Keeps(h)
      BY <1>3, <1>7, CurrentKeeps DEF SavesInv, BaseInv, TypeOK
    <3>3. \A k \in Hierarchy : k = h => Keeps(k)'
      BY <1>1, <3>2 DEF Keeps, IsRoot, IsSub
    <3> QED
      BY <1>9, <3>1, <3>3 DEF FileInv, Published
  <2>2. CASE fs.path # fd
    <3>1. fs.path # NoFile => fs'.data[fs.path] = fs.data[fs.path]
      BY <1>1, <1>7, <2>2
    <3> QED
      BY <1>1, <1>3, <3>1, FileSame
  <2> QED
    BY <2>1, <2>2
<1>12. \A q \in Procs : proc'[q].pc \in {"open", "write"} => Current(proc[q].data)'
  <2>1. \A q \in Procs : proc'[q].pc \in {"open", "write"} =>
            Current(proc[q].data) /\ proc'[q].data = proc[q].data
    BY <1>3, <1>4, <1>5 DEF SavesInv
  <2> QED
    BY <1>1, <1>6, <2>1 DEF Current, Matches
<1>13. \A q \in Procs : proc'[q].pc = "write" => fs'.data[proc'[q].fd].size <= SizeOf(Memory')
  <2>1. \A q \in Procs : proc'[q].pc = "write" =>
            /\ q # p /\ proc[q].pc = "write" /\ proc'[q] = proc[q] /\ proc[q].fd \in Inodes
            /\ fs.data[proc[q].fd].size <= SizeOf(Memory)
    BY <1>3, <1>4, <1>5, Shapes DEF SavesInv, BaseInv
  <2>2. \A q \in Procs : proc'[q].pc = "write" => proc[q].fd \in HeldByOthers(p)
    BY <2>1 DEF HeldByOthers
  <2> QED
    BY <1>1, <1>9, <1>10, <2>1, <2>2
<1>14. ASSUME NEW i \in Inodes, i \in {fs.path, fs.tmp}, Good(i)
       PROVE  Good(i)'
  <2>1. CASE i = fd
    <3>1. fs'.data[i] = new
      BY <1>1, <1>14, <2>1
    <3>2. CASE new.intact
      BY <1>1, <1>6, <1>7, <1>9, <3>1, <3>2 DEF Good, Current, Matches
    <3>3. CASE ~new.intact
      BY <1>6, <1>9, <3>1, <3>3 DEF Good
    <3> QED
      BY <3>2, <3>3
  <2>2. CASE i # fd
    <3>1. fs'.data[i] = fs.data[i]
      BY <1>1, <1>14, <2>2
    <3>2. (\E q \in Procs : proc[q].pc = "write" /\ proc[q].fd = i)
              => \E q \in Procs : proc'[q].pc = "write" /\ proc'[q].fd = i
      BY <1>5, <2>2 DEF fd
    <3>3. CASE fs.data[i].intact
      BY <1>1, <1>6, <1>14, <3>1, <3>3 DEF Good, Current, Matches
    <3>4. CASE ~fs.data[i].intact
      BY <1>6, <1>14, <3>1, <3>2, <3>4 DEF Good
    <3> QED
      BY <3>3, <3>4
  <2> QED
    BY <2>1, <2>2
<1>15. PathGood => PathGood'
  <2>1. \A i \in Inodes : i = fs'.path /\ Good(i)' => Good(fs.path)'
    BY DEF Good, Current, Matches
  <2> QED
    BY <1>1, <1>7, <1>14, <2>1 DEF PathGood
<1>16. fs.tmp # NoFile /\ Good(fs.tmp) => Good(fs.tmp)'
  <2>1. \A i \in Inodes : i = fs'.tmp /\ Good(i)' => Good(fs.tmp)'
    BY DEF Good, Current, Matches
  <2> QED
    BY <1>1, <1>7, <1>14, <2>1
<1>17. /\ fs'.tmp # NoFile => Good(fs.tmp)'
       /\ fs'.tmp = NoFile => PathGood'
       /\ (\E q \in Procs : proc'[q].pc = "remove") => PathGood'
  <2>1. PastOpen(p)
    BY <1>1 DEF PastOpen
  <2>2. (\E q \in Procs : proc'[q].pc = "remove") => \E q \in Procs : proc[q].pc = "remove"
    BY <1>4, <1>5
  <2> QED
    BY <1>1, <1>3, <1>15, <1>16, <2>1, <2>2 DEF SavesInv
<1>18. ~WriteLocked' /\ caInstance' # None =>
           fs'.path # NoFile /\ (Published(fs)'.intact => Matches(Published(fs).value)')
  <2>1. CASE fs.path = fd
    <3>1. fs'.path # NoFile /\ fs'.data[fs'.path] = new
      BY <1>1, <1>7, <2>1, ConstantsTyped
    <3> QED
      BY <1>1, <1>7, <1>9, <3>1 DEF Published, Current, Matches
  <2>2. CASE fs.path # fd
    <3>1. fs.path # NoFile => fs'.data[fs.path] = fs.data[fs.path]
      BY <1>1, <1>7, <2>2
    <3> QED
      BY <1>1, <1>3, <1>6, <3>1 DEF SavesInv, Published, Matches
  <2> QED
    BY <2>1, <2>2
<1> QED
  BY <1>6, <1>10, <1>11, <1>12, <1>13, <1>17, <1>18 DEF SavesInv

\* The end of a save: the file under path is good, whichever writer made it.
LEMMA AnsweredDisk ==
    ASSUME BaseInv, BaseInv', FileInv, SavesInv, NEW p \in Procs, proc[p].pc \in {"rename", "remove"},
           Answer(p), UNCHANGED <<certs, caInstance, caIntermediates, revoked>>,
           fs'.path \in Inodes, fs'.tmp = NoFile, Good(fs'.path),
           \A i \in Inodes : i \in Held \cup {fs'.path} => fs'.data[i] = fs.data[i]
    PROVE  FileInv' /\ SavesInv'
<1>1. /\ HoldsCaMu(p) /\ proc[p] # Idle /\ proc[p].does \in {"init", "sub", "revoke"}
      /\ proc[p].serial \in Serials /\ Idle \in Handling /\ Idle.pc = "idle" /\ HandlerOK(p)
  BY Shapes DEF HoldsCaMu, Saving, Idle, BaseInv, HandlersInv, Handling
<1>2. /\ proc' = [proc EXCEPT ![p] = Idle]
      /\ proc[p].does = "revoke" =>
            ackedRevoked' = ackedRevoked \cup {proc[p].serial} /\ answered' = answered
      /\ proc[p].does # "revoke" =>
            answered' = answered \cup {proc[p].serial} /\ ackedRevoked' = ackedRevoked
  BY <1>1, AnswerStep
<1>3. proc'[p] = Idle /\ \A q \in Procs : q # p => proc'[q] = proc[q]
  BY <1>1, <1>2, OwnStep DEF BaseInv
<1>4. (\A c \in Serials : Owed(c)' <=> Owed(c)) /\ (Unsettled' <=> Unsettled)
  BY <1>1, OwedAnswered
<1>5. Keeps(Memory)' /\ Memory' = Memory
  <2>1. Memory' = Memory
    BY DEF Memory
  <2>2. caInstance # None
    BY <1>1 DEF HandlerOK
  <2>3. CASE proc[p].does = "revoke"
    BY <1>1, <1>2, <2>1, <2>2, <2>3 DEF HandlerOK, SavesInv, Keeps, Memory, IsRoot, IsSub
  <2>4. CASE proc[p].does = "init"
    <3>1. IsRoot(proc[p].serial) /\ proc[p].serial = caInstance
      BY <1>1, <2>4 DEF HandlerOK
    <3> QED
      BY <1>2, <2>1, <2>2, <2>4, <3>1 DEF SavesInv, Keeps, Memory, IsRoot, IsSub
  <2>5. CASE proc[p].does = "sub"
    <3>1. IsSub(proc[p].serial) /\ proc[p].serial \in caIntermediates
      BY <1>1, <2>5 DEF HandlerOK
    <3> QED
      BY <1>2, <2>1, <2>2, <2>5, <3>1 DEF SavesInv, Keeps, Memory, IsRoot, IsSub
  <2> QED
    BY <1>1, <2>1, <2>3, <2>4, <2>5
<1>6. fs'.path # NoFile /\ fs'.data[fs'.path] = fs.data[fs'.path]
  BY ConstantsTyped
<1>7. \A q \in Procs : proc'[q].pc \in {"open", "write", "remove"} => q # p /\ proc'[q] = proc[q]
  BY <1>1, <1>3
<1>8. PathGood'
  <2>1. CASE fs.data[fs'.path].intact
    BY <1>4, <1>6, <2>1 DEF PathGood, Good, Current, Matches
  <2>2. CASE ~fs.data[fs'.path].intact
    <3>1. \A q \in Procs : proc[q].pc = "write" => proc'[q] = proc[q]
      BY <1>3
    <3>2. (\E q \in Procs : proc[q].pc = "write" /\ proc[q].fd = fs'.path)
              => \E q \in Procs : proc'[q].pc = "write" /\ proc'[q].fd = fs'.path
      BY <3>1
    <3> QED
      BY <1>4, <1>6, <2>2, <3>2 DEF PathGood, Good
  <2> QED
    BY <2>1, <2>2
<1>9. Published(fs)'.intact => Matches(Published(fs).value)'
  BY <1>6 DEF Published, Good, Current, Matches
<1>10. FileInv'
  <2>1. \A h : Published(fs)'.intact /\ h = Published(fs)'.value => Current(h)'
    BY <1>4, <1>6 DEF Published, Good, Current, Matches
  <2>2. ackedRevoked' \subseteq Serials
    BY DEF BaseInv, TypeOK
  <2> QED
    BY <1>5, <1>6, <2>1, <2>2, CurrentKeeps DEF FileInv
<1>11. \A q \in Procs : proc'[q].pc \in {"open", "write"} => Current(proc[q].data)'
  <2>1. \A q \in Procs : proc'[q].pc \in {"open", "write"} =>
            Current(proc[q].data) /\ proc'[q].data = proc[q].data
    BY <1>7 DEF SavesInv
  <2> QED
    BY <1>4, <2>1 DEF Current, Matches
<1>12. \A q \in Procs : proc'[q].pc = "write" => fs'.data[proc'[q].fd].size <= SizeOf(Memory')
  <2>1. \A q \in Procs : proc'[q].pc = "write" =>
            /\ proc[q].pc = "write" /\ proc'[q] = proc[q] /\ proc[q].fd \in Inodes
            /\ fs.data[proc[q].fd].size <= SizeOf(Memory)
    BY <1>7, Shapes DEF SavesInv, BaseInv
  <2>2. \A q \in Procs : proc'[q].pc = "write" => proc[q].fd \in Held
    BY <2>1 DEF Held
  <2> QED
    BY <1>5, <2>1, <2>2
<1> QED
  BY <1>5, <1>6, <1>8, <1>9, <1>10, <1>11, <1>12 DEF SavesInv

LEMMA FinishDisk ==
    ASSUME BaseInv, BaseInv', DiskInv, NEW p \in Procs, Rename(p) \/ RemoveTmp(p) \/ WriteFails(p)
    PROVE  DiskInv'
<1>1. CASE WriteFails(p)
  BY <1>1 DEF WriteFails, DiskInv
<1>2. ASSUME Rename(p) \/ RemoveTmp(p)
      PROVE  /\ proc[p].pc \in {"rename", "remove"} /\ running /\ PastOpen(p)
             /\ UNCHANGED <<running, certs, caInstance, caIntermediates, revoked, faulted>>
             /\ faulted \/ (FileInv /\ SavesInv)
  <2>1. /\ proc[p].pc \in {"rename", "remove"}
        /\ UNCHANGED <<running, certs, caInstance, caIntermediates, revoked, faulted>>
    BY <1>2, RenameStep, RemoveTmpStep DEF memory
  <2>2. running
    BY <2>1 DEF BaseInv, HandlersInv, HandlerOK, Idle
  <2> QED
    BY <2>1, <2>2 DEF PastOpen, DiskInv
<1>3. fs.path \in Inodes \cup {NoFile} /\ fs.tmp \in Inodes \cup {NoFile}
  BY FsTyped DEF BaseInv, TypeOK, Fs
<1>4. CASE Rename(p) /\ fs.tmp # NoFile
  <2>1. /\ Answer(p) /\ fs'.path = fs.tmp /\ fs'.tmp = NoFile
        /\ \A i \in Inodes : fs'.data[i] = IF i \in Held \cup {fs.tmp, NoFile} THEN fs.data[i]
                                           ELSE NothingIn(NoHierarchy)
    BY <1>4, RenameStep
  <2>2. SUFFICES ASSUME ~faulted
                 PROVE  FileInv' /\ SavesInv'
    BY <1>2, <1>4 DEF DiskInv
  <2>3. Good(fs'.path)
    BY <1>2, <1>4, <2>1, <2>2 DEF SavesInv, Good
  <2>4. \A i \in Inodes : i \in Held \cup {fs'.path} => fs'.data[i] = fs.data[i]
    BY <2>1
  <2>5. fs'.path \in Inodes
    BY <1>3, <1>4, <2>1
  <2> QED
    BY <1>2, <1>4, <2>1, <2>2, <2>3, <2>4, <2>5, AnsweredDisk
<1>5. CASE RemoveTmp(p)
  <2>1. /\ proc[p].pc = "remove" /\ Answer(p) /\ fs'.path = fs.path /\ fs'.tmp = NoFile
        /\ \A i \in Inodes : fs'.data[i] = IF i \in Held \cup {fs.path, NoFile} THEN fs.data[i]
                                           ELSE NothingIn(NoHierarchy)
    BY <1>5, RemoveTmpStep
  <2>2. SUFFICES ASSUME ~faulted
                 PROVE  FileInv' /\ SavesInv'
    BY <1>2, <1>5 DEF DiskInv
  <2>3. PathGood
    BY <1>2, <1>5, <2>1, <2>2 DEF SavesInv
  <2>4. fs'.path \in Inodes /\ Good(fs'.path)
    BY <1>3, <2>1, <2>3 DEF PathGood, Good
  <2>5. \A i \in Inodes : i \in Held \cup {fs'.path} => fs'.data[i] = fs.data[i]
    BY <2>1
  <2> QED
    BY <1>2, <1>5, <2>1, <2>2, <2>4, <2>5, AnsweredDisk
<1>6. CASE Rename(p) /\ fs.tmp = NoFile
  <2> DEFINE r == [pc |-> "remove", does |-> proc[p].does, serial |-> proc[p].serial]
  <2>1. /\ proc[p].pc = "rename" /\ r \in Handling /\ proc' = [proc EXCEPT ![p] = r]
        /\ UNCHANGED <<fs, answered, ackedRevoked>>
    BY <1>6, RenameStep
  <2>2. SUFFICES ASSUME ~faulted
                 PROVE  FileInv' /\ SavesInv'
    BY <1>2, <1>6 DEF DiskInv
  <2>3. r.pc = "remove" /\ r.does = proc[p].does /\ r.serial = proc[p].serial
    OBVIOUS
  <2> HIDE DEF r
  <2>4. HoldsCaMu(p) /\ proc'[p] = r /\ \A q \in Procs : q # p => proc'[q] = proc[q]
    BY <2>1, <2>3, OwnStep DEF BaseInv, HoldsCaMu, Saving
  <2>5. (\A c \in Serials : Owed(c)' <=> Owed(c)) /\ (Unsettled' <=> Unsettled)
    BY <1>2, <1>6, <2>1, <2>3, <2>4, OwedOnTheWay DEF BaseInv
  <2>6. FileInv /\ SavesInv /\ PathGood
    BY <1>2, <1>6, <2>2 DEF SavesInv
  <2>7. FileInv'
    BY <1>2, <1>6, <2>1, <2>6, FileSame
  <2>8. Keeps(Memory)'
    BY <1>2, <1>6, <2>1, <2>6 DEF SavesInv, Keeps, Memory, IsRoot, IsSub
  <2>9. \A q \in Procs :
           /\ HoldsCaMu(q)' <=> HoldsCaMu(q)
           /\ HoldsCaMu(q) => proc'[q].does = proc[q].does
           /\ proc'[q].pc \in {"open", "write"} => proc'[q] = proc[q]
           /\ proc[q].pc = "write" => proc'[q] = proc[q]
           /\ PastOpen(q)' => PastOpen(q)
    BY <2>1, <2>3, <2>4 DEF HoldsCaMu, Saving, PastOpen
  <2> QED
    BY <1>2, <1>6, <2>1, <2>5, <2>6, <2>7, <2>8, <2>9, DiskKept
<1> QED
  BY <1>1, <1>4, <1>5, <1>6

\* A start takes its memory from a file that keeps the promises.
LEMMA StartDisk ==
    ASSUME BaseInv, DiskInv, Start
    PROVE  DiskInv'
<1> DEFINE h == IF NoFileYet(fs) THEN NoHierarchy ELSE Published(fs).value
<1>1. BaseInv' /\ (\A p \in Procs : proc'[p] = Idle) /\ h \in Hierarchy /\ Memory' = h
  BY StartBase
<1>2. /\ Readable(fs) /\ UNCHANGED <<certs, fs, answered, ackedRevoked, faulted>>
  BY DEF Start, history
<1>3. SUFFICES ASSUME ~faulted
               PROVE  FileInv' /\ SavesInv'
  BY <1>2 DEF DiskInv
<1>4. FileInv
  BY <1>2, <1>3 DEF DiskInv
<1>5. FileInv'
  BY <1>2, <1>4, FileSame
<1>6. Keeps(h)
  BY <1>1, <1>2, <1>4 DEF FileInv, Readable, NoFileYet, Keeps, NoHierarchy
<1>7. Keeps(Memory)'
  BY <1>1, <1>2, <1>6 DEF Keeps, IsRoot, IsSub
<1>8. caInstance' = h.root /\ caIntermediates' = h.subs /\ revoked' = h.revoked
  BY <1>1 DEF Memory
<1>9. \A c \in Serials : Owed(c)' => c \in h.revoked
  BY <1>1, <1>2, <1>6, <1>8 DEF Owed, BeingSaved, HoldsCaMu, Saving, Idle, Keeps
<1>10. caInstance' # None => fs'.path # NoFile /\ Published(fs)' = Published(fs)
                             /\ Published(fs).intact /\ Published(fs).value = h
  BY <1>2, <1>8 DEF NoFileYet, NoHierarchy, Readable, Published
<1> HIDE DEF h
<1>11. caInstance' # None => PathGood'
  BY <1>8, <1>9, <1>10 DEF PathGood, Good, Current, Matches, Published
<1>12. caInstance' # None =>
           fs'.path # NoFile /\ (Published(fs)'.intact => Matches(Published(fs).value)')
  BY <1>8, <1>10 DEF Matches
<1> QED
  BY <1>1, <1>5, <1>7, <1>11, <1>12 DEF SavesInv, PastOpen, Idle

LEMMA CrashDisk ==
    ASSUME BaseInv, DiskInv, Crash
    PROVE  DiskInv'
<1>1. fs'.path = fs.path /\ (fs.path # NoFile => fs'.data[fs.path] = fs.data[fs.path])
  BY CrashBase
<1>2. running' = FALSE /\ UNCHANGED <<certs, answered, ackedRevoked, faulted>>
  BY DEF Crash, history
<1> QED
  BY <1>1, <1>2, FileSame DEF DiskInv

-----------------------------------------------------------------------------
(* The inductive invariant.                                                 *)

LEMMA InitIInv == Init => IInv
<1> SUFFICES ASSUME Init
             PROVE  IInv
  OBVIOUS
<1>1. /\ running = FALSE /\ drawn = 0 /\ certs = [c \in Serials |-> NoCert] /\ caInstance = None
      /\ caIntermediates = {} /\ revoked = {} /\ caStore = [root |-> None, subs |-> {}]
      /\ proc = [p \in Procs |-> Idle] /\ answered = {} /\ ackedRevoked = {} /\ faulted = FALSE
      /\ fs = [path |-> NoFile, tmp |-> NoFile, data |-> [i \in Inodes |-> NothingIn(NoHierarchy)]]
  BY DEF Init, EmptyDir
<1>2. TypeOK
  <2>1. fs \in FileSystem(Inodes, Hierarchy)
    BY <1>1, NoHierarchyTyped DEF FileSystem
  <2>2. certs \in [Serials -> [isCA: BOOLEAN, issuer: Serials \cup {None}]]
    BY <1>1 DEF NoCert
  <2>3. proc \in [Procs -> Handling]
    BY <1>1 DEF Handling
  <2>4. drawn \in 0..MaxSerials
    BY <1>1, CAAssumption
  <2> QED
    BY <1>1, <2>1, <2>2, <2>3, <2>4 DEF TypeOK
<1>3. CertsInv
  <2>1. \A i \in Inodes : WellMade(fs.data[i].value)
    BY <1>1, NoHierarchyTyped, NothingMade
  <2>2. \A p \in Procs : proc[p].pc = "idle"
    BY <1>1 DEF Idle
  <2>3. WellMade(caStore)
    BY <1>1 DEF WellMade, Made
  <2>4. \A c \in Serials : c > drawn /\ certs[c] = NoCert
    BY <1>1, CAAssumption DEF Serials
  <2> QED
    BY <1>1, <2>1, <2>2, <2>3, <2>4 DEF CertsInv
<1>4. HandlersInv
  BY <1>1 DEF HandlersInv, HandlerOK, SavesAlone, HoldsCaMu, Saving, Idle
<1>5. DiskInv
  BY <1>1 DEF DiskInv, FileInv
<1> QED
  BY <1>2, <1>3, <1>4, <1>5 DEF IInv

LEMMA NextIInv == IInv /\ [Next]_vars => IInv'
<1> SUFFICES ASSUME IInv, [Next]_vars
             PROVE  IInv'
  OBVIOUS
<1>1. BaseInv /\ DiskInv
  BY DEF IInv, BaseInv
<1>2. SUFFICES BaseInv' /\ DiskInv'
  BY DEF IInv, BaseInv
<1>3. CASE Start
  BY <1>1, <1>3, StartBase, StartDisk
<1>4. ASSUME running, NEW s \in Serials, s = caInstance \/ s \in caIntermediates,
             ~WriteLocked, caInstance # None, Issue(s)
      PROVE  BaseInv' /\ DiskInv'
  <2>1. IsRoot(s) \/ IsSub(s)
    BY <1>1, <1>4, CAsAreDrawn DEF BaseInv, TypeOK
  <2>2. BaseInv'
    BY <1>1, <1>4, <2>1, IssueBase
  <2> QED
    BY <1>1, <1>4, <2>2, IssueDisk
<1>5. CASE Sign
  <2>1. caInstance \in Serials /\ caInstance # None
    BY <1>1, <1>5, CAsAreDrawn DEF BaseInv, Sign, RootVisible
  <2> QED
    BY <1>4, <1>5, <2>1 DEF Sign
<1>6. CASE \E s \in Serials : IntermediateSign(s)
  <2>1. PICK s \in Serials : IntermediateSign(s)
    BY <1>6
  <2>2. caInstance # None
    BY <1>1, <2>1, CAsAreDrawn DEF BaseInv, IntermediateSign
  <2> QED
    BY <1>4, <2>1, <2>2 DEF IntermediateSign
<1>7. ASSUME NEW p \in Procs, Handler(p)
      PROVE  BaseInv' /\ DiskInv'
  <2>1. CASE InitGenerate(p)
    <3>1. /\ running /\ proc[p].pc = "idle" /\ NewCert(TRUE, drawn + 1)
          /\ proc' = [proc EXCEPT ![p] = [pc |-> "commit", does |-> "init", serial |-> drawn + 1]]
          /\ UNCHANGED <<running, memory, fs, history>>
      BY <2>1 DEF InitGenerate
    <3>2. drawn + 1 \in 1..(drawn + 1)
      BY <1>1 DEF BaseInv, TypeOK
    <3>3. BaseInv'
      BY <1>1, <3>1, GenerateBase
    <3> QED
      BY <1>1, <3>1, <3>2, <3>3, GenerateDisk
  <2>2. CASE SubGenerate(p)
    <3>1. /\ running /\ proc[p].pc = "idle" /\ NewCert(TRUE, caInstance) /\ caInstance # None
          /\ proc' = [proc EXCEPT ![p] = [pc |-> "commit", does |-> "sub", serial |-> drawn + 1]]
          /\ UNCHANGED <<running, memory, fs, history>>
      BY <2>2 DEF SubGenerate, RootVisible
    <3>2. caInstance \in 1..(drawn + 1)
      <4>1. caInstance \in 1..drawn /\ drawn \in Nat
        BY <1>1, <3>1, CAsAreDrawn DEF BaseInv, TypeOK, IsRoot
      <4> QED
        BY <4>1
    <3>3. BaseInv'
      BY <1>1, <3>1, GenerateBase
    <3> QED
      BY <1>1, <3>1, <3>2, <3>3, GenerateDisk
  <2>3. CASE InitCommit(p) \/ SubCommit(p) \/ RevokeSave(p)
    BY <1>1, <2>3, InitCommitBase, SubCommitBase, RevokeSaveBase, CommitDisk
  <2>4. CASE \E c \in Serials : RevokeApply(p, c)
    BY <1>1, <2>4, RevokeApplyBase, RevokeApplyDisk
  <2>5. CASE Export(p)
    BY <1>1, <2>5, SaveBase, ExportDisk
  <2>6. CASE OpenTmp(p)
    BY <1>1, <2>6, SaveBase, OpenTmpDisk
  <2>7. CASE WriteTmp(p)
    BY <1>1, <2>7, SaveBase, WriteTmpDisk
  <2>8. CASE WriteFails(p) \/ Rename(p) \/ RemoveTmp(p)
    BY <1>1, <2>8, SaveBase, FinishDisk
  <2> QED
    BY <1>7, <2>1, <2>2, <2>3, <2>4, <2>5, <2>6, <2>7, <2>8 DEF Handler
<1>8. CASE Crash
  BY <1>1, <1>8, CrashBase, CrashDisk
<1>9. CASE UNCHANGED vars
  <2>1. UNCHANGED <<running, drawn, certs, caInstance, caIntermediates, revoked, caStore, proc, fs,
                    answered, ackedRevoked, faulted>>
    BY <1>9 DEF vars, memory, history
  <2>2. TypeOK'
    BY <1>1, <2>1 DEF BaseInv, TypeOK, IsRoot
  <2>3. CertsInv'
    BY <1>1, <2>1 DEF BaseInv, CertsInv, WellMade
  <2>4. HandlersInv'
    BY <1>1, <2>1 DEF BaseInv, HandlersInv, HandlerOK, SavesAlone, HoldsCaMu, Saving, IsRoot, IsSub
  <2>5. DiskInv'
    <3>1. BaseInv'
      BY <2>2, <2>3, <2>4 DEF BaseInv
    <3>2. SUFFICES ASSUME ~faulted, FileInv
                   PROVE  FileInv' /\ (running /\ SavesInv => SavesInv')
      BY <1>1, <2>1 DEF DiskInv
    <3>3. FileInv'
      BY <2>1, <3>2, FileSame
    <3>4. \A c \in Serials : Owed(c)' <=> Owed(c)
      BY <2>1 DEF Owed, Waiting, BeingSaved, HoldsCaMu, Saving
    <3>5. Unsettled' <=> Unsettled
      BY <1>1, <2>1, <3>4 DEF Unsettled, BaseInv, TypeOK
    <3>6. SavesInv => Keeps(Memory)'
      BY <2>1 DEF SavesInv, Keeps, Memory, IsRoot, IsSub
    <3>7. \A q \in Procs : (HoldsCaMu(q)' <=> HoldsCaMu(q)) /\ (PastOpen(q)' <=> PastOpen(q))
      BY <2>1 DEF HoldsCaMu, Saving, PastOpen
    <3> QED
      BY <1>1, <2>1, <3>1, <3>2, <3>3, <3>4, <3>5, <3>6, <3>7, DiskKept
  <2> QED
    BY <2>2, <2>3, <2>4, <2>5 DEF BaseInv
<1> QED
  BY <1>3, <1>5, <1>6, <1>7, <1>8, <1>9 DEF Next

LEMMA SpecIInv == Spec => []IInv
BY InitIInv, NextIInv, PTL DEF Spec

-----------------------------------------------------------------------------
(* The theorems.                                                            *)

\* The root is a self-signed CA and the intermediates are CAs that are not.
THEOREM TypeCorrect == Spec => []TypeOK
BY SpecIInv, PTL DEF IInv

\* A serial whose /ca/revoke was answered is on the list of every process that
\* starts: whichever of the concurrent saves renames last had it in its export,
\* or was torn, and then a save that has it is still to come.
THEOREM RevocationHolds == Spec => []RevokedNeverVerifies
<1>1. IInv => RevokedNeverVerifies
  BY DEF IInv, DiskInv, SavesInv, Keeps, Memory, RevokedNeverVerifies, Verifies
<1> QED
  BY <1>1, SpecIInv, PTL

LEMMA Pairs ==
    ASSUME NEW S, NEW x \in S, NEW y \in S
    PROVE  Append(<<x>>, y) = <<x, y>> /\ <<x>> \o <<y>> = <<x, y>>
<1> DEFINE a == Append(<<x>>, y)
           c == <<x>> \o <<y>>
           t == <<x, y>>
<1>1. a \in Seq(S) /\ c \in Seq(S) /\ t \in Seq(S) /\ Len(a) = 2 /\ Len(c) = 2 /\ Len(t) = 2
  OBVIOUS
<1>2. \A i \in 1..2 : a[i] = t[i] /\ c[i] = t[i]
  <2>1. a[1] = x /\ a[2] = y /\ c[1] = x /\ c[2] = y /\ t[1] = x /\ t[2] = y
    OBVIOUS
  <2> HIDE DEF a, c, t
  <2> QED
    BY <2>1
<1> HIDE DEF a, c, t
<1>3. a = t /\ c = t
  BY <1>1, <1>2, SeqEqual
<1> QED
  BY <1>3 DEF a, c, t

\* A leaf that was handed out keeps verifying: through the root unless it is
\* revoked, or through the subordinate that signed it.
THEOREM IssuedVerify == Spec => []IssuedKeepVerifying
<1>1. ASSUME IInv, running, ~faulted, NEW c \in answered, ~certs[c].isCA
      PROVE  IF IsRoot(certs[c].issuer)
             THEN c \notin revoked => Verifies(c) /\ ChainVerifies(c, <<>>)
             ELSE ChainVerifies(c, <<certs[c].issuer>>)
  <2>1. /\ caInstance # None /\ IsRoot(caInstance)
        /\ \/ certs[c].issuer = caInstance
           \/ IsSub(certs[c].issuer) /\ certs[certs[c].issuer].issuer = caInstance
    BY <1>1 DEF IInv, DiskInv, SavesInv, Keeps, Memory, TypeOK
  <2>2. ASSUME certs[c].issuer = caInstance
        PROVE  ChainVerifies(c, <<>>)
    <3>1. Append(<<>>, caInstance) = <<caInstance>> /\ <<c>> \o <<>> = <<c>>
      OBVIOUS
    <3>2. \A i \in DOMAIN <<c>> : verifySingleLink(<<c>>[i], <<caInstance>>[i])
      BY <2>2 DEF verifySingleLink
    <3> QED
      BY <2>1, <3>1, <3>2 DEF ChainVerifies, VerifyChain
  <2>3. ASSUME IsSub(certs[c].issuer), certs[certs[c].issuer].issuer = caInstance
        PROVE  ChainVerifies(c, <<certs[c].issuer>>)
    <3> DEFINE s == certs[c].issuer
    <3>1. Append(<<s>>, caInstance) = <<s, caInstance>> /\ <<c>> \o <<s>> = <<c, s>>
      <4>1. c \in 1..drawn /\ c \in Serials /\ drawn \in 0..MaxSerials
        BY <1>1 DEF IInv, TypeOK, CertsInv
      <4>2. certs[c].issuer \in 1..drawn
        BY <1>1, <4>1 DEF IInv, CertsInv
      <4>3. s \in Serials
        BY <4>1, <4>2, CAAssumption DEF Serials
      <4>4. caInstance \in Serials
        BY <1>1, <2>1, CAsAreDrawn DEF IInv
      <4> QED
        BY <4>1, <4>3, <4>4, Pairs
    <3>2. certs[s].isCA /\ certs[s].issuer = caInstance /\ certs[c].issuer = s
      BY <2>3 DEF IsSub
    <3> HIDE DEF s
    <3>3. \A i \in DOMAIN <<c, s>> : verifySingleLink(<<c, s>>[i], <<s, caInstance>>[i])
      BY <3>2 DEF verifySingleLink
    <3>4. \A i \in DOMAIN <<s>> : certs[<<s>>[i]].isCA
      BY <3>2
    <3>5. ChainVerifies(c, <<s>>)
      BY <2>1, <3>1, <3>3, <3>4 DEF ChainVerifies, VerifyChain
    <3> QED
      BY <3>5 DEF s
  <2> QED
    BY <1>1, <2>1, <2>2, <2>3 DEF Verifies, IsSub
<1>2. IInv => IssuedKeepVerifying
  BY <1>1 DEF IssuedKeepVerifying
<1> QED
  BY <1>2, SpecIInv, PTL

\* A subordinate CA is saved before its certificate is handed out.
THEOREM SubordinatesAreKept == Spec => []SubordinatesSurvive
<1>1. IInv => SubordinatesSurvive
  BY DEF IInv, DiskInv, SavesInv, Keeps, Memory, SubordinatesSurvive, IsSub
<1> QED
  BY <1>1, SpecIInv, PTL

\* When nobody is at work nothing waits for a save, so the file lacks nothing.
THEOREM FileAtRest == Spec => []FileIsMemoryAtRest
<1>1. ASSUME IInv, running, ~faulted, \A p \in Procs : proc[p] = Idle, caInstance # None
      PROVE  Readable(fs) /\ Published(fs).value = Memory
  <2>1. /\ \A p \in Procs : proc[p].pc = "idle"
        /\ CaMuFree /\ \A c \in Serials : ~Waiting(c)
    BY <1>1 DEF Idle, CaMuFree, HoldsCaMu, Saving, Waiting
  <2>2. fs.path \in Inodes /\ Good(fs.path) /\ Published(fs).value \in Hierarchy
    BY <1>1, <2>1, FsTyped DEF IInv, DiskInv, SavesInv, PathGood, Published, TypeOK, Fs
  <2>3. ~Unsettled
    BY <1>1, <2>1 DEF Unsettled, Owed, IInv, TypeOK
  <2>4. Published(fs).intact /\ Current(Published(fs).value)
    BY <2>1, <2>2, <2>3 DEF Good, Published
  <2>5. Published(fs).value.revoked = revoked
    BY <1>1, <2>1, <2>4 DEF Current, Matches, Owed, IInv, TypeOK
  <2> QED
    BY <2>2, <2>4, <2>5 DEF Readable, Current, Matches, Memory, Hierarchy
<1>2. IInv => FileIsMemoryAtRest
  BY <1>1 DEF FileIsMemoryAtRest, Memory
<1> QED
  BY <1>2, SpecIInv, PTL
=============================================================================
