----------------------- MODULE RevocationList_proofs -----------------------
(* Theorems about token revocation: in memory it holds until an expiry the   *)
(* token was revoked with has passed, on disk likewise, for as long as the   *)
(* saves do not overlap.                                                     *)
EXTENDS RevocationList, FileReplace_proofs, FiniteSetTheorems, TLAPS

-----------------------------------------------------------------------------
(* What holds however the saves overlap.                                     *)

Listing(w) == writer[w].pc \in {"open", "write", "rename"}

\* Whatever entry is in memory, in a list on its way to the disk or in a file
\* was made by Revoke, for a token that was issued.
OnlyWithdrawn ==
    /\ \A t \in issued \cup Jtis(withdrawn) : expiry[t] # 0
    /\ revoked \subseteq withdrawn /\ saved \subseteq Jtis(withdrawn)
    /\ \A w \in Writers : Listing(w) => writer[w].list \subseteq withdrawn
    /\ \A i \in Inodes : fs.data[i].value \subseteq withdrawn

\* A process that does not run does nothing, and the pruner's clock is not ahead.
ProcessInv ==
    /\ ~running => /\ issued = {} /\ revoked = {}
                   /\ \A w \in Writers : writer[w] = Idle
                   /\ \A v \in Verifiers : verifier[v] = NoVerdict
    /\ \A w \in Writers : writer[w].pc = "lock" => writer[w].now <= clock
    /\ fs.path # NoFile => fs.path # fs.tmp

\* The process that signed a token has its revocation in memory until it lapses.
MemoryInv ==
    /\ \A t \in issued \cap Jtis(withdrawn) : t \in Jtis(revoked) \/ Lapsed(t)
    /\ \A v \in Verifiers : verifier[v].pc = "lookup" =>
          /\ verifier[v].token \in issued
          /\ verifier[v].late => verifier[v].token \in Jtis(withdrawn)

-----------------------------------------------------------------------------
(* What holds as long as two saves have never overlapped.                    *)

\* A save alone finds the temporary file as it left it, and memory too: no list
\* but its own leaves the lock before it has finished.
SaveAlone(w) ==
    /\ \A u \in Writers : Busy(u) => u = w
    /\ writer[w].pc # "remove"
    /\ writer[w].list = revoked
    /\ writer[w].pc = "write" => fs.tmp = writer[w].fd /\ fs.data[fs.tmp].size = 0
    /\ writer[w].pc = "rename" =>
          /\ fs.tmp # NoFile
          /\ fs.data[fs.tmp].intact /\ fs.data[fs.tmp].value = revoked

SerialInv ==
    ~overlapped =>
        /\ \A w \in Writers : Busy(w) => SaveAlone(w)
        /\ Readable(fs)
        /\ \A t \in saved :
              ~Lapsed(t) =>
                  /\ fs.path # NoFile /\ t \in Jtis(fs.data[fs.path].value)
                  /\ running => t \in Jtis(revoked)

IInv == TypeOK /\ OnlyWithdrawn /\ ProcessInv /\ MemoryInv /\ SerialInv

BaseInv == TypeOK /\ OnlyWithdrawn /\ ProcessInv /\ MemoryInv

-----------------------------------------------------------------------------
(* Types, goroutines and the file.                                          *)

Lists == SUBSET Entry
Dir   == FileSystem(Inodes, Lists)

LEMMA ConstantsTyped ==
    /\ NoFile \notin Inodes /\ {} \in Lists
    /\ IsFiniteSet(Writers) /\ Cardinality(Writers) \in Nat
    /\ IsFiniteSet(Inodes) /\ Cardinality(Inodes) = Cardinality(Writers) + 2
    /\ Pruner \in Writers /\ Pruner \notin Revokers
<1>1. IsFiniteSet(Writers)
  BY FS_AddElement, RevocationAssumption DEF Writers
<1>2. Cardinality(Writers) \in Nat
  BY <1>1, FS_CardinalityType
<1>3. IsFiniteSet(Inodes) /\ Cardinality(Inodes) = Cardinality(Writers) + 2
  BY <1>2, FS_Interval DEF Inodes
<1> QED
  BY <1>1, <1>2, <1>3, RevocationAssumption DEF NoFile, Inodes, Lists, Writers

\* The tokens of a list.
LEMMA JtisFacts ==
    /\ Jtis({}) = {}
    /\ \A list \in Lists : Jtis(list) \subseteq Tokens
    /\ \A list, more : list \subseteq more => Jtis(list) \subseteq Jtis(more)
    /\ \A list, e : Jtis(list \cup {e}) = Jtis(list) \cup {e.jti}
BY DEF Jtis, Lists, Entry

\* What has lapsed stays so.
LEMMA LapsedStays ==
    ASSUME TypeOK, NEW t, Lapsed(t), withdrawn \subseteq withdrawn', clock' \in Nat,
           clock <= clock'
    PROVE  Lapsed(t)'
<1>1. PICK e \in withdrawn : e.jti = t /\ 0 < e.exp /\ e.exp < clock
  BY DEF Lapsed
<1>2. e \in withdrawn' /\ e.exp \in Int /\ clock \in Nat
  BY <1>1 DEF TypeOK, Entry
<1>3. e.exp < clock'
  BY <1>1, <1>2
<1> QED
  BY <1>1, <1>2, <1>3 DEF Lapsed

\* An entry that Revoke overwrites names a token that is still in the list.
LEMMA RecordedKeeps ==
    ASSUME NEW list \in Lists, NEW t \in Tokens, NEW exp \in Int
    PROVE  /\ Recorded(list, t, exp) \in Lists
           /\ Recorded(list, t, exp) \subseteq list \cup {[jti |-> t, exp |-> exp]}
           /\ Jtis(Recorded(list, t, exp)) = Jtis(list) \cup {t}
<1> DEFINE e == [jti |-> t, exp |-> exp]
           kept == {x \in list : x.jti # t}
<1>1. e \in Entry /\ e.jti = t /\ kept \subseteq list
  BY DEF Entry
<1> HIDE DEF e
<1>2. Recorded(list, t, exp) = kept \cup {e}
  BY DEF Recorded, e
<1>3. Jtis(kept) \cup {t} = Jtis(list) \cup {t}
  BY DEF Jtis
<1> HIDE DEF kept
<1>4. Jtis(kept \cup {e}) = Jtis(kept) \cup {t}
  BY <1>1, JtisFacts
<1>5. kept \cup {e} \in Lists /\ kept \cup {e} \subseteq list \cup {e}
  BY <1>1 DEF Lists
<1> QED
  BY <1>2, <1>3, <1>4, <1>5 DEF e

\* An encoded list is not empty.
LEMMA SizesTyped ==
    ASSUME NEW list \in Lists
    PROVE  SizeOf(list) \in Nat \ {0}
<1>1. IsFiniteSet(Tokens)
  BY FS_Interval, RevocationAssumption DEF Tokens
<1>2. Cardinality(Jtis(list)) \in Nat
  BY <1>1, JtisFacts, FS_Subset, FS_CardinalityType
<1> QED
  BY <1>2 DEF SizeOf

\* Goroutines by the place they are at.
LEMMA Shapes ==
    ASSUME TypeOK, NEW w \in Writers
    PROVE  /\ writer[w].pc \in {"idle", "lock", "open", "write", "rename", "remove"}
           /\ writer[w].pc = "idle" <=> writer[w] = Idle
           /\ writer[w].pc = "lock" => writer[w].now \in Nat
           /\ Listing(w) => writer[w].list \in Lists
           /\ writer[w].pc = "write" => writer[w].fd \in Inodes
<1>1. \/ writer[w] = Idle
      \/ writer[w] \in [pc: {"lock"}, now: Nat]
      \/ writer[w] \in [pc: {"remove"}]
      \/ writer[w] \in [pc: {"open", "rename"}, list: Lists]
      \/ writer[w] \in [pc: {"write"}, list: Lists, fd: Inodes]
  BY DEF TypeOK, Writing, Lists
<1> QED
  BY <1>1 DEF Idle, Listing

LEMMA OwnStep ==
    ASSUME TypeOK, NEW w \in Writers, NEW r \in Writing, writer' = [writer EXCEPT ![w] = r]
    PROVE  /\ writer' \in [Writers -> Writing] /\ writer'[w] = r
           /\ \A u \in Writers : u # w => writer'[u] = writer[u]
BY DEF TypeOK

LEMMA WritingTyped ==
    /\ Idle \in Writing
    /\ Idle.pc = "idle"
    /\ [pc |-> "remove"] \in Writing
    /\ \A n \in Nat : [pc |-> "lock", now |-> n] \in Writing
    /\ \A list \in Lists : /\ [pc |-> "open", list |-> list] \in Writing
                           /\ [pc |-> "rename", list |-> list] \in Writing
    /\ \A list \in Lists, i \in Inodes : [pc |-> "write", list |-> list, fd |-> i] \in Writing
BY DEF Writing, Idle, Lists

\* At most one descriptor per goroutine is open, so an inode is free.
LEMMA HeldLeavesOne ==
    ASSUME TypeOK
    PROVE  \E j \in Inodes : j \notin Held \cup {fs.path}
<1> DEFINE W == {w \in Writers : writer[w].pc = "write"}
<1>1. IsFiniteSet(W) /\ Cardinality(W) <= Cardinality(Writers)
  BY FS_Subset, ConstantsTyped
<1>2. IsFiniteSet(Held) /\ Cardinality(Held) <= Cardinality(W)
  <2> DEFINE fd == [w \in W |-> writer[w].fd]
  <2>1. \A i : i \in Held <=> \E w \in W : i = writer[w].fd
    BY DEF Held, HeldBy
  <2>2. fd \in Surjection(W, Held)
    BY <2>1 DEF Surjection
  <2> QED
    BY <1>1, <2>2, FS_Surjection
<1>3. Cardinality(Held) \in Nat /\ Cardinality(W) \in Nat
  BY <1>1, <1>2, FS_CardinalityType
<1>4. Cardinality(Inodes) >= Cardinality(Held) + 2
  BY <1>1, <1>2, <1>3, ConstantsTyped
<1> QED
  BY <1>2, <1>4, ConstantsTyped, OneIsFree

\* What every call of a save keeps: nothing that was not in a file or in the
\* list being written gets into one.
Inherits(list) ==
    \A i \in Inodes : \/ fs'.data[i].value \in {{}, list}
                      \/ \E j \in Inodes : fs'.data[i].value = fs.data[j].value

LEMMA OpenTmpStep ==
    ASSUME BaseInv, NEW w \in Writers, OpenTmp(w)
    PROVE  /\ fs' \in Dir /\ fs'.path = fs.path /\ fs'.tmp \in Inodes /\ fs'.tmp # fs.path
           /\ \A i \in Inodes :
                 fs'.data[i] = IF i = fs'.tmp THEN [intact |-> FALSE, size |-> 0, value |-> {}]
                               ELSE fs.data[i]
           /\ writer[w].pc = "open" /\ writer[w].list \in Lists
           /\ writer' = [writer EXCEPT
                             ![w] = [pc |-> "write", list |-> writer[w].list, fd |-> fs'.tmp]]
<1>1. fs \in FileSystem(Inodes, Lists) /\ {} \in Lists /\ NoFile \notin Inodes
  BY ConstantsTyped DEF BaseInv, TypeOK, Lists
<1>2. \E j \in Inodes : j \notin Held \cup {fs.path}
  BY HeldLeavesOne DEF BaseInv
<1>3. fs' = OpenedTmp(fs, Held, {})
  BY DEF OpenTmp
<1>4. /\ fs' \in Dir /\ fs'.path = fs.path /\ fs'.tmp \in Inodes
      /\ fs.tmp # NoFile => fs'.tmp = fs.tmp
      /\ fs.tmp = NoFile => fs'.tmp \notin Held \cup {fs.path}
      /\ \A i \in Inodes : fs'.data[i] = IF i = fs'.tmp THEN NothingIn({}) ELSE fs.data[i]
  BY <1>1, <1>2, <1>3, OpenedStep DEF Dir
<1>5. fs'.tmp # fs.path
  BY <1>1, <1>4 DEF BaseInv, ProcessInv
<1>6. \A i \in Inodes :
          fs'.data[i] = IF i = fs'.tmp THEN [intact |-> FALSE, size |-> 0, value |-> {}]
                        ELSE fs.data[i]
  BY <1>4 DEF NothingIn
<1>7. /\ writer[w].pc = "open" /\ writer[w].list \in Lists
      /\ writer' = [writer EXCEPT
                        ![w] = [pc |-> "write", list |-> writer[w].list, fd |-> fs'.tmp]]
  BY Shapes DEF OpenTmp, BaseInv, Listing
<1> QED
  BY <1>4, <1>5, <1>6, <1>7

LEMMA WriteStep ==
    ASSUME BaseInv, NEW w \in Writers, WriteTmp(w) \/ WriteFails(w)
    PROVE  /\ fs' \in Dir /\ fs'.path = fs.path /\ fs'.tmp = fs.tmp
           /\ Inherits(writer[w].list)
           /\ fs.path # NoFile /\ fs.path # writer[w].fd => fs'.data[fs.path] = fs.data[fs.path]
           /\ writer[w].pc = "write" /\ writer[w].list \in Lists
           /\ \/ writer' = [writer EXCEPT ![w] = Idle]
              \/ /\ writer' = [writer EXCEPT ![w] = [pc |-> "rename", list |-> writer[w].list]]
                 /\ writer[w].fd = fs.tmp /\ fs.data[fs.tmp].size = 0 =>
                       fs'.data[fs.tmp].intact /\ fs'.data[fs.tmp].value = writer[w].list
<1> DEFINE list == writer[w].list
           fd == writer[w].fd
           size == SizeOf(list)
           g == WrittenTo(fs, fd, list, size, {})
           k == ShortWrittenTo(fs, fd, size, {})
<1>1. fs \in FileSystem(Inodes, Lists) /\ {} \in Lists /\ NoFile \notin Inodes
  BY ConstantsTyped DEF BaseInv, TypeOK, Lists
<1>2. writer[w].pc = "write" /\ list \in Lists /\ fd \in Inodes
  BY Shapes DEF BaseInv, WriteTmp, WriteFails, Listing
<1>3. size \in Nat \ {0}
  BY <1>2, SizesTyped
<1> HIDE DEF list, fd, size
<1>4. /\ g \in FileSystem(Inodes, Lists) /\ g.path = fs.path /\ g.tmp = fs.tmp
      /\ \A i \in Inodes :
            g.data[i] = IF i = fd THEN Overwritten(fs.data[i], list, size, {}) ELSE fs.data[i]
      /\ k \in FileSystem(Inodes, Lists) /\ k.path = fs.path /\ k.tmp = fs.tmp
      /\ \A i \in Inodes :
            k.data[i] = IF i = fd THEN CutShort(fs.data[i], size, {}) ELSE fs.data[i]
  BY <1>1, <1>2, <1>3, WrittenStep
<1>5. \A old : /\ Overwritten(old, list, size, {}).value \in {list, {}}
               /\ CutShort(old, size, {}).value = {}
               /\ old.size = 0 => /\ Overwritten(old, list, size, {}).intact
                                  /\ Overwritten(old, list, size, {}).value = list
  BY <1>3 DEF Overwritten, CutShort
<1>6. NothingIn({}).value = {}
  BY DEF NothingIn
<1> HIDE DEF g, k
<1>7. fs.path \in Inodes \cup {NoFile} /\ fs.tmp \in Inodes \cup {NoFile}
  BY <1>1, FileTyped
<1>8. CASE WriteTmp(w)
  <2>1. fs' = Collected(g, HeldByOthers(w), {})
    BY <1>8 DEF WriteTmp, g, list, fd, size
  <2>2. /\ fs' \in Dir /\ fs'.path = g.path /\ fs'.tmp = g.tmp
        /\ \A i \in Inodes :
              fs'.data[i] = IF i \in HeldByOthers(w) \cup {g.path, g.tmp} THEN g.data[i]
                            ELSE NothingIn({})
    BY <1>1, <1>4, <2>1, CollectedStep DEF Dir
  <2>3. \A i \in Inodes :
            fs'.data[i] = IF i \in HeldByOthers(w) \cup {fs.path, fs.tmp}
                          THEN IF i = fd THEN Overwritten(fs.data[i], list, size, {})
                               ELSE fs.data[i]
                          ELSE NothingIn({})
    BY <1>4, <2>2
  <2>4. Inherits(list)
    BY <1>5, <1>6, <2>3 DEF Inherits
  <2>5. fs.path # NoFile /\ fs.path # fd => fs'.data[fs.path] = fs.data[fs.path]
    BY <1>7, <2>3
  <2>6. fd = fs.tmp /\ fs.data[fs.tmp].size = 0 =>
            fs'.data[fs.tmp].intact /\ fs'.data[fs.tmp].value = list
    <3>1. fd = fs.tmp => fs'.data[fd] = Overwritten(fs.data[fd], list, size, {})
      BY <1>2, <2>3 DEF fd
    <3> QED
      BY <1>5, <3>1
  <2>7. writer' = [writer EXCEPT ![w] = [pc |-> "rename", list |-> list]]
    BY <1>8 DEF WriteTmp, list
  <2> QED
    BY <1>2, <1>4, <2>2, <2>4, <2>5, <2>6, <2>7 DEF list, fd
<1>9. CASE WriteFails(w)
  <2>1. fs' = Collected(k, HeldByOthers(w), {})
    BY <1>9 DEF WriteFails, k, list, fd, size
  <2>2. /\ fs' \in Dir /\ fs'.path = k.path /\ fs'.tmp = k.tmp
        /\ \A i \in Inodes :
              fs'.data[i] = IF i \in HeldByOthers(w) \cup {k.path, k.tmp} THEN k.data[i]
                            ELSE NothingIn({})
    BY <1>1, <1>4, <2>1, CollectedStep DEF Dir
  <2>3. \A i \in Inodes :
            fs'.data[i] = IF i \in HeldByOthers(w) \cup {fs.path, fs.tmp}
                          THEN IF i = fd THEN CutShort(fs.data[i], size, {})
                               ELSE fs.data[i]
                          ELSE NothingIn({})
    BY <1>4, <2>2
  <2>4. Inherits(list)
    BY <1>5, <1>6, <2>3 DEF Inherits
  <2>5. fs.path # NoFile /\ fs.path # fd => fs'.data[fs.path] = fs.data[fs.path]
    BY <1>7, <2>3
  <2>6. writer' = [writer EXCEPT ![w] = Idle]
    BY <1>9 DEF WriteFails, Finished
  <2> QED
    BY <1>2, <1>4, <2>2, <2>4, <2>5, <2>6 DEF list, fd
<1> QED
  BY <1>8, <1>9

LEMMA RenameStep ==
    ASSUME BaseInv, NEW w \in Writers, Rename(w), fs.tmp # NoFile
    PROVE  /\ fs' \in Dir /\ fs'.path = fs.tmp /\ fs'.tmp = NoFile /\ fs.tmp \in Inodes
           /\ Inherits({}) /\ fs'.data[fs.tmp] = fs.data[fs.tmp]
           /\ writer[w].pc = "rename" /\ writer[w].list \in Lists
           /\ writer' = [writer EXCEPT ![w] = Idle] /\ saved' = saved \cup Jtis(writer[w].list)
<1>1. fs \in FileSystem(Inodes, Lists) /\ {} \in Lists
  BY ConstantsTyped DEF BaseInv, TypeOK, Lists
<1>2. /\ fs' = Collected(Renamed(fs), Held, {})
      /\ writer[w].pc = "rename" /\ writer[w].list \in Lists
      /\ writer' = [writer EXCEPT ![w] = Idle] /\ saved' = saved \cup Jtis(writer[w].list)
  BY Shapes DEF Rename, CanRename, Finished, BaseInv, Listing
<1>3. /\ Renamed(fs) \in FileSystem(Inodes, Lists)
      /\ Renamed(fs).path = fs.tmp /\ Renamed(fs).tmp = NoFile /\ Renamed(fs).data = fs.data
  BY <1>1, RenamedStep
<1>4. /\ fs' \in Dir /\ fs'.path = fs.tmp /\ fs'.tmp = NoFile
      /\ \A i \in Inodes : fs'.data[i] = IF i \in Held \cup {fs.tmp, NoFile} THEN fs.data[i]
                                         ELSE NothingIn({})
  BY <1>1, <1>2, <1>3, CollectedStep DEF Dir
<1>5. NothingIn({}).value = {}
  BY DEF NothingIn
<1>6. Inherits({})
  BY <1>4, <1>5 DEF Inherits
<1>7. fs.tmp \in Inodes
  BY <1>1, FileTyped
<1> QED
  BY <1>2, <1>4, <1>6, <1>7

\* A crash and the removal of the temporary name leave path alone.
LEMMA KeptStep ==
    ASSUME BaseInv, Crash \/ \E w \in Writers : RemoveTmp(w)
    PROVE  /\ fs' \in Dir /\ fs'.path = fs.path /\ fs'.tmp \in {fs.tmp, NoFile}
           /\ Inherits({})
           /\ fs.path # NoFile => fs'.data[fs.path] = fs.data[fs.path]
<1>1. fs \in FileSystem(Inodes, Lists) /\ {} \in Lists
  BY ConstantsTyped DEF BaseInv, TypeOK, Lists
<1>2. /\ TmpRemoved(fs) \in FileSystem(Inodes, Lists)
      /\ TmpRemoved(fs).path = fs.path /\ TmpRemoved(fs).tmp = NoFile
      /\ TmpRemoved(fs).data = fs.data
  BY <1>1, RenamedStep
<1>3. \E f \in FileSystem(Inodes, Lists) : \E held :
         /\ fs' = Collected(f, held, {})
         /\ f.path = fs.path /\ f.tmp \in {fs.tmp, NoFile} /\ f.data = fs.data
  BY <1>1, <1>2 DEF Crash, RemoveTmp
<1>p. PICK f \in FileSystem(Inodes, Lists) : \E held :
         /\ fs' = Collected(f, held, {})
         /\ f.path = fs.path /\ f.tmp \in {fs.tmp, NoFile} /\ f.data = fs.data
  BY <1>3
<1>4. PICK held :
         /\ fs' = Collected(f, held, {})
         /\ f.path = fs.path /\ f.tmp \in {fs.tmp, NoFile} /\ f.data = fs.data
  BY <1>p
<1>5. /\ fs' \in Dir /\ fs'.path = f.path /\ fs'.tmp = f.tmp
      /\ \A i \in Inodes : fs'.data[i] = IF i \in held \cup {f.path, f.tmp} THEN f.data[i]
                                         ELSE NothingIn({})
  BY <1>1, <1>4, CollectedStep DEF Dir
<1>6. NothingIn({}).value = {}
  BY DEF NothingIn
<1>7. Inherits({})
  BY <1>4, <1>5, <1>6 DEF Inherits
<1>8. fs.path \in Inodes \cup {NoFile}
  BY <1>1, FileTyped
<1> QED
  BY <1>4, <1>5, <1>7, <1>8

-----------------------------------------------------------------------------
(* The first part of the invariant, one action at a time.                   *)

LEMMA FilesInherit ==
    ASSUME OnlyWithdrawn, NEW list \in SUBSET withdrawn, Inherits(list), withdrawn' = withdrawn
    PROVE  \A i \in Inodes : fs'.data[i].value \subseteq withdrawn'
BY DEF OnlyWithdrawn, Inherits

LEMMA SaveKeepsBase ==
    ASSUME BaseInv, NEW w \in Writers, NEW r \in Writing, NEW list \in SUBSET withdrawn,
           Busy(w), writer' = [writer EXCEPT ![w] = r], r.pc # "lock",
           r.pc \in {"open", "write", "rename"} => Listing(w) /\ r.list = writer[w].list,
           fs' \in Dir, Inherits(list), fs'.path # NoFile => fs'.path # fs'.tmp,
           saved' = saved \/ (Listing(w) /\ saved' = saved \cup Jtis(writer[w].list)),
           UNCHANGED <<running, clock, expiry, issued, revoked, verifier, withdrawn, overlapped>>
    PROVE  BaseInv'
<1>1. /\ writer' \in [Writers -> Writing] /\ writer'[w] = r
      /\ \A u \in Writers : u # w => writer'[u] = writer[u]
  BY OwnStep DEF BaseInv
<1>2. Listing(w) => /\ writer[w].list \subseteq withdrawn
                    /\ Jtis(writer[w].list) \subseteq Jtis(withdrawn)
  BY JtisFacts DEF BaseInv, OnlyWithdrawn
<1>2a. Jtis(withdrawn) \subseteq Tokens
  BY JtisFacts DEF BaseInv, TypeOK, Lists
<1>3. TypeOK'
  BY <1>1, <1>2, <1>2a DEF BaseInv, TypeOK, Dir, Lists
<1>4. OnlyWithdrawn'
  <2>1. \A u \in Writers : Listing(u)' => writer'[u].list \subseteq withdrawn
    BY <1>1, <1>2 DEF BaseInv, OnlyWithdrawn, Listing
  <2>2. \A i \in Inodes : fs'.data[i].value \subseteq withdrawn'
    BY FilesInherit DEF BaseInv
  <2>3. /\ (\A t \in issued \cup Jtis(withdrawn) : expiry[t] # 0)'
        /\ (revoked \subseteq withdrawn /\ saved \subseteq Jtis(withdrawn))'
    BY <1>2 DEF BaseInv, OnlyWithdrawn
  <2> QED
    BY <2>1, <2>2, <2>3 DEF OnlyWithdrawn
<1>5. ProcessInv'
  <2>1. running
    BY DEF BaseInv, ProcessInv, Busy, Idle
  <2> QED
    BY <1>1, <2>1 DEF BaseInv, ProcessInv
<1>6. MemoryInv'
  BY DEF BaseInv, MemoryInv, Lapsed
<1> QED
  BY <1>3, <1>4, <1>5, <1>6 DEF BaseInv

LEMMA PersistBase ==
    ASSUME BaseInv, NEW w \in Writers, Persist(w)
    PROVE  BaseInv'
<1>1. /\ Listing(w) => writer[w].list \in Lists /\ writer[w].list \in SUBSET withdrawn
      /\ writer[w].pc = "write" => writer[w].fd \in Inodes
      /\ {} \in SUBSET withdrawn /\ NoFile \notin Inodes
  BY Shapes, ConstantsTyped DEF BaseInv, OnlyWithdrawn
<1>2. fs \in Dir /\ (fs.path # NoFile => fs.path # fs.tmp)
  BY DEF BaseInv, TypeOK, ProcessInv, Dir, Lists
<1>3. CASE OpenTmp(w)
  <2> DEFINE r == [pc |-> "write", list |-> writer[w].list, fd |-> fs'.tmp]
  <2>1. /\ fs' \in Dir /\ fs'.path = fs.path /\ fs'.tmp \in Inodes /\ fs'.tmp # fs.path
        /\ \A i \in Inodes :
              fs'.data[i] = IF i = fs'.tmp THEN [intact |-> FALSE, size |-> 0, value |-> {}]
                            ELSE fs.data[i]
        /\ writer[w].pc = "open" /\ writer[w].list \in Lists
        /\ writer' = [writer EXCEPT ![w] = r]
    BY <1>3, OpenTmpStep
  <2>2. r \in Writing /\ r.pc = "write" /\ r.list = writer[w].list /\ Listing(w) /\ Busy(w)
    BY <2>1, WritingTyped DEF Listing, Busy
  <2>3. Inherits({})
    BY <2>1 DEF Inherits
  <2>4. saved' = saved
        /\ UNCHANGED <<running, clock, expiry, issued, revoked, verifier, withdrawn, overlapped>>
    BY <1>3 DEF OpenTmp, history
  <2> HIDE DEF r
  <2> QED
    BY <1>1, <2>1, <2>2, <2>3, <2>4, SaveKeepsBase
<1>4. CASE WriteTmp(w) \/ WriteFails(w)
  <2>1. /\ fs' \in Dir /\ fs'.path = fs.path /\ fs'.tmp = fs.tmp /\ Inherits(writer[w].list)
        /\ writer[w].pc = "write" /\ writer[w].list \in Lists
        /\ \/ writer' = [writer EXCEPT ![w] = Idle]
           \/ writer' = [writer EXCEPT ![w] = [pc |-> "rename", list |-> writer[w].list]]
    BY <1>4, WriteStep
  <2>2. Listing(w) /\ Busy(w)
    BY <2>1 DEF Listing, Busy
  <2>3. \E r \in Writing :
           /\ writer' = [writer EXCEPT ![w] = r] /\ r.pc # "lock"
           /\ r.pc \in {"open", "write", "rename"} => r.list = writer[w].list
    BY <2>1, WritingTyped
  <2>4. saved' = saved
        /\ UNCHANGED <<running, clock, expiry, issued, revoked, verifier, withdrawn, overlapped>>
    BY <1>4 DEF WriteTmp, WriteFails, history
  <2> QED
    BY <1>1, <1>2, <2>1, <2>2, <2>3, <2>4, SaveKeepsBase
<1>5. CASE Rename(w)
  <2>1. writer[w].pc = "rename" /\ Listing(w) /\ Busy(w)
    BY <1>5 DEF Rename, Listing, Busy
  <2>2. UNCHANGED <<running, clock, expiry, issued, revoked, verifier, withdrawn, overlapped>>
    BY <1>5 DEF Rename
  <2>3. CASE fs.tmp # NoFile
    <3>1. /\ fs' \in Dir /\ fs'.path = fs.tmp /\ fs'.tmp = NoFile /\ Inherits({})
          /\ writer' = [writer EXCEPT ![w] = Idle] /\ saved' = saved \cup Jtis(writer[w].list)
      BY <1>5, <2>3, RenameStep
    <3> QED
      BY <1>1, <2>1, <2>2, <3>1, WritingTyped, SaveKeepsBase
  <2>4. CASE fs.tmp = NoFile
    <3>1. writer' = [writer EXCEPT ![w] = [pc |-> "remove"]] /\ fs' = fs /\ saved' = saved
      BY <1>5, <2>4 DEF Rename, CanRename
    <3>2. Inherits({})
      BY <3>1 DEF Inherits
    <3> DEFINE r == [pc |-> "remove"]
    <3>3. r \in Writing /\ r.pc = "remove" /\ writer' = [writer EXCEPT ![w] = r]
      BY <3>1, WritingTyped
    <3> HIDE DEF r
    <3> QED
      BY <1>1, <1>2, <2>1, <2>2, <3>1, <3>2, <3>3, SaveKeepsBase
  <2> QED
    BY <2>3, <2>4
<1>6. CASE RemoveTmp(w)
  <2>1. /\ fs' \in Dir /\ fs'.path = fs.path /\ fs'.tmp \in {fs.tmp, NoFile} /\ Inherits({})
    BY <1>6, KeptStep
  <2>2. /\ writer[w].pc = "remove" /\ writer' = [writer EXCEPT ![w] = Idle] /\ saved' = saved
        /\ UNCHANGED <<running, clock, expiry, issued, revoked, verifier, withdrawn, overlapped>>
    BY <1>6 DEF RemoveTmp, Finished, history
  <2>3. Busy(w)
    BY <2>2 DEF Busy
  <2> QED
    BY <1>1, <1>2, <2>1, <2>2, <2>3, WritingTyped, SaveKeepsBase
<1> QED
  BY <1>3, <1>4, <1>5, <1>6 DEF Persist

LEMMA CrashBase ==
    ASSUME BaseInv, Crash
    PROVE  BaseInv'
<1>1. /\ fs' \in Dir /\ fs'.path = fs.path /\ fs'.tmp \in {fs.tmp, NoFile} /\ Inherits({})
  BY KeptStep
<1>2. /\ running' = FALSE /\ issued' = {} /\ revoked' = {}
      /\ writer' = [w \in Writers |-> Idle] /\ verifier' = [v \in Verifiers |-> NoVerdict]
      /\ clock' = clock /\ expiry' = expiry /\ withdrawn' = withdrawn /\ saved' = saved
      /\ overlapped' = overlapped
  BY DEF Crash, history
<1>3. \A w \in Writers : writer'[w] = Idle
  BY <1>2
<1>4. \A v \in Verifiers : verifier'[v] = NoVerdict
  BY <1>2
<1>5. TypeOK'
  <2>1. writer' \in [Writers -> Writing] /\ verifier' \in [Verifiers -> Verifying]
    BY <1>2, WritingTyped DEF Verifying
  <2> QED
    BY <1>1, <1>2, <2>1 DEF BaseInv, TypeOK, Dir, Lists
<1>6. OnlyWithdrawn'
  <2>1. \A i \in Inodes : fs'.data[i].value \subseteq withdrawn'
    BY <1>1, <1>2, FilesInherit DEF BaseInv
  <2> QED
    BY <1>2, <1>3, <2>1 DEF BaseInv, OnlyWithdrawn, Listing, Idle
<1>7. ProcessInv'
  BY <1>1, <1>2, <1>3, <1>4 DEF BaseInv, ProcessInv, Idle
<1>8. MemoryInv'
  BY <1>2, <1>4 DEF MemoryInv, NoVerdict
<1> QED
  BY <1>5, <1>6, <1>7, <1>8 DEF BaseInv

LEMMA VerifyBase ==
    ASSUME BaseInv, NEW v \in Verifiers, NEW t,
           (t \in Tokens /\ VerifyBegin(v, t)) \/ VerifyLookup(v)
    PROVE  BaseInv'
<1>1. PICK r \in Verifying :
         /\ verifier' = [verifier EXCEPT ![v] = r]
         /\ r.pc = "lookup" => /\ r.token \in issued
                               /\ r.late => r.token \in Jtis(withdrawn)
         /\ r # NoVerdict => running
  <2>1. CASE t \in Tokens /\ VerifyBegin(v, t)
    <3> DEFINE late == t \in Jtis(withdrawn)
               r == [pc |-> "lookup", token |-> t, late |-> late]
    <3>0. late \in BOOLEAN
      OBVIOUS
    <3> HIDE DEF late
    <3>1. r \in Verifying /\ r.token = t /\ r.late = late
      BY <2>1, <3>0 DEF Verifying
    <3> USE DEF late
    <3>2. verifier' = [verifier EXCEPT ![v] = r] /\ running /\ t \in issued
      BY <2>1 DEF VerifyBegin
    <3> HIDE DEF r
    <3> QED
      BY <3>1, <3>2
  <2>2. CASE VerifyLookup(v)
    BY <2>2 DEF VerifyLookup, Verifying, NoVerdict
  <2> QED
    BY <2>1, <2>2
<1>2. UNCHANGED <<running, clock, expiry, issued, revoked, writer, fs, withdrawn, saved, overlapped>>
  BY DEF VerifyBegin, VerifyLookup, history
<1>3. /\ verifier' \in [Verifiers -> Verifying]
      /\ \A u \in Verifiers : verifier'[u] = IF u = v THEN r ELSE verifier[u]
  BY <1>1 DEF BaseInv, TypeOK
<1>4. TypeOK'
  BY <1>2, <1>3 DEF BaseInv, TypeOK
<1>5. OnlyWithdrawn'
  BY <1>2 DEF BaseInv, OnlyWithdrawn, Listing
<1>6. ProcessInv'
  BY <1>1, <1>2, <1>3 DEF BaseInv, ProcessInv
<1>7. MemoryInv'
  BY <1>1, <1>2, <1>3 DEF BaseInv, MemoryInv, Lapsed
<1> QED
  BY <1>4, <1>5, <1>6, <1>7 DEF BaseInv

\* The two that leave the lock with a snapshot.
LEMMA RevokeStep ==
    ASSUME BaseInv, NEW w \in Writers, NEW t \in Tokens, NEW exp \in Int, Revoke(w, t, exp)
    PROVE  /\ running /\ ~Busy(w) /\ expiry[t] # 0
           /\ revoked' \in Lists /\ Jtis(revoked') = Jtis(revoked) \cup {t}
           /\ withdrawn' \in Lists /\ Jtis(withdrawn') = Jtis(withdrawn) \cup {t}
           /\ withdrawn \subseteq withdrawn' /\ revoked' \subseteq withdrawn'
           /\ writer' = [writer EXCEPT ![w] = [pc |-> "open", list |-> revoked']]
           /\ overlapped' = (overlapped \/ \E u \in Writers \ {w} : Busy(u))
           /\ UNCHANGED <<running, clock, expiry, issued, verifier, fs, saved>>
<1> DEFINE e == [jti |-> t, exp |-> exp]
<1>1. /\ running /\ ~Busy(w) /\ expiry[t] # 0
      /\ revoked' = Recorded(revoked, t, exp) /\ withdrawn' = withdrawn \cup {e}
      /\ writer' = [writer EXCEPT ![w] = [pc |-> "open", list |-> revoked']]
      /\ overlapped' = (overlapped \/ \E u \in Writers \ {w} : Busy(u))
      /\ UNCHANGED <<running, clock, expiry, issued, verifier, fs, saved>>
  BY DEF Revoke, EnterPersist
<1>2. e \in Entry /\ e.jti = t
  BY DEF Entry
<1>3. revoked \in Lists /\ withdrawn \in Lists /\ revoked \subseteq withdrawn
  BY DEF BaseInv, TypeOK, OnlyWithdrawn, Lists
<1>4. /\ Recorded(revoked, t, exp) \in Lists
      /\ Recorded(revoked, t, exp) \subseteq revoked \cup {e}
      /\ Jtis(Recorded(revoked, t, exp)) = Jtis(revoked) \cup {t}
  BY <1>3, RecordedKeeps
<1> HIDE DEF e
<1>5. withdrawn' \in Lists /\ Jtis(withdrawn') = Jtis(withdrawn) \cup {t}
  BY <1>1, <1>2, <1>3, JtisFacts DEF Lists
<1> QED
  BY <1>1, <1>3, <1>4, <1>5

LEMMA PruneStep ==
    ASSUME BaseInv, PruneApply
    PROVE  /\ running /\ ~Busy(Pruner)
           /\ revoked' \subseteq revoked
           /\ \A t \in Jtis(revoked) : t \in Jtis(revoked') \/ Lapsed(t)
           /\ writer' = [writer EXCEPT ![Pruner] = [pc |-> "open", list |-> revoked']]
           /\ overlapped' = (overlapped \/ \E u \in Writers \ {Pruner} : Busy(u))
           /\ UNCHANGED <<running, clock, expiry, issued, verifier, fs, withdrawn, saved>>
<1>1. Pruner \in Writers
  BY ConstantsTyped
<1>2. /\ writer[Pruner].pc = "lock" /\ revoked' = OnlyLive(revoked, writer[Pruner].now)
      /\ writer' = [writer EXCEPT ![Pruner] = [pc |-> "open", list |-> revoked']]
      /\ overlapped' = (overlapped \/ \E u \in Writers \ {Pruner} : Busy(u))
      /\ UNCHANGED <<running, clock, expiry, issued, verifier, fs, withdrawn, saved>>
  BY DEF PruneApply, EnterPersist
<1>3. /\ writer[Pruner].now \in Nat /\ writer[Pruner].now <= clock /\ clock \in Nat
      /\ \A e \in revoked : e.exp \in Int /\ e \in withdrawn
  BY <1>1, <1>2, Shapes DEF BaseInv, TypeOK, ProcessInv, OnlyWithdrawn, Entry
<1>4. running
  BY <1>1, <1>2 DEF BaseInv, ProcessInv, Idle
<1>5. revoked' \subseteq revoked
  BY <1>2 DEF OnlyLive
<1>6. ASSUME NEW e \in revoked, e \notin revoked'
      PROVE  Lapsed(e.jti)
  <2>1. 0 < e.exp /\ e.exp < writer[Pruner].now
    BY <1>2, <1>6 DEF OnlyLive, Expired
  <2>2. e.exp < clock
    BY <1>3, <2>1
  <2> QED
    BY <1>3, <2>1, <2>2 DEF Lapsed
<1>7. \A t \in Jtis(revoked) : t \in Jtis(revoked') \/ Lapsed(t)
  BY <1>6 DEF Jtis
<1> QED
  BY <1>2, <1>4, <1>5, <1>7 DEF Busy

LEMMA EnterBase ==
    ASSUME BaseInv, NEW w \in Writers, NEW t, NEW exp \in Int,
           (t \in Tokens /\ Revoke(w, t, exp)) \/ PruneApply
    PROVE  BaseInv'
<1>0. /\ clock \in Nat /\ withdrawn \in Lists
      /\ \A s \in issued \cap Jtis(withdrawn) : s \in Jtis(revoked) \/ Lapsed(s)
      /\ \A s \in Jtis(withdrawn) : expiry[s] # 0
  BY DEF BaseInv, TypeOK, MemoryInv, OnlyWithdrawn, Lists
<1>1. PICK u \in Writers :
         /\ running /\ writer' = [writer EXCEPT ![u] = [pc |-> "open", list |-> revoked']]
         /\ withdrawn \subseteq withdrawn' /\ withdrawn' \in Lists
         /\ revoked' \subseteq withdrawn' /\ \A s \in Jtis(withdrawn') : expiry[s] # 0
         /\ \A s \in Jtis(withdrawn') \cap issued : s \in Jtis(revoked') \/ Lapsed(s)
         /\ overlapped' \in BOOLEAN
         /\ UNCHANGED <<running, clock, expiry, issued, verifier, fs, saved>>
  <2>1. CASE t \in Tokens /\ Revoke(w, t, exp)
    BY <1>0, <2>1, RevokeStep DEF BaseInv, TypeOK
  <2>2. CASE PruneApply
    BY <1>0, <2>2, PruneStep, ConstantsTyped DEF BaseInv, OnlyWithdrawn, TypeOK
  <2> QED
    BY <2>1, <2>2
<1>2. revoked' \in Lists /\ Jtis(withdrawn) \subseteq Jtis(withdrawn')
  BY <1>1, JtisFacts DEF Lists
<1> DEFINE r == [pc |-> "open", list |-> revoked']
<1>3. r \in Writing /\ r.pc = "open" /\ r.list = revoked'
  BY <1>2, WritingTyped
<1> HIDE DEF r
<1>4. /\ writer' \in [Writers -> Writing]
      /\ \A x \in Writers : writer'[x] = IF x = u THEN r ELSE writer[x]
  BY <1>1, <1>3, OwnStep DEF BaseInv, r
<1>5. TypeOK'
  BY <1>1, <1>2, <1>4 DEF BaseInv, TypeOK, Lists
<1>6. OnlyWithdrawn'
  <2>1. \A x \in Writers : Listing(x)' => writer'[x].list \subseteq withdrawn'
    BY <1>1, <1>3, <1>4 DEF BaseInv, OnlyWithdrawn, Listing
  <2>2. \A i \in Inodes : fs'.data[i].value \subseteq withdrawn'
    BY <1>1 DEF BaseInv, OnlyWithdrawn
  <2>3. /\ (\A s \in issued \cup Jtis(withdrawn) : expiry[s] # 0)'
        /\ (revoked \subseteq withdrawn /\ saved \subseteq Jtis(withdrawn))'
    BY <1>1, <1>2 DEF BaseInv, OnlyWithdrawn
  <2> QED
    BY <2>1, <2>2, <2>3 DEF OnlyWithdrawn
<1>7. ProcessInv'
  BY <1>1, <1>3, <1>4 DEF BaseInv, ProcessInv
<1>8. MemoryInv'
  <2>0. \A s : Lapsed(s) => Lapsed(s)'
    BY <1>0, <1>1, LapsedStays DEF BaseInv
  <2>1. \A s \in issued' \cap Jtis(withdrawn') : s \in Jtis(revoked') \/ Lapsed(s)'
    BY <1>1, <2>0
  <2>2. \A v \in Verifiers : verifier'[v].pc = "lookup" =>
           /\ verifier'[v].token \in issued'
           /\ verifier'[v].late => verifier'[v].token \in Jtis(withdrawn')
    BY <1>1, <1>2 DEF BaseInv, MemoryInv
  <2> QED
    BY <2>1, <2>2 DEF MemoryInv
<1> QED
  BY <1>5, <1>6, <1>7, <1>8 DEF BaseInv

LEMMA IssueBase ==
    ASSUME BaseInv, NEW t \in Tokens, Issue(t)
    PROVE  BaseInv'
<1>1. /\ running /\ expiry[t] = 0 /\ expiry' = [expiry EXCEPT ![t] = clock + TTL]
      /\ issued' = issued \cup {t}
      /\ UNCHANGED <<running, clock, revoked, writer, verifier, fs, withdrawn, saved, overlapped>>
  BY DEF Issue, ExpiryAt, history
<1>2. clock + TTL \in Nat /\ clock + TTL # 0
  BY RevocationAssumption DEF BaseInv, TypeOK
<1>3. /\ expiry' \in [Tokens -> Nat] /\ expiry'[t] # 0
      /\ \A s \in Tokens : s # t => expiry'[s] = expiry[s]
  BY <1>1, <1>2 DEF BaseInv, TypeOK
<1>4. t \notin Jtis(withdrawn) /\ Jtis(withdrawn) \subseteq Tokens
  BY <1>1, JtisFacts DEF BaseInv, OnlyWithdrawn, TypeOK, Lists
<1>5. TypeOK'
  BY <1>1, <1>3 DEF BaseInv, TypeOK
<1>6. OnlyWithdrawn'
  <2>1. (\A s \in issued \cup Jtis(withdrawn) : expiry[s] # 0)'
    BY <1>1, <1>3, <1>4 DEF BaseInv, OnlyWithdrawn, TypeOK
  <2> QED
    BY <1>1, <2>1 DEF BaseInv, OnlyWithdrawn, Listing
<1>7. ProcessInv'
  BY <1>1 DEF BaseInv, ProcessInv
<1>8. MemoryInv'
  BY <1>1, <1>4 DEF BaseInv, MemoryInv, Lapsed
<1> QED
  BY <1>5, <1>6, <1>7, <1>8 DEF BaseInv

LEMMA StartBase ==
    ASSUME BaseInv, Start
    PROVE  BaseInv'
<1>1. /\ issued' = {} /\ running' = TRUE
      /\ fs.path = NoFile => revoked' = {}
      /\ fs.path # NoFile => revoked' = OnlyLive(fs.data[fs.path].value, clock)
      /\ UNCHANGED <<clock, expiry, writer, verifier, fs, withdrawn, saved, overlapped>>
      /\ ~running
  BY DEF Start, NoFileYet, Published, history
<1>2. revoked' \subseteq withdrawn
  <2>1. fs.path \in Inodes \cup {NoFile}
    BY FileTyped DEF BaseInv, TypeOK
  <2>2. fs.path # NoFile => revoked' \subseteq fs.data[fs.path].value
    BY <1>1 DEF OnlyLive
  <2> QED
    BY <1>1, <2>1, <2>2 DEF BaseInv, OnlyWithdrawn
<1>3. TypeOK'
  BY <1>1, <1>2 DEF BaseInv, TypeOK
<1>4. OnlyWithdrawn'
  BY <1>1, <1>2 DEF BaseInv, OnlyWithdrawn, Listing
<1>5. ProcessInv'
  BY <1>1 DEF BaseInv, ProcessInv
<1>6. MemoryInv'
  BY <1>1 DEF BaseInv, ProcessInv, MemoryInv, NoVerdict, Lapsed
<1> QED
  BY <1>3, <1>4, <1>5, <1>6 DEF BaseInv

LEMMA ClockBase ==
    ASSUME BaseInv, Tick \/ PruneTick
    PROVE  BaseInv'
<1>1. CASE Tick
  <2>1. /\ clock' = clock + 1 /\ clock' \in Nat /\ clock \in Nat
        /\ UNCHANGED <<running, expiry, issued, revoked, writer, verifier, fs, withdrawn, saved,
                       overlapped>>
    BY <1>1 DEF Tick, BaseInv, TypeOK, history
  <2>2. TypeOK'
    BY <2>1 DEF BaseInv, TypeOK
  <2>3. OnlyWithdrawn'
    BY <2>1 DEF BaseInv, OnlyWithdrawn, Listing
  <2>4. ProcessInv'
    <3>1. \A w \in Writers : writer[w].pc = "lock" => writer[w].now \in Nat
      BY Shapes DEF BaseInv
    <3> QED
      BY <2>1, <3>1 DEF BaseInv, ProcessInv
  <2>5. MemoryInv'
    <3>1. \A s : Lapsed(s) => Lapsed(s)'
      BY <2>1, LapsedStays DEF BaseInv
    <3> QED
      BY <2>1, <3>1 DEF BaseInv, MemoryInv
  <2> QED
    BY <2>2, <2>3, <2>4, <2>5 DEF BaseInv
<1>2. CASE PruneTick
  <2> DEFINE r == [pc |-> "lock", now |-> clock]
  <2>1. /\ running /\ writer' = [writer EXCEPT ![Pruner] = r]
        /\ UNCHANGED <<running, clock, expiry, issued, revoked, verifier, fs, withdrawn, saved,
                       overlapped>>
    BY <1>2 DEF PruneTick, history
  <2>2. r \in Writing /\ r.pc = "lock" /\ r.now = clock /\ clock \in Nat
    BY WritingTyped DEF BaseInv, TypeOK
  <2> HIDE DEF r
  <2>3. /\ writer' \in [Writers -> Writing]
        /\ \A w \in Writers : writer'[w] = IF w = Pruner THEN r ELSE writer[w]
    BY <2>1, <2>2, OwnStep, ConstantsTyped DEF BaseInv
  <2>4. TypeOK'
    BY <2>1, <2>3 DEF BaseInv, TypeOK
  <2>5. OnlyWithdrawn'
    BY <2>1, <2>2, <2>3 DEF BaseInv, OnlyWithdrawn, Listing
  <2>6. ProcessInv'
    BY <2>1, <2>2, <2>3 DEF BaseInv, ProcessInv
  <2>7. MemoryInv'
    BY <2>1 DEF BaseInv, MemoryInv, Lapsed
  <2> QED
    BY <2>4, <2>5, <2>6, <2>7 DEF BaseInv
<1> QED
  BY <1>1, <1>2

-----------------------------------------------------------------------------
(* The second part: a save that no other has overlapped.                    *)

\* What is on disk for good, in the file as it is and as a step leaves it.
Durable == \A t \in saved :
    ~Lapsed(t) => /\ fs.path # NoFile /\ t \in Jtis(fs.data[fs.path].value)
                  /\ running => t \in Jtis(revoked)

\* A step of one goroutine that keeps what the file says.
LEMMA SameFile ==
    ASSUME Readable(fs), Durable,
           fs'.path = fs.path, fs.path # NoFile => fs'.data[fs.path] = fs.data[fs.path],
           saved' = saved, \A t : Lapsed(t) => Lapsed(t)',
           running' => running /\ \A t \in Jtis(revoked) : t \in Jtis(revoked') \/ Lapsed(t)
    PROVE  Readable(fs)' /\ Durable'
<1>1. Readable(fs)'
  BY DEF Readable, Published
<1> QED
  BY <1>1 DEF Durable

LEMMA OneBusy ==
    ASSUME NEW w \in Writers, \A u \in Writers : Busy(u) => u = w,
           \A u \in Writers : u # w => writer'[u] = writer[u],
           Busy(w)' => SaveAlone(w)'
    PROVE  \A u \in Writers : Busy(u)' => SaveAlone(u)'
BY DEF Busy

LEMMA PersistSerial ==
    ASSUME BaseInv, SerialInv, NEW w \in Writers, Persist(w)
    PROVE  SerialInv'
<1>1. UNCHANGED <<running, clock, expiry, issued, revoked, verifier, withdrawn, overlapped>>
  BY DEF Persist, OpenTmp, WriteTmp, WriteFails, Rename, RemoveTmp, history
<1> SUFFICES ASSUME ~overlapped
             PROVE  /\ \A u \in Writers : Busy(u)' => SaveAlone(u)'
                    /\ Readable(fs)' /\ Durable'
  BY <1>1 DEF SerialInv, Durable
<1>2. Busy(w)
  BY DEF Persist, OpenTmp, WriteTmp, WriteFails, Rename, RemoveTmp, Busy
<1>3. /\ \A u \in Writers : Busy(u) => u = w
      /\ SaveAlone(w) /\ Readable(fs) /\ Durable
  BY <1>2 DEF SerialInv, SaveAlone, Durable
<1>4. writer[w].pc # "remove" /\ writer[w].list = revoked
  BY <1>3 DEF SaveAlone
<1>5. /\ \A t : Lapsed(t) => Lapsed(t)'
      /\ fs.path # NoFile => fs.path # fs.tmp
  BY <1>1 DEF BaseInv, ProcessInv, Lapsed
<1>6. CASE OpenTmp(w)
  <2> DEFINE r == [pc |-> "write", list |-> writer[w].list, fd |-> fs'.tmp]
  <2>1. /\ fs'.path = fs.path /\ fs'.tmp \in Inodes /\ fs'.tmp # fs.path /\ fs \in Dir
        /\ \A i \in Inodes :
              fs'.data[i] = IF i = fs'.tmp THEN [intact |-> FALSE, size |-> 0, value |-> {}]
                            ELSE fs.data[i]
        /\ writer' = [writer EXCEPT ![w] = r] /\ writer[w].list \in Lists
    BY <1>6, OpenTmpStep DEF BaseInv, TypeOK, Dir, Lists
  <2>2. r.pc = "write" /\ r.list = revoked /\ r.fd = fs'.tmp /\ r \in Writing
    BY <1>4, <2>1, WritingTyped
  <2> HIDE DEF r
  <2>3. writer'[w] = r /\ \A u \in Writers : u # w => writer'[u] = writer[u]
    BY <2>1, <2>2, OwnStep DEF BaseInv
  <2>4. fs'.data[fs'.tmp].size = 0
    BY <2>1
  <2>5. \A u \in Writers : Busy(u)' => u = w
    BY <1>3, <2>3 DEF Busy
  <2>6. SaveAlone(w)'
    BY <1>1, <2>2, <2>3, <2>4, <2>5 DEF SaveAlone
  <2>7. fs.path # NoFile => fs'.data[fs.path] = fs.data[fs.path]
    BY <2>1, FileTyped DEF Dir
  <2>8. saved' = saved
    BY <1>6 DEF OpenTmp, history
  <2> QED
    BY <1>1, <1>3, <1>5, <2>1, <2>3, <2>6, <2>7, <2>8, SameFile, OneBusy
<1>7. CASE WriteTmp(w) \/ WriteFails(w)
  <2> DEFINE r == [pc |-> "rename", list |-> writer[w].list]
  <2>1. /\ fs'.path = fs.path /\ fs'.tmp = fs.tmp
        /\ fs.path # NoFile /\ fs.path # writer[w].fd => fs'.data[fs.path] = fs.data[fs.path]
        /\ writer[w].pc = "write" /\ writer[w].list \in Lists
        /\ \/ writer' = [writer EXCEPT ![w] = Idle]
           \/ /\ writer' = [writer EXCEPT ![w] = r]
              /\ writer[w].fd = fs.tmp /\ fs.data[fs.tmp].size = 0 =>
                    fs'.data[fs.tmp].intact /\ fs'.data[fs.tmp].value = writer[w].list
    BY <1>7, WriteStep
  <2>2. fs.tmp = writer[w].fd /\ fs.data[fs.tmp].size = 0 /\ writer[w].fd \in Inodes
    BY <1>3, <2>1, Shapes DEF SaveAlone, BaseInv
  <2>3. r.pc = "rename" /\ r.list = revoked /\ r \in Writing
    BY <1>4, <2>1, WritingTyped
  <2> HIDE DEF r
  <2>4. \A u \in Writers : u # w => writer'[u] = writer[u]
    BY <2>1, <2>3, WritingTyped, OwnStep DEF BaseInv
  <2>5. \A u \in Writers : Busy(u)' => u = w
    BY <1>3, <2>4 DEF Busy
  <2>6. ASSUME writer' = [writer EXCEPT ![w] = Idle]
        PROVE  ~Busy(w)'
    BY <2>6, WritingTyped, OwnStep DEF BaseInv, Busy
  <2>7. ASSUME writer' = [writer EXCEPT ![w] = r],
               fs'.data[fs.tmp].intact, fs'.data[fs.tmp].value = writer[w].list
        PROVE  SaveAlone(w)'
    <3>1. writer'[w] = r
      BY <2>3, <2>7, OwnStep DEF BaseInv
    <3>2. fs'.tmp # NoFile
      BY <2>1, <2>2, ConstantsTyped
    <3>3. fs'.data[fs'.tmp].intact /\ fs'.data[fs'.tmp].value = revoked'
      BY <1>1, <1>4, <2>1, <2>7
    <3> QED
      BY <1>1, <2>3, <2>5, <3>1, <3>2, <3>3 DEF SaveAlone
  <2>8. Busy(w)' => SaveAlone(w)'
    BY <2>1, <2>2, <2>6, <2>7
  <2>9. saved' = saved
    BY <1>7 DEF WriteTmp, WriteFails, history
  <2>10. fs.path # NoFile => fs'.data[fs.path] = fs.data[fs.path]
    BY <1>5, <2>1, <2>2
  <2> QED
    BY <1>1, <1>3, <1>5, <2>1, <2>4, <2>8, <2>9, <2>10, SameFile, OneBusy
<1>8. CASE Rename(w)
  <2>1. fs.tmp # NoFile /\ fs.data[fs.tmp].intact /\ fs.data[fs.tmp].value = revoked
    BY <1>3, <1>8 DEF SaveAlone, Rename
  <2>2. /\ fs'.path = fs.tmp /\ fs'.data[fs.tmp] = fs.data[fs.tmp]
        /\ writer' = [writer EXCEPT ![w] = Idle] /\ saved' = saved \cup Jtis(writer[w].list)
    BY <1>8, <2>1, RenameStep
  <2>3. /\ ~Busy(w)' /\ \A u \in Writers : u # w => writer'[u] = writer[u]
    BY <2>2, WritingTyped, OwnStep DEF BaseInv, Busy
  <2>4. Readable(fs)'
    BY <2>1, <2>2 DEF Readable, Published
  <2>5. running
    BY <1>2 DEF BaseInv, ProcessInv, Busy, Idle
  <2>6. Durable'
    <3>1. \A t \in saved' : ~Lapsed(t) => t \in Jtis(revoked)
      BY <1>3, <1>4, <2>2, <2>5 DEF Durable
    <3> QED
      BY <1>1, <1>5, <2>1, <2>2, <3>1 DEF Durable
  <2> QED
    BY <1>3, <2>3, <2>4, <2>6, OneBusy
<1>9. ~RemoveTmp(w)
  BY <1>4 DEF RemoveTmp
<1> QED
  BY <1>6, <1>7, <1>8, <1>9 DEF Persist

\* A list leaves the lock: either it is alone, or the invariant says no more.
LEMMA EnterSerial ==
    ASSUME BaseInv, SerialInv, NEW w \in Writers, NEW t, NEW exp \in Int,
           (t \in Tokens /\ Revoke(w, t, exp)) \/ PruneApply
    PROVE  SerialInv'
<1>1. PICK u \in Writers :
         /\ running /\ ~Busy(u)
         /\ writer' = [writer EXCEPT ![u] = [pc |-> "open", list |-> revoked']]
         /\ overlapped' = (overlapped \/ \E x \in Writers \ {u} : Busy(x))
         /\ revoked' \in Lists /\ withdrawn \subseteq withdrawn'
         /\ \A s \in Jtis(revoked) : s \in Jtis(revoked') \/ Lapsed(s)
         /\ UNCHANGED <<running, clock, expiry, issued, verifier, fs, saved>>
  <2>1. CASE t \in Tokens /\ Revoke(w, t, exp)
    BY <2>1, RevokeStep
  <2>2. CASE PruneApply
    BY <2>2, PruneStep, ConstantsTyped DEF BaseInv, TypeOK, Lists
  <2> QED
    BY <2>1, <2>2
<1>1a. \A s : Lapsed(s) => Lapsed(s)'
  BY <1>1, LapsedStays DEF BaseInv, TypeOK
<1> SUFFICES ASSUME ~overlapped'
             PROVE  /\ \A x \in Writers : Busy(x)' => SaveAlone(x)'
                    /\ Readable(fs)' /\ Durable'
  BY DEF SerialInv, Durable
<1>2. ~overlapped /\ \A x \in Writers : ~Busy(x)
  BY <1>1
<1> DEFINE r == [pc |-> "open", list |-> revoked']
<1>3. r \in Writing /\ r.pc = "open" /\ r.list = revoked'
  BY <1>1, WritingTyped
<1> HIDE DEF r
<1>4. writer'[u] = r /\ \A x \in Writers : x # u => writer'[x] = writer[x]
  BY <1>1, <1>3, OwnStep DEF BaseInv, r
<1>5. \A x \in Writers : Busy(x)' => x = u
  BY <1>2, <1>4 DEF Busy
<1>6. SaveAlone(u)'
  BY <1>3, <1>4, <1>5 DEF SaveAlone
<1>7. Readable(fs) /\ Durable
  BY <1>2 DEF SerialInv, Durable
<1>8. Readable(fs)' /\ Durable'
  BY <1>1, <1>1a, <1>7, SameFile
<1> QED
  BY <1>5, <1>6, <1>8

\* Nobody saves while the process is down, so a restart finds what is on disk.
LEMMA StartSerial ==
    ASSUME BaseInv, SerialInv, Start
    PROVE  SerialInv'
<1>1. /\ ~running
      /\ fs.path # NoFile => revoked' = OnlyLive(fs.data[fs.path].value, clock)
      /\ UNCHANGED <<clock, expiry, writer, verifier, fs, withdrawn, saved, overlapped>>
  BY DEF Start, NoFileYet, Published, history
<1>2. \A w \in Writers : ~Busy(w) /\ ~Busy(w)'
  BY <1>1 DEF BaseInv, ProcessInv, Busy, Idle
<1> SUFFICES ASSUME ~overlapped
             PROVE  Readable(fs)' /\ Durable'
  BY <1>1, <1>2 DEF SerialInv, Durable
<1>3. Readable(fs) /\ Durable
  BY DEF SerialInv, Durable
<1>4. Readable(fs)'
  BY <1>1, <1>3 DEF Readable, Published
<1>5. ASSUME NEW t \in saved, ~Lapsed(t)
      PROVE  /\ fs.path # NoFile /\ t \in Jtis(fs.data[fs.path].value)
             /\ t \in Jtis(revoked')
  <2>1. fs.path # NoFile /\ t \in Jtis(fs.data[fs.path].value)
    BY <1>3, <1>5 DEF Durable
  <2>2. PICK e \in fs.data[fs.path].value : e.jti = t
    BY <2>1 DEF Jtis
  <2>3. e \in withdrawn
    BY <2>1, <2>2, FileTyped DEF BaseInv, TypeOK, OnlyWithdrawn
  <2>4. e \in revoked'
    BY <1>1, <1>5, <2>1, <2>2, <2>3 DEF OnlyLive, Expired, Lapsed
  <2> QED
    BY <2>1, <2>2, <2>4 DEF Jtis
<1>6. Durable'
  BY <1>1, <1>5 DEF Durable, Lapsed
<1> QED
  BY <1>4, <1>6

LEMMA CrashSerial ==
    ASSUME BaseInv, SerialInv, Crash
    PROVE  SerialInv'
<1>1. /\ running' = FALSE /\ writer' = [w \in Writers |-> Idle]
      /\ UNCHANGED <<clock, expiry, withdrawn, saved, overlapped>>
  BY DEF Crash, history
<1>2. \A w \in Writers : ~Busy(w)'
  BY <1>1 DEF Busy, Idle
<1>3. fs'.path = fs.path /\ (fs.path # NoFile => fs'.data[fs.path] = fs.data[fs.path])
  BY KeptStep
<1> SUFFICES ASSUME ~overlapped
             PROVE  Readable(fs)' /\ Durable'
  BY <1>1, <1>2 DEF SerialInv, Durable
<1>4. Readable(fs) /\ Durable
  BY DEF SerialInv, Durable
<1>5. \A t : Lapsed(t) => Lapsed(t)'
  BY <1>1 DEF Lapsed
<1> QED
  BY <1>1, <1>3, <1>4, <1>5, SameFile

LEMMA OthersSerial ==
    ASSUME BaseInv, SerialInv, NEW t, NEW v,
           (t \in Tokens /\ Issue(t)) \/ VerifyBegin(v, t) \/ VerifyLookup(v) \/ Tick \/ PruneTick
    PROVE  SerialInv'
<1>1. UNCHANGED <<running, revoked, fs, saved, overlapped>>
  BY DEF Issue, VerifyBegin, VerifyLookup, Tick, PruneTick, history
<1>2. \A w \in Writers : Busy(w)' => Busy(w) /\ writer'[w] = writer[w]
  <2>1. CASE PruneTick
    <3>1. writer' = [writer EXCEPT ![Pruner] = [pc |-> "lock", now |-> clock]]
      BY <2>1 DEF PruneTick
    <3> QED
      BY <3>1 DEF Busy, BaseInv, TypeOK
  <2> QED
    BY <2>1 DEF Issue, VerifyBegin, VerifyLookup, Tick, Busy
<1>3. \A w \in Writers : Busy(w) /\ Busy(w)' /\ SaveAlone(w) => SaveAlone(w)'
  BY <1>1, <1>2 DEF SaveAlone
<1>4. \A s : Lapsed(s) => Lapsed(s)'
  <2>1. withdrawn' = withdrawn /\ clock \in Nat /\ (clock' = clock \/ clock' = clock + 1)
    BY DEF Issue, VerifyBegin, VerifyLookup, Tick, PruneTick, history, BaseInv, TypeOK
  <2>2. clock' \in Nat /\ clock <= clock'
    BY <2>1
  <2> QED
    BY <2>1, <2>2, LapsedStays DEF BaseInv
<1>5. Readable(fs) => Readable(fs)'
  BY <1>1 DEF Readable, Published
<1> QED
  BY <1>1, <1>2, <1>3, <1>4, <1>5 DEF SerialInv

-----------------------------------------------------------------------------
(* The theorems.                                                            *)

LEMMA InitInv == Init => IInv
<1> SUFFICES ASSUME Init PROVE IInv
  OBVIOUS
<1>1. /\ running = FALSE /\ clock = 0 /\ expiry = [t \in Tokens |-> 0]
      /\ issued = {} /\ revoked = {} /\ withdrawn = {} /\ saved = {} /\ overlapped = FALSE
      /\ writer = [w \in Writers |-> Idle] /\ verifier = [v \in Verifiers |-> NoVerdict]
  BY DEF Init
<1>2. /\ fs \in FileSystem(Inodes, Lists) /\ fs.path = NoFile /\ fs.tmp = NoFile
      /\ \A i \in Inodes : fs.data[i] = NothingIn({})
  BY ConstantsTyped, EmptyDirTyped DEF Init
<1>3. TypeOK
  BY <1>1, <1>2, WritingTyped DEF TypeOK, Lists, Verifying
<1>4. OnlyWithdrawn
  BY <1>1, <1>2, JtisFacts DEF OnlyWithdrawn, Listing, Idle, NothingIn
<1>5. ProcessInv /\ MemoryInv
  BY <1>1, <1>2, JtisFacts DEF ProcessInv, MemoryInv, Idle, NoVerdict
<1>6. SerialInv
  BY <1>1, <1>2 DEF SerialInv, Busy, Idle, Readable
<1> QED
  BY <1>3, <1>4, <1>5, <1>6 DEF IInv

LEMMA NextInv == IInv /\ [Next]_vars => IInv'
<1> SUFFICES ASSUME IInv, [Next]_vars PROVE IInv'
  OBVIOUS
<1>1. BaseInv /\ SerialInv
  BY DEF IInv, BaseInv
<1> SUFFICES BaseInv' /\ SerialInv'
  BY DEF IInv, BaseInv
<1>2. CASE Start
  BY <1>1, <1>2, StartBase, StartSerial
<1>3. CASE \E t \in Tokens : Issue(t)
  BY <1>1, <1>3, IssueBase, OthersSerial
<1>4. CASE \E v \in Verifiers, t \in Tokens : VerifyBegin(v, t)
  BY <1>1, <1>4, VerifyBase, OthersSerial
<1>5. CASE \E v \in Verifiers : VerifyLookup(v)
  BY <1>1, <1>5, VerifyBase, OthersSerial
<1>6. ASSUME NEW w \in Revokers, NEW t \in Tokens, NEW exp \in {expiry[t]} \cup OtherExps,
             Revoke(w, t, exp)
      PROVE  BaseInv' /\ SerialInv'
  <2>1. exp \in Int /\ w \in Writers
    BY <1>1, RevocationAssumption DEF BaseInv, TypeOK, Writers
  <2> QED
    BY <1>1, <1>6, <2>1, EnterBase, EnterSerial
<1>7. CASE PruneTick
  BY <1>1, <1>7, ClockBase, OthersSerial
<1>8. CASE PruneApply
  <2>1. Pruner \in Writers /\ 0 \in Int
    BY ConstantsTyped
  <2> QED
    BY <1>1, <1>8, <2>1, EnterBase, EnterSerial
<1>9. CASE \E w \in Writers : Persist(w)
  BY <1>1, <1>9, PersistBase, PersistSerial
<1>10. CASE Crash
  BY <1>1, <1>10, CrashBase, CrashSerial
<1>11. CASE Tick
  BY <1>1, <1>11, ClockBase, OthersSerial
<1>12. ASSUME UNCHANGED vars PROVE BaseInv' /\ SerialInv'
  <2>1. UNCHANGED <<running, clock, expiry, issued, revoked, writer, verifier, fs, withdrawn,
                    saved, overlapped>>
    BY <1>12 DEF vars, history
  <2>2. BaseInv'
    BY <1>1, <2>1 DEF BaseInv, TypeOK, OnlyWithdrawn, ProcessInv, MemoryInv, Listing, Lapsed
  <2>3. SerialInv'
    BY <1>1, <2>1 DEF SerialInv, Busy, SaveAlone, Readable, Published, Lapsed
  <2> QED
    BY <2>2, <2>3
<1> QED
  BY <1>2, <1>3, <1>4, <1>5, <1>6, <1>7, <1>8, <1>9, <1>10, <1>11, <1>12 DEF Next

LEMMA Invariance == Spec => []IInv
BY InitInv, NextInv, PTL DEF Spec

\* The maps hold entries of tokens, the file a list of them.
THEOREM TypeCorrect == Spec => []TypeOK
<1>1. IInv => TypeOK
  BY DEF IInv
<1> QED
  BY <1>1, Invariance, PTL

\* Verify never accepts a token that was revoked before the call began, until
\* an expiry it was revoked with has passed, whatever exp later calls of Revoke
\* record and whatever the pruner and other requests do between its steps.
THEOREM RevocationHolds == Spec => []RevokedNotAccepted
<1>1. IInv => RevokedNotAccepted
  <2> SUFFICES ASSUME IInv, NEW v \in Verifiers, Accepts(v), verifier[v].late
               PROVE  Lapsed(verifier[v].token)
    BY DEF RevokedNotAccepted
  <2> QED
    BY DEF IInv, MemoryInv, Accepts
<1> QED
  BY <1>1, Invariance, PTL

\* persistRevocation never leaves a file that stops the next start, as long
\* as two calls of it have not overlapped.
THEOREM FileStaysReadable == Spec => []SerialFileReadable
<1>1. IInv => SerialFileReadable
  BY DEF IInv, SerialInv, SerialFileReadable
<1> QED
  BY <1>1, Invariance, PTL

\* A token whose revocation persistRevocation reported saved is in the file,
\* and in the memory of every process started from it, until an expiry it was
\* revoked with has passed.
THEOREM SavedRevocationStays == Spec => []SerialRevocationDurable
<1>1. IInv => SerialRevocationDurable
  BY DEF IInv, SerialInv, SerialRevocationDurable, NoFileYet, Published
<1> QED
  BY <1>1, Invariance, PTL
=============================================================================
