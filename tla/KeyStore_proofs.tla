--------------------------- MODULE KeyStore_proofs ---------------------------
(***************************************************************************)
(* Proofs about KeyStore for every set of keys, goroutines, levels and     *)
(* ttls and every bound.  The inductive invariant IInv says of the map in  *)
(* memory and of the file separately what keeps them safe, so that a step  *)
(* that copies one over the other (a flush, a load) carries it along.      *)
(***************************************************************************)
EXTENDS KeyStore, SequenceTheorems, TLAPS

\* What holds of one key's versions wherever they are kept.
Sound(vs, k) ==
    /\ Disciplined(vs)
    /\ \A i \in DOMAIN vs :
         /\ vs[i].material \in 1..minted
         /\ vs[i].material \notin deleted[k]
         /\ vs[i].active => vs[i].material \notin retired[k]

\* What the file owes to acknowledged calls, and memory while a process runs.
Keeps(vs, k) ==
    /\ \A a \in acked[k] : a[1] \in DOMAIN vs /\ vs[a[1]].material = a[2]
    /\ promised[k].material # NoKey =>
         /\ vs # <<>>
         /\ vs[Len(vs)].material = promised[k].material
         /\ vs[Len(vs)].expiresAt = promised[k].until
         /\ vs[Len(vs)].active

HistoryBounded(k) ==
    /\ retired[k] \subseteq 1..minted
    /\ deleted[k] \subseteq 1..minted

KeyInv(k) ==
    /\ Sound(entries[k], k)
    /\ Sound(disk[k], k)
    /\ Keeps(disk[k], k)
    /\ phase # "down" => Keeps(entries[k], k)
    /\ HistoryBounded(k)

IInv ==
    /\ TypeOK
    /\ ~onDisk => disk = Empty
    /\ \A k \in Keys : KeyInv(k)

-----------------------------------------------------------------------------
\* Deactivating the versions of a key changes nothing but their flag.
LEMMA DeactivatedSeq ==
    ASSUME NEW vs \in Seq(Version)
    PROVE  /\ Deactivated(vs) \in Seq(Version)
           /\ Len(Deactivated(vs)) = Len(vs)
           /\ DOMAIN Deactivated(vs) = DOMAIN vs
           /\ \A i \in DOMAIN vs :
                /\ Deactivated(vs)[i].version = vs[i].version
                /\ Deactivated(vs)[i].material = vs[i].material
                /\ Deactivated(vs)[i].active = FALSE
<1>1. Deactivated(vs) = [i \in 1..Len(vs) |-> [vs[i] EXCEPT !.active = FALSE]]
  BY DEF Deactivated
<1>2. \A i \in 1..Len(vs) : vs[i] \in Version
  OBVIOUS
<1>3. \A i \in 1..Len(vs) : [vs[i] EXCEPT !.active = FALSE] \in Version
  BY <1>2 DEF Version
<1>4. Deactivated(vs) \in Seq(Version) /\ Len(Deactivated(vs)) = Len(vs)
  BY <1>1, <1>3, IsASeq
<1>5. QED
  BY <1>1, <1>2, <1>4 DEF Version

\* The list Put leaves: the old versions, deactivated, and the new one last.
LEMMA AppendedSeq ==
    ASSUME NEW vs \in Seq(Version), NEW new \in Version
    PROVE  /\ Append(Deactivated(vs), new) \in Seq(Version)
           /\ Len(Append(Deactivated(vs), new)) = Len(vs) + 1
           /\ DOMAIN Append(Deactivated(vs), new) = 1..(Len(vs) + 1)
           /\ Append(Deactivated(vs), new)[Len(vs) + 1] = new
           /\ \A i \in DOMAIN vs :
                /\ Append(Deactivated(vs), new)[i].version = vs[i].version
                /\ Append(Deactivated(vs), new)[i].material = vs[i].material
                /\ Append(Deactivated(vs), new)[i].active = FALSE
<1> DEFINE ds == Deactivated(vs)
<1>1. /\ ds \in Seq(Version)
      /\ Len(ds) = Len(vs)
      /\ \A i \in DOMAIN vs :
           /\ ds[i].version = vs[i].version
           /\ ds[i].material = vs[i].material
           /\ ds[i].active = FALSE
  BY DeactivatedSeq
<1> HIDE DEF ds
<1>2. /\ Append(ds, new) \in Seq(Version)
      /\ Len(Append(ds, new)) = Len(ds) + 1
      /\ Append(ds, new)[Len(ds) + 1] = new
      /\ \A i \in 1..Len(ds) : Append(ds, new)[i] = ds[i]
  BY <1>1, AppendProperties
<1>3. DOMAIN Append(ds, new) = 1..(Len(vs) + 1) /\ DOMAIN vs = 1..Len(vs)
  BY <1>1, <1>2
<1>4. \A i \in DOMAIN vs : Append(ds, new)[i] = ds[i]
  BY <1>1, <1>2, <1>3
<1>5. QED
  BY <1>1, <1>2, <1>3, <1>4 DEF ds

\* When versions are numbered by their place, GetVersion indexes the list.
LEMMA GetVersionAt ==
    ASSUME NEW vs \in Seq(Version), Disciplined(vs), NEW n \in DOMAIN vs
    PROVE  GetVersion(vs, n) = vs[n].material
<1>1. \A i \in DOMAIN vs : vs[i].version = i
  BY DEF Disciplined
<1>2. (CHOOSE i \in DOMAIN vs : vs[i].version = n) = n
  BY <1>1
<1>3. QED
  BY <1>1, <1>2 DEF GetVersion

\* The record Put appends is a version numbered by its place.
LEMMA NewVersionType ==
    ASSUME TypeOK, NEW vs \in Seq(Version), NEW m \in Nat, NEW level \in Levels, NEW ttl \in Nat
    PROVE  /\ NewVersion(vs, m, level, ttl) \in Version
           /\ NewVersion(vs, m, level, ttl).version = Len(vs) + 1
           /\ NewVersion(vs, m, level, ttl).material = m
           /\ NewVersion(vs, m, level, ttl).active
<1>1. EffectiveTTL(ttl) \in Nat
  BY KeyStoreAssumption DEF EffectiveTTL
<1>2. clock + EffectiveTTL(ttl) \in Nat /\ Len(vs) + 1 \in Nat \ {0}
  BY <1>1 DEF TypeOK
<1>3. QED
  BY <1>2 DEF NewVersion, NextVersion, Version

-----------------------------------------------------------------------------
LEMMA InitInv == Init => IInv
<1> SUFFICES ASSUME Init PROVE IInv
  OBVIOUS
<1>1. <<>> \in Seq(Version)
  OBVIOUS
<1>2. TypeOK
  BY <1>1, KeyStoreAssumption DEF Init, TypeOK, Empty, Entries, Idle, Rotation, NoPromise, NoKey
<1>3. ASSUME NEW k \in Keys PROVE KeyInv(k)
  BY <1>3 DEF Init, KeyInv, Sound, Keeps, HistoryBounded, Disciplined, Empty, NoPromise, NoKey
<1>4. QED
  BY <1>2, <1>3 DEF IInv, Init

\* Put preserves the invariant, whether it is called by a handler with a new
\* keypair or an imported one, or at the end of a rotation, and whether or not
\* its flush succeeds.
LEMMA PutInv ==
    ASSUME IInv, NEW k \in Keys, NEW m \in Nat, NEW level \in Levels, NEW ttl \in Nat,
           NEW ok \in BOOLEAN, Put(k, m, level, ttl, ok),
           minted' \in Nat, minted <= minted', m \in 1..minted',
           rotating' \in [Procs -> Rotation]
    PROVE  IInv'
<1> DEFINE new == NewVersion(entries[k], m, level, ttl)
           ws  == Append(Deactivated(entries[k]), new)
           mem == [entries EXCEPT ![k] = ws]
<1>0. TypeOK /\ KeyInv(k) /\ entries[k] \in Seq(Version) /\ disk[k] \in Seq(Version)
  BY DEF IInv, TypeOK, Entries
<1>1. /\ new \in Version
      /\ new.version = Len(entries[k]) + 1
      /\ new.material = m
      /\ new.active
  BY <1>0, NewVersionType
<1> HIDE DEF new
<1>2. /\ ws \in Seq(Version)
      /\ Len(ws) = Len(entries[k]) + 1
      /\ DOMAIN ws = 1..(Len(entries[k]) + 1)
      /\ ws[Len(entries[k]) + 1] = new
      /\ \A i \in DOMAIN entries[k] :
           /\ ws[i].version = entries[k][i].version
           /\ ws[i].material = entries[k][i].material
           /\ ws[i].active = FALSE
  BY <1>0, <1>1, AppendedSeq
<1> HIDE DEF ws
<1>2a. \A i \in DOMAIN entries[k] : i \in DOMAIN ws /\ ws[i].material = entries[k][i].material
  <2>1. DOMAIN entries[k] = 1..Len(entries[k]) /\ Len(entries[k]) \in Nat
    BY <1>0
  <2>2. DOMAIN entries[k] \subseteq DOMAIN ws
    BY <1>2, <2>1
  <2>3. QED
    BY <1>2, <2>2
<1>3. /\ phase = "open" /\ phase' = "open" /\ clock' = clock /\ puts' = puts + 1
      /\ entries' = mem
      /\ IF ok THEN onDisk' = TRUE /\ disk' = mem ELSE onDisk' = onDisk /\ disk' = disk
  BY DEF Put, Flush, new, ws
<1>4. IF ok
      THEN /\ acked' = [acked EXCEPT ![k] = @ \cup {<<new.version, m>>}]
           /\ promised' = [promised EXCEPT ![k] = [material |-> m, until |-> new.expiresAt]]
      ELSE /\ promised' = [promised EXCEPT ![k] = NoPromise]
           /\ acked' = acked
  BY DEF Put, new
<1>4a. /\ deleted' = [deleted EXCEPT ![k] = deleted[k] \ {m}]
       /\ retired' = [retired EXCEPT
             ![k] = (retired[k] \cup IF ok THEN Materials(entries[k]) ELSE {}) \ {m}]
  BY DEF Put
<1>5. mem \in Entries /\ mem[k] = ws /\ \A j \in Keys \ {k} : mem[j] = entries[j]
  BY <1>0, <1>2 DEF TypeOK, Entries
<1> HIDE DEF mem
<1>6. Materials(entries[k]) \subseteq 1..minted
  BY <1>0 DEF KeyInv, Sound, Materials
<1>7. TypeOK'
  <2>1. entries' \in Entries /\ disk' \in Entries /\ onDisk' \in BOOLEAN
    BY <1>0, <1>3, <1>5 DEF TypeOK
  <2>2. minted' \in Nat /\ puts' \in Nat /\ clock' \in Nat /\ phase' \in {"down", "open", "closed"}
    BY <1>0, <1>3 DEF TypeOK
  <2>3. acked' \in [Keys -> SUBSET (Nat \X Nat)]
    <3>1. <<new.version, m>> \in Nat \X Nat
      BY <1>1 DEF Version
    <3>2. CASE ok
      <4> DEFINE T == Nat \X Nat
      <4>1. acked \in [Keys -> SUBSET T] /\ acked[k] \cup {<<new.version, m>>} \in SUBSET T
        BY <1>0, <3>1 DEF TypeOK
      <4> HIDE DEF T
      <4>2. acked' = [acked EXCEPT ![k] = acked[k] \cup {<<new.version, m>>}]
        BY <1>4, <3>2
      <4>3. acked' \in [Keys -> SUBSET T]
        BY <4>1, <4>2
      <4>4. QED
        BY <4>3 DEF T
    <3>3. CASE ~ok
      BY <1>0, <1>4, <3>3 DEF TypeOK
    <3>4. QED
      BY <3>2, <3>3
  <2>4. retired' \in [Keys -> SUBSET Nat] /\ deleted' \in [Keys -> SUBSET Nat]
    <3>1. Materials(entries[k]) \subseteq Nat
      BY <1>0, <1>6 DEF TypeOK
    <3>2. /\ (retired[k] \cup IF ok THEN Materials(entries[k]) ELSE {}) \ {m} \in SUBSET Nat
          /\ deleted[k] \ {m} \in SUBSET Nat
      BY <1>0, <3>1 DEF TypeOK
    <3>3. QED
      BY <1>0, <1>4a, <3>2 DEF TypeOK
  <2>5. promised' \in [Keys -> [material: Nat, until: Nat]]
    <3>1. [material |-> m, until |-> new.expiresAt] \in [material: Nat, until: Nat]
      BY <1>1 DEF Version
    <3>2. NoPromise \in [material: Nat, until: Nat]
      BY DEF NoPromise, NoKey
    <3>3. CASE ok
      BY <1>0, <1>4, <3>1, <3>3 DEF TypeOK
    <3>4. CASE ~ok
      BY <1>0, <1>4, <3>2, <3>4 DEF TypeOK
    <3>5. QED
      BY <3>3, <3>4
  <2>6. QED
    BY <2>1, <2>2, <2>3, <2>4, <2>5 DEF TypeOK
<1>8. (~onDisk => disk = Empty)'
  BY <1>3 DEF IInv, Empty
<1>9. ASSUME NEW j \in Keys PROVE KeyInv(j)'
  <2>0. KeyInv(j) /\ minted \in Nat
    BY <1>0 DEF IInv, TypeOK
  <2>1. CASE j = k
    <3>1. \A i \in DOMAIN ws : \/ i \in DOMAIN entries[k]
                               \/ i = Len(entries[k]) + 1 /\ i = Len(ws)
      BY <1>0, <1>2
    <3>2. Disciplined(ws)
      BY <1>0, <1>1, <1>2, <3>1 DEF KeyInv, Sound, Disciplined
    <3>3. /\ deleted'[k] = deleted[k] \ {m}
          /\ retired'[k] = (retired[k] \cup IF ok THEN Materials(entries[k]) ELSE {}) \ {m}
      BY <1>0, <1>4a DEF TypeOK
    <3>4. Sound(entries[k], k)'
      <4>1. \A i \in DOMAIN ws : ws[i].material \in 1..minted'
        BY <1>0, <1>1, <1>2, <2>0, <3>1 DEF KeyInv, Sound
      <4>2. \A i \in DOMAIN ws : ws[i].material \notin deleted'[k]
        BY <1>0, <1>1, <1>2, <3>1, <3>3 DEF KeyInv, Sound
      <4>3. \A i \in DOMAIN ws : ws[i].active => ws[i].material \notin retired'[k]
        BY <1>1, <1>2, <3>1, <3>3
      <4>4. QED
        BY <1>3, <1>5, <3>2, <4>1, <4>2, <4>3 DEF Sound
    <3>5. HistoryBounded(k)'
      BY <1>0, <1>6, <2>0, <3>3 DEF KeyInv, HistoryBounded
    <3>6. \A a \in acked[k] : a[1] \in DOMAIN entries[k] /\ entries[k][a[1]].material = a[2]
      BY <1>0, <1>3 DEF KeyInv, Keeps
    <3>7. CASE ok
      <4>1. disk'[k] = ws /\ entries'[k] = ws
        BY <1>3, <1>5, <3>7
      <4>2. Sound(disk[k], k)'
        BY <3>4, <4>1 DEF Sound
      <4>3. /\ acked'[k] = acked[k] \cup {<<new.version, m>>}
            /\ promised'[k] = [material |-> m, until |-> new.expiresAt]
        BY <1>0, <1>4, <3>7 DEF TypeOK
      <4>4. \A a \in acked'[k] : a[1] \in DOMAIN ws /\ ws[a[1]].material = a[2]
        <5>1. \A a \in acked[k] : a[1] \in DOMAIN ws /\ ws[a[1]].material = a[2]
          BY <1>2a, <3>6
        <5>2. new.version \in DOMAIN ws /\ ws[new.version].material = m
          BY <1>0, <1>1, <1>2
        <5>3. QED
          BY <4>3, <5>1, <5>2
      <4>5. ws # <<>> /\ ws[Len(ws)] = new
        BY <1>0, <1>2
      <4>6. Keeps(disk[k], k)' /\ Keeps(entries[k], k)'
        BY <1>1, <4>1, <4>3, <4>4, <4>5 DEF Keeps
      <4>7. QED
        BY <2>1, <3>4, <3>5, <4>2, <4>6 DEF KeyInv
    <3>8. CASE ~ok
      <4>1. /\ disk'[k] = disk[k] /\ entries'[k] = ws /\ acked'[k] = acked[k]
            /\ promised'[k] = NoPromise
            /\ retired'[k] \subseteq retired[k] /\ deleted'[k] \subseteq deleted[k]
        BY <1>0, <1>3, <1>4, <1>5, <3>3, <3>8 DEF TypeOK
      <4>2. Sound(disk[k], k)'
        BY <1>0, <2>0, <4>1 DEF KeyInv, Sound
      <4>3. Keeps(disk[k], k)'
        BY <1>0, <4>1 DEF KeyInv, Keeps, NoPromise
      <4>4. \A a \in acked[k] : a[1] \in DOMAIN ws /\ ws[a[1]].material = a[2]
        BY <1>2a, <3>6
      <4>5. Keeps(entries[k], k)'
        BY <4>1, <4>4 DEF Keeps, NoPromise
      <4>6. QED
        BY <2>1, <3>4, <3>5, <4>2, <4>3, <4>5 DEF KeyInv
    <3>9. QED
      BY <3>7, <3>8
  <2>2. CASE j # k
    <3>1. /\ entries'[j] = entries[j]
          /\ disk'[j] = entries[j] \/ disk'[j] = disk[j]
          /\ acked'[j] = acked[j] /\ retired'[j] = retired[j] /\ deleted'[j] = deleted[j]
          /\ promised'[j] = promised[j] /\ phase' = phase
      BY <1>0, <1>3, <1>4, <1>4a, <1>5, <2>2 DEF TypeOK
    <3>2. Sound(entries[j], j)' /\ Sound(disk[j], j)'
      BY <2>0, <3>1 DEF KeyInv, Sound
    <3>3. Keeps(entries[j], j)' /\ Keeps(disk[j], j)'
      BY <1>3, <2>0, <3>1 DEF KeyInv, Keeps
    <3>4. HistoryBounded(j)'
      BY <2>0, <3>1 DEF KeyInv, HistoryBounded
    <3>5. QED
      BY <3>2, <3>3, <3>4 DEF KeyInv
  <2>3. QED
    BY <2>1, <2>2
<1>10. QED
  BY <1>7, <1>8, <1>9 DEF IInv
-----------------------------------------------------------------------------
\* Put of a new keypair, whose number nobody has used.
LEMMA PutFreshInv ==
    ASSUME IInv, NEW k \in Keys, NEW level \in Levels, NEW ttl \in Nat, NEW ok \in BOOLEAN,
           PutFresh(k, level, ttl, ok), rotating' \in [Procs -> Rotation]
    PROVE  IInv'
<1>1. minted \in Nat
  BY DEF IInv, TypeOK
<1>2. Put(k, minted + 1, level, ttl, ok) /\ minted' = minted + 1
  BY DEF PutFresh
<1>3. /\ minted + 1 \in Nat /\ minted' \in Nat /\ minted <= minted'
      /\ minted + 1 \in 1..minted'
  BY <1>1, <1>2
<1>4. QED
  BY <1>2, <1>3, PutInv

\* The rotation a goroutine is in, or none, has the type of rotating.
LEMMA RotationTypes ==
    /\ Idle \in Rotation
    /\ \A k \in Keys, level \in Levels :
         [busy |-> TRUE, key |-> k, level |-> level] \in Rotation
BY DEF Rotation, Idle

\* Loading the file, or writing the map over it, gives both the same promises.
LEMMA OpenInv == ASSUME IInv, OpenNew \/ OpenExisting PROVE IInv'
<1>0. TypeOK /\ (~onDisk => disk = Empty) /\ \A k \in Keys : KeyInv(k)
  BY DEF IInv
<1>1. /\ phase = "down" /\ phase' = "open" /\ onDisk' = TRUE
      /\ disk' = disk /\ entries' = disk
      /\ minted' = minted /\ puts' = puts /\ clock' = clock /\ rotating' = rotating
      /\ acked' = acked /\ retired' = retired /\ deleted' = deleted /\ promised' = promised
  BY <1>0 DEF OpenNew, OpenExisting, Flush, Load, history, TypeOK
<1>2. TypeOK'
  BY <1>0, <1>1 DEF TypeOK
<1>3. ASSUME NEW k \in Keys PROVE KeyInv(k)'
  BY <1>0, <1>1 DEF KeyInv, Sound, Keeps, HistoryBounded
<1>4. QED
  BY <1>1, <1>2, <1>3 DEF IInv

LEMMA ExpireInv ==
    ASSUME IInv, NEW k \in Keys, NEW ok \in BOOLEAN, Expire(k, ok)
    PROVE  IInv'
<1> DEFINE ws  == Deactivated(entries[k])
           mem == [entries EXCEPT ![k] = ws]
<1>0. TypeOK /\ (\A j \in Keys : KeyInv(j)) /\ entries[k] \in Seq(Version)
  BY DEF IInv, TypeOK, Entries
<1>1. /\ ws \in Seq(Version)
      /\ Len(ws) = Len(entries[k])
      /\ DOMAIN ws = DOMAIN entries[k]
      /\ \A i \in DOMAIN entries[k] :
           /\ ws[i].version = entries[k][i].version
           /\ ws[i].material = entries[k][i].material
           /\ ws[i].active = FALSE
  BY <1>0, DeactivatedSeq
<1> HIDE DEF ws
<1>2. /\ phase \in {"open", "closed"} /\ phase' = phase /\ clock' = clock
      /\ minted' = minted /\ puts' = puts /\ rotating' = rotating /\ acked' = acked /\ deleted' = deleted
      /\ entries' = mem
      /\ promised' = [promised EXCEPT ![k] = NoPromise]
  BY DEF Expire, ws
<1>3. /\ ok => onDisk' = TRUE /\ disk' = mem
               /\ retired' = [retired EXCEPT ![k] = retired[k] \cup Materials(entries[k])]
      /\ ~ok => onDisk' = onDisk /\ disk' = disk /\ retired' = retired
  BY DEF Expire, Flush, ws
<1>4. mem \in Entries /\ mem[k] = ws /\ \A j \in Keys \ {k} : mem[j] = entries[j]
  BY <1>0, <1>1 DEF TypeOK, Entries
<1> HIDE DEF mem
<1>5. Materials(entries[k]) \subseteq 1..minted /\ Materials(entries[k]) \subseteq Nat
  BY <1>0 DEF KeyInv, Sound, Materials, TypeOK
<1>6. retired' \in [Keys -> SUBSET Nat]
  <2>1. retired \in [Keys -> SUBSET Nat] /\ retired[k] \cup Materials(entries[k]) \in SUBSET Nat
    BY <1>0, <1>5 DEF TypeOK
  <2>2. QED
    BY <1>3, <2>1
<1>7. promised' \in [Keys -> [material: Nat, until: Nat]]
  BY <1>0, <1>2 DEF TypeOK, NoPromise, NoKey
<1>8. TypeOK'
  BY <1>0, <1>2, <1>3, <1>4, <1>6, <1>7 DEF TypeOK
<1>9. (~onDisk => disk = Empty)'
  BY <1>3 DEF IInv, Empty
<1>10. ASSUME NEW j \in Keys PROVE KeyInv(j)'
  <2>0. KeyInv(j)
    BY <1>0
  <2>1. CASE j # k
    <3>1. /\ entries'[j] = entries[j]
          /\ disk'[j] = entries[j] \/ disk'[j] = disk[j]
          /\ acked'[j] = acked[j] /\ retired'[j] = retired[j] /\ deleted'[j] = deleted[j]
          /\ promised'[j] = promised[j] /\ phase' = phase /\ minted' = minted
      BY <1>0, <1>2, <1>3, <1>4, <2>1 DEF TypeOK
    <3>2. QED
      BY <1>2, <2>0, <3>1 DEF KeyInv, Sound, Keeps, HistoryBounded
  <2>2. CASE j = k
    <3>1. /\ entries'[k] = ws /\ minted' = minted /\ deleted'[k] = deleted[k]
          /\ acked'[k] = acked[k] /\ promised'[k] = NoPromise
          /\ disk'[k] = (IF ok THEN ws ELSE disk[k])
          /\ retired'[k] = (IF ok THEN retired[k] \cup Materials(entries[k]) ELSE retired[k])
      BY <1>0, <1>2, <1>3, <1>4 DEF TypeOK
    <3>2. Disciplined(ws)
      BY <1>0, <1>1 DEF KeyInv, Sound, Disciplined
    <3>3. \A i \in DOMAIN ws : ws[i].material \in 1..minted /\ ws[i].material \notin deleted[k]
                                /\ ~ws[i].active
      BY <1>0, <1>1 DEF KeyInv, Sound
    <3>4. Sound(entries[k], k)'
      BY <3>1, <3>2, <3>3 DEF Sound
    <3>5. \A a \in acked[k] : phase # "down" => a[1] \in DOMAIN entries[k] /\ entries[k][a[1]].material = a[2]
      BY <1>0 DEF KeyInv, Keeps
    <3>6. Keeps(entries[k], k)'
      BY <1>1, <1>2, <3>1, <3>5 DEF Keeps, NoPromise
    <3>7. Sound(disk[k], k)' /\ Keeps(disk[k], k)'
      <4>1. CASE ok
        BY <3>1, <3>4, <3>6, <4>1 DEF Sound, Keeps
      <4>2. CASE ~ok
        BY <1>0, <3>1, <4>2 DEF KeyInv, Sound, Keeps, NoPromise
      <4>3. QED
        BY <4>1, <4>2
    <3>8. HistoryBounded(k)'
      BY <1>0, <1>5, <3>1 DEF KeyInv, HistoryBounded
    <3>9. QED
      BY <2>2, <3>4, <3>6, <3>7, <3>8 DEF KeyInv
  <2>3. QED
    BY <2>1, <2>2
<1>11. QED
  BY <1>8, <1>9, <1>10 DEF IInv

\* Delete forgets what the key was owed; its keypairs are nowhere once the
\* flush has succeeded.
LEMMA DeleteInv ==
    ASSUME IInv, NEW k \in Keys, NEW ok \in BOOLEAN, Delete(k, ok)
    PROVE  IInv'
<1> DEFINE mem == [entries EXCEPT ![k] = <<>>]
<1>0. TypeOK /\ (\A j \in Keys : KeyInv(j)) /\ <<>> \in Seq(Version)
  BY DEF IInv
<1>1. /\ phase \in {"open", "closed"} /\ phase' = phase /\ clock' = clock
      /\ minted' = minted /\ puts' = puts /\ rotating' = rotating /\ retired' = retired
      /\ entries' = mem
      /\ promised' = [promised EXCEPT ![k] = NoPromise]
      /\ acked' = [acked EXCEPT ![k] = {}]
  BY DEF Delete
<1>2. /\ ok => onDisk' = TRUE /\ disk' = mem
               /\ deleted' = [deleted EXCEPT ![k] = deleted[k] \cup Materials(entries[k])]
      /\ ~ok => onDisk' = onDisk /\ disk' = disk /\ deleted' = deleted
  BY DEF Delete, Flush
<1>3. mem \in Entries /\ mem[k] = <<>> /\ \A j \in Keys \ {k} : mem[j] = entries[j]
  BY <1>0 DEF TypeOK, Entries
<1> HIDE DEF mem
<1>4. Materials(entries[k]) \subseteq 1..minted /\ Materials(entries[k]) \subseteq Nat
  BY <1>0 DEF KeyInv, Sound, Materials, TypeOK
<1>5. deleted' \in [Keys -> SUBSET Nat]
  <2>1. deleted \in [Keys -> SUBSET Nat] /\ deleted[k] \cup Materials(entries[k]) \in SUBSET Nat
    BY <1>0, <1>4 DEF TypeOK
  <2>2. QED
    BY <1>2, <2>1
<1>6. promised' \in [Keys -> [material: Nat, until: Nat]]
  BY <1>0, <1>1 DEF TypeOK, NoPromise, NoKey
<1>7. acked' \in [Keys -> SUBSET (Nat \X Nat)]
  <2> DEFINE T == Nat \X Nat
  <2>1. acked \in [Keys -> SUBSET T] /\ {} \in SUBSET T
    BY <1>0 DEF TypeOK
  <2> HIDE DEF T
  <2>2. acked' \in [Keys -> SUBSET T]
    BY <1>1, <2>1
  <2>3. QED
    BY <2>2 DEF T
<1>8. TypeOK'
  BY <1>0, <1>1, <1>2, <1>3, <1>5, <1>6, <1>7 DEF TypeOK
<1>9. (~onDisk => disk = Empty)'
  BY <1>2 DEF IInv, Empty
<1>10. ASSUME NEW j \in Keys PROVE KeyInv(j)'
  <2>0. KeyInv(j)
    BY <1>0
  <2>1. CASE j # k
    <3>1. /\ entries'[j] = entries[j]
          /\ disk'[j] = entries[j] \/ disk'[j] = disk[j]
          /\ acked'[j] = acked[j] /\ retired'[j] = retired[j] /\ deleted'[j] = deleted[j]
          /\ promised'[j] = promised[j] /\ phase' = phase /\ minted' = minted
      BY <1>0, <1>1, <1>2, <1>3, <2>1 DEF TypeOK
    <3>2. QED
      BY <1>1, <2>0, <3>1 DEF KeyInv, Sound, Keeps, HistoryBounded
  <2>2. CASE j = k
    <3>1. /\ entries'[k] = <<>> /\ minted' = minted /\ retired'[k] = retired[k]
          /\ acked'[k] = {} /\ promised'[k] = NoPromise
          /\ disk'[k] = (IF ok THEN <<>> ELSE disk[k])
          /\ deleted'[k] = (IF ok THEN deleted[k] \cup Materials(entries[k]) ELSE deleted[k])
      BY <1>0, <1>1, <1>2, <1>3 DEF TypeOK
    <3>2. Sound(entries[k], k)' /\ Keeps(entries[k], k)' /\ Keeps(disk[k], k)'
      BY <3>1 DEF Sound, Keeps, NoPromise, Disciplined
    <3>3. Sound(disk[k], k)'
      BY <1>0, <3>1 DEF KeyInv, Sound, Disciplined
    <3>4. HistoryBounded(k)'
      BY <1>0, <1>4, <3>1 DEF KeyInv, HistoryBounded
    <3>5. QED
      BY <2>2, <3>2, <3>3, <3>4 DEF KeyInv
  <2>3. QED
    BY <2>1, <2>2
<1>11. QED
  BY <1>8, <1>9, <1>10 DEF IInv

\* The lookup of Rotate only records what it read.
LEMMA RotateBeginInv ==
    ASSUME IInv, NEW p \in Procs, NEW k \in Keys, RotateBegin(p, k)
    PROVE  IInv'
<1> DEFINE last == entries[k][Len(entries[k])]
<1>1. TypeOK /\ entries[k] \in Seq(Version) /\ entries[k] # <<>>
  BY DEF IInv, TypeOK, Entries, RotateBegin, Present
<1>2. last \in Version
  BY <1>1
<1>3. [busy |-> TRUE, key |-> k, level |-> last.level] \in Rotation
  BY <1>2, RotationTypes DEF Version
<1>4. rotating' = [rotating EXCEPT
          ![p] = [busy |-> TRUE, key |-> k, level |-> last.level]]
  BY DEF RotateBegin
<1> HIDE DEF last
<1>5. rotating' \in [Procs -> Rotation]
  BY <1>1, <1>3, <1>4 DEF TypeOK
<1>6. UNCHANGED <<phase, entries, onDisk, disk, clock, minted, puts, acked, retired, deleted, promised>>
  BY DEF RotateBegin, store, history
<1>7. QED
  BY <1>5, <1>6 DEF IInv, TypeOK, KeyInv, Sound, Keeps, HistoryBounded

\* Steps that leave the versions and the history alone.
LEMMA IdleInv ==
    ASSUME IInv,
           \/ \E p \in Procs : RotateAbort(p)
           \/ Close
           \/ Tick
           \/ UNCHANGED vars
    PROVE  IInv'
<1>1. UNCHANGED <<entries, onDisk, disk, minted, puts, acked, retired, deleted, promised>>
  BY DEF RotateAbort, Close, Tick, vars, store, history
<1>2. phase' \in {"down", "open", "closed"} /\ (phase' # "down" => phase # "down")
  BY DEF IInv, TypeOK, RotateAbort, Close, Tick, vars, store, history
<1>3. clock' \in Nat
  BY DEF IInv, TypeOK, RotateAbort, Close, Tick, vars, store, history
<1>4. rotating' \in [Procs -> Rotation]
  BY RotationTypes DEF IInv, TypeOK, RotateAbort, Close, Tick, vars, store, history
<1>5. QED
  BY <1>1, <1>2, <1>3, <1>4 DEF IInv, TypeOK, KeyInv, Sound, Keeps, HistoryBounded

\* A crash empties memory, and nothing is asked of memory while it is down.
LEMMA CrashInv == ASSUME IInv, Crash PROVE IInv'
<1>1. <<>> \in Seq(Version)
  OBVIOUS
<1>2. TypeOK'
  BY <1>1, RotationTypes DEF IInv, TypeOK, Crash, Empty, Entries, history
<1>3. ASSUME NEW k \in Keys PROVE KeyInv(k)'
  BY <1>3 DEF IInv, KeyInv, Sound, Keeps, HistoryBounded, Disciplined, Crash, Empty, history
<1>4. QED
  BY <1>2, <1>3 DEF IInv, Crash

LEMMA NextInv == IInv /\ [Next]_vars => IInv'
<1> SUFFICES ASSUME IInv, [Next]_vars PROVE IInv'
  OBVIOUS
<1>1. CASE OpenNew \/ OpenExisting
  BY <1>1, OpenInv
<1>2. ASSUME NEW k \in Keys, NEW level \in Levels, NEW ttl \in TTLs, NEW ok \in BOOLEAN,
             PutKey(k, level, ttl, ok)
      PROVE  IInv'
  <2>1. ttl \in Nat
    BY KeyStoreAssumption
  <2>2. PutFresh(k, level, ttl, ok) /\ rotating' \in [Procs -> Rotation]
    BY <1>2 DEF PutKey, IInv, TypeOK
  <2>3. QED
    BY <2>1, <2>2, PutFreshInv
<1>2a. ASSUME NEW k \in Keys, NEW m \in 1..minted, NEW level \in Levels, NEW ok \in BOOLEAN,
              ImportKey(k, m, level, ok)
       PROVE  IInv'
  <2>1. /\ Put(k, m, level, 0, ok) /\ minted' = minted /\ minted \in Nat
        /\ rotating' \in [Procs -> Rotation]
    BY <1>2a DEF ImportKey, IInv, TypeOK
  <2>2. m \in Nat /\ m \in 1..minted' /\ minted' \in Nat /\ minted <= minted' /\ 0 \in Nat
    BY <2>1
  <2>3. QED
    BY <2>1, <2>2, PutInv
<1>3. ASSUME NEW p \in Procs, NEW k \in Keys, RotateBegin(p, k) PROVE IInv'
  BY <1>3, RotateBeginInv
<1>4. ASSUME NEW p \in Procs, NEW ok \in BOOLEAN, RotateCommit(p, ok) PROVE IInv'
  <2>1. rotating \in [Procs -> Rotation] /\ rotating[p].busy
    BY <1>4 DEF IInv, TypeOK, RotateCommit
  <2>2. rotating[p].key \in Keys /\ rotating[p].level \in Levels
    <3>1. rotating[p] \in Rotation /\ rotating[p] # Idle
      BY <2>1 DEF Idle
    <3>2. rotating[p] \in [busy: {TRUE}, key: Keys, level: Levels]
      BY <3>1 DEF Rotation
    <3>3. QED
      BY <3>2
  <2>3. rotating' \in [Procs -> Rotation]
    BY <1>4, <2>1, RotationTypes DEF RotateCommit
  <2>4. PutFresh(rotating[p].key, rotating[p].level, 0, ok) /\ 0 \in Nat
    BY <1>4 DEF RotateCommit
  <2>5. QED
    BY <2>2, <2>3, <2>4, PutFreshInv
<1>5. ASSUME NEW k \in Keys, NEW ok \in BOOLEAN, Expire(k, ok) PROVE IInv'
  BY <1>5, ExpireInv
<1>6. ASSUME NEW k \in Keys, NEW ok \in BOOLEAN, Delete(k, ok) PROVE IInv'
  BY <1>6, DeleteInv
<1>7. CASE (\E p \in Procs : RotateAbort(p)) \/ Close \/ Tick \/ UNCHANGED vars
  BY <1>7, IdleInv
<1>8. CASE Crash
  BY <1>8, CrashInv
<1>9. QED
  BY <1>1, <1>2, <1>2a, <1>3, <1>4, <1>5, <1>6, <1>7, <1>8 DEF Next

\* The invariant of every behaviour of the store.
THEOREM Invariance == Spec => []IInv
BY InitInv, NextInv, PTL DEF Spec

-----------------------------------------------------------------------------
\* Every variable keeps the shape of the code's type (KeyEntry, KeyVersion).
THEOREM TypeCorrect == Spec => []TypeOK
<1>1. IInv => TypeOK
  BY DEF IInv
<1>2. QED
  BY <1>1, Invariance, PTL

\* Versions stay numbered by place and at most the newest is active.
THEOREM VersionsDisciplined == Spec => []VersionDiscipline
<1>1. IInv => VersionDiscipline
  BY DEF IInv, KeyInv, Sound, VersionDiscipline
<1>2. QED
  BY <1>1, Invariance, PTL

\* What an acknowledged Put, Rotate or Expire took out of use stays out, until
\* it is imported.
THEOREM RetirementIsFinal == Spec => []RetiredStaysInactive
<1>1. IInv => RetiredStaysInactive
  BY DEF IInv, KeyInv, Sound, RetiredStaysInactive, ActiveMaterials
<1>2. QED
  BY <1>1, Invariance, PTL

\* An acknowledged version survives every failure and restart until a Delete.
THEOREM AckedIsDurable == Spec => []AckedVersionsDurable
<1>1. ASSUME IInv PROVE AckedVersionsDurable
  <2> SUFFICES ASSUME NEW k \in Keys, NEW a \in acked[k]
               PROVE  /\ GetVersion(disk[k], a[1]) = a[2]
                      /\ phase # "down" => GetVersion(entries[k], a[1]) = a[2]
    BY DEF AckedVersionsDurable
  <2>1. KeyInv(k) /\ disk[k] \in Seq(Version) /\ entries[k] \in Seq(Version)
    BY <1>1 DEF IInv, TypeOK, Entries
  <2>2. Disciplined(disk[k]) /\ a[1] \in DOMAIN disk[k] /\ disk[k][a[1]].material = a[2]
    BY <2>1 DEF KeyInv, Sound, Keeps
  <2>3. ASSUME phase # "down" PROVE GetVersion(entries[k], a[1]) = a[2]
    <3>1. /\ Disciplined(entries[k])
          /\ a[1] \in DOMAIN entries[k]
          /\ entries[k][a[1]].material = a[2]
      BY <2>1, <2>3 DEF KeyInv, Sound, Keeps
    <3>2. QED
      BY <2>1, <3>1, GetVersionAt
  <2>4. QED
    BY <2>1, <2>2, <2>3, GetVersionAt
<1>2. QED
  BY <1>1, Invariance, PTL

\* Deleted keypairs do not come back, by reload or by reuse of the identifier,
\* until they are imported.
THEOREM DeletionIsFinal == Spec => []DeletedMaterialGone
<1>1. IInv => DeletedMaterialGone
  BY DEF IInv, KeyInv, Sound, DeletedMaterialGone, Materials
<1>2. QED
  BY <1>1, Invariance, PTL

\* GetActive of an open store answers with what the last acknowledged call
\* stored.
THEOREM PromiseIsKept == Spec => []PromisedIsServed
<1>1. ASSUME IInv PROVE PromisedIsServed
  <2> SUFFICES ASSUME NEW k \in Keys, phase = "open", promised[k].material # NoKey
               PROVE  GetActive(k) = IF clock < promised[k].until
                                     THEN promised[k].material ELSE NoKey
    BY DEF PromisedIsServed
  <2> DEFINE vs == entries[k]
  <2>1. vs \in Seq(Version) /\ Disciplined(vs) /\ Keeps(vs, k)
    BY <1>1 DEF IInv, TypeOK, Entries, KeyInv, Sound
  <2> HIDE DEF vs
  <2>2. /\ Len(vs) \in DOMAIN vs
        /\ vs[Len(vs)].material = promised[k].material
        /\ vs[Len(vs)].expiresAt = promised[k].until
        /\ vs[Len(vs)].active
    BY <2>1 DEF Keeps
  <2>3. \A i \in DOMAIN vs : vs[i].active => i = Len(vs)
    BY <2>1 DEF Disciplined
  <2>4. CASE clock < promised[k].until
    <3>1. LiveIndexes(vs) = {Len(vs)}
      BY <2>2, <2>3, <2>4 DEF LiveIndexes
    <3>2. (CHOOSE i \in {Len(vs)} : \A j \in {Len(vs)} : j <= i) = Len(vs)
      BY <2>1
    <3>3. QED
      BY <2>2, <2>4, <3>1, <3>2 DEF GetActive, vs
  <2>5. CASE ~(clock < promised[k].until)
    <3>1. LiveIndexes(vs) = {}
      BY <2>2, <2>3, <2>5 DEF LiveIndexes
    <3>2. QED
      BY <2>5, <3>1 DEF GetActive, vs
  <2>6. QED
    BY <2>4, <2>5
<1>2. QED
  BY <1>1, Invariance, PTL
=============================================================================
