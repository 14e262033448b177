------------------------------ MODULE KeyStore ------------------------------
(***************************************************************************)
(* The encrypted key store of internal/keystore, with the requests the API *)
(* server makes of it.  One RWMutex guards the map of entries; every       *)
(* mutation changes the map first and then rewrites the whole file under   *)
(* the same lock, so Put, Expire and Delete are single steps that end with *)
(* a flush that may fail.  Rotate is not: it looks the key up, releases    *)
(* the lock, generates a keypair and only then calls Put.                  *)
(*                                                                         *)
(* Key material is abstracted to the number of the keypair (1, 2, ...), so *)
(* equal numbers mean equal keys.  /keys/export hands out any keypair that *)
(* is active, as every keypair is right after the Put that stored it, so   *)
(* /keys/import may later bring back any keypair, under any identifier.    *)
(* An entry without versions stands for an absent key: Put appends in the  *)
(* step that creates an entry, and nothing ever shortens one, so the code  *)
(* has no empty entries.                                                   *)
(***************************************************************************)
EXTENDS Integers, Sequences, FiniteSets

CONSTANTS
    Keys,        \* key identifiers
    Procs,       \* request goroutines that may be inside Rotate
    Levels,      \* ML-KEM parameter sets
    TTLs,        \* ttl arguments a caller passes to Put; 0 asks for the default
    DefaultTTL,  \* defaultTTL
    MaxPuts,     \* bound: calls of Put in a behaviour, those of imports and rotations included
    MaxClock     \* bound: the clock stops here

ASSUME KeyStoreAssumption ==
    /\ TTLs \subseteq Nat
    /\ DefaultTTL \in Nat \ {0}
    /\ MaxPuts \in Nat
    /\ MaxClock \in Nat

VARIABLES
    phase,       \* "down": no process; "open"; "closed": after Store.Close
    entries,     \* s.data.Entries: the versions of each key, oldest first
    onDisk,      \* does the file exist?
    disk,        \* the entries in the file (none while there is no file)
    clock,       \* time.Now
    minted,      \* keypairs generated so far
    puts,        \* calls of Put so far (only for the bound)
    rotating,    \* per goroutine: the rotation between its lookup and its Put
    \* History, of what callers were told (no part of the code's state):
    acked,       \* per key: versions whose Put or Rotate returned nil since the last Delete call
    retired,     \* per key: keypairs an acknowledged call superseded or expired, not imported since
    deleted,     \* per key: keypairs an acknowledged Delete removed, not imported since
    promised     \* per key: what the last call acknowledged, if nothing was called since

store   == <<phase, entries, onDisk, disk>>
history == <<acked, retired, deleted, promised>>
vars    == <<store, clock, minted, puts, rotating, history>>

-----------------------------------------------------------------------------
NoKey    == 0
Panicked == -1
Idle     == [busy |-> FALSE]
NoPromise == [material |-> NoKey, until |-> 0]
Empty    == [k \in Keys |-> <<>>]

Version  == [version: Nat \ {0}, material: Nat, level: Levels, expiresAt: Nat, active: BOOLEAN]
Entries  == [Keys -> Seq(Version)]

Present(k)     == entries[k] # <<>>
Materials(vs)  == {vs[i].material : i \in DOMAIN vs}

\* keystore.go: "if ttl <= 0 { ttl = defaultTTL }"
EffectiveTTL(ttl) == IF ttl <= 0 THEN DefaultTTL ELSE ttl

\* The number of the next version; numbered from 0, it would be Len(vs).
NextVersionFromZero(vs) == Len(vs)
NextVersion(vs) == Len(vs) + 1

\* Put and Expire clear the active flag of every version they find.
KeepActive(vs)  == vs
Deactivated(vs) == [i \in DOMAIN vs |-> [vs[i] EXCEPT !.active = FALSE]]

NewVersion(vs, material, level, ttl) ==
    [version |-> NextVersion(vs), material |-> material, level |-> level,
     expiresAt |-> clock + EffectiveTTL(ttl), active |-> TRUE]

\* GetActive: the newest version that is active and has not expired.  It is
\* decrypted before it is returned, which panics once Close dropped the cipher.
LiveIndexes(vs) == {i \in DOMAIN vs : vs[i].active /\ clock < vs[i].expiresAt}
GetActiveIgnoringFlag(k) ==
    LET live == {i \in DOMAIN entries[k] : clock < entries[k][i].expiresAt}
    IN  IF live = {} THEN NoKey
        ELSE entries[k][CHOOSE i \in live : \A j \in live : i <= j].material
GetActive(k) ==
    LET live == LiveIndexes(entries[k])
    IN  IF live = {} THEN NoKey
        ELSE IF phase = "open" THEN entries[k][CHOOSE i \in live : \A j \in live : j <= i].material
        ELSE Panicked

\* GetVersion finds the version with a given number in the entry's versions.
GetVersion(vs, n) ==
    IF \E i \in DOMAIN vs : vs[i].version = n
    THEN vs[CHOOSE i \in DOMAIN vs : vs[i].version = n].material
    ELSE NoKey

\* flush writes path.tmp and renames it over path, all under the lock.  When
\* either call fails the file keeps its old content and the caller gets the
\* error, but the map in memory has already changed.
FlushSkipped(mem, ok) == UNCHANGED <<onDisk, disk>>
Flush(mem, ok) ==
    IF ok THEN onDisk' = TRUE /\ disk' = mem
          ELSE UNCHANGED <<onDisk, disk>>

\* load replaces the map by the file's.
LoadLosesFlags(file) == [k \in Keys |-> Deactivated(file[k])]
Load(file) == file

-----------------------------------------------------------------------------
Init ==
    /\ phase = "down"
    /\ entries = Empty
    /\ onDisk = FALSE
    /\ disk = Empty
    /\ clock = 0
    /\ minted = 0
    /\ puts = 0
    /\ rotating = [p \in Procs |-> Idle]
    /\ acked = [k \in Keys |-> {}]
    /\ retired = [k \in Keys |-> {}]
    /\ deleted = [k \in Keys |-> {}]
    /\ promised = [k \in Keys |-> NoPromise]

\* openWithKey when there is no file: an empty store is flushed at once, and a
\* failed flush fails the start, leaving the process down.
OpenNew ==
    /\ phase = "down" /\ ~onDisk
    /\ phase' = "open"
    /\ entries' = Empty
    /\ Flush(Empty, TRUE)
    /\ UNCHANGED <<clock, minted, puts, rotating, history>>

\* openWithKey when the file is there.
OpenExisting ==
    /\ phase = "down" /\ onDisk
    /\ phase' = "open"
    /\ entries' = Load(disk)
    /\ UNCHANGED <<onDisk, disk, clock, minted, puts, rotating, history>>

\* The body of Put, shared by /keys/generate, /keys/import,
\* /keystore/generate and Rotate; ok says whether the flush succeeded.
Put(k, material, level, ttl, ok) ==
    LET new == NewVersion(entries[k], material, level, ttl)
        mem == [entries EXCEPT ![k] = Append(Deactivated(@), new)]
    IN  /\ phase = "open"     \* after Close encrypt panics: s.gcm is nil
        /\ puts < MaxPuts
        /\ puts' = puts + 1
        /\ entries' = mem
        /\ Flush(mem, ok)
        /\ UNCHANGED <<phase, clock>>
        /\ deleted' = [deleted EXCEPT ![k] = @ \ {material}]
        /\ retired' = [retired EXCEPT
              ![k] = (@ \cup IF ok THEN Materials(entries[k]) ELSE {}) \ {material}]
        /\ IF ok
           THEN /\ acked' = [acked EXCEPT ![k] = @ \cup {<<new.version, material>>}]
                /\ promised' = [promised EXCEPT
                                  ![k] = [material |-> material, until |-> new.expiresAt]]
           ELSE /\ promised' = [promised EXCEPT ![k] = NoPromise]
                /\ UNCHANGED acked

\* Put of the keypair that was just generated.
PutFresh(k, level, ttl, ok) ==
    /\ minted' = minted + 1
    /\ Put(k, minted + 1, level, ttl, ok)

\* /keys/generate, /keystore/generate, and imports of a keypair made elsewhere.
PutKey(k, level, ttl, ok) == PutFresh(k, level, ttl, ok) /\ UNCHANGED rotating

\* /keys/import of an envelope that /keys/export once made of keypair m: from
\* then on m is in use again, whether or not the flush succeeds.
ImportKey(k, m, level, ok) ==
    /\ Put(k, m, level, 0, ok)
    /\ UNCHANGED <<minted, rotating>>

\* Rotate, first part: the lookup under the read lock, and the level of the
\* newest version, which the code reads after releasing it.  The lookup has no
\* effect, so it is placed right before the read of the level.
RotateBegin(p, k) ==
    /\ phase = "open"
    /\ ~rotating[p].busy
    /\ Present(k)
    /\ LET last == entries[k][Len(entries[k])]
       IN  rotating' = [rotating EXCEPT
                ![p] = [busy |-> TRUE, key |-> k, level |-> last.level]]
    /\ UNCHANGED <<store, clock, minted, puts, history>>

\* Rotate, second part: the keypair is there, Put stores it.  Put creates the
\* entry when it is missing, whether or not it was there at the lookup.
RotateCommit(p, ok) ==
    /\ rotating[p].busy
    /\ PutFresh(rotating[p].key, rotating[p].level, 0, ok)
    /\ rotating' = [rotating EXCEPT ![p] = Idle]

\* Key generation fails, the store was closed meanwhile, or the unsynchronised
\* read of the versions panics and net/http recovers the request.
RotateAbort(p) ==
    /\ rotating[p].busy
    /\ rotating' = [rotating EXCEPT ![p] = Idle]
    /\ UNCHANGED <<store, clock, minted, puts, history>>

\* Expire deactivates every version.  It needs no cipher, so it still works
\* after Close.
Expire(k, ok) ==
    LET mem == [entries EXCEPT ![k] = Deactivated(@)]
    IN  /\ phase \in {"open", "closed"}
        /\ Present(k)
        /\ entries' = mem
        /\ Flush(mem, ok)
        /\ retired' = IF ok THEN [retired EXCEPT ![k] = @ \cup Materials(entries[k])]
                            ELSE retired
        /\ promised' = [promised EXCEPT ![k] = NoPromise]
        /\ UNCHANGED <<phase, clock, minted, puts, rotating, acked, deleted>>

\* Delete drops the entry.  Whether or not the flush succeeds, the call
\* withdraws the promise to keep the versions.
DeleteUnflushed(k, ok) ==
    /\ phase \in {"open", "closed"}
    /\ Present(k)
    /\ entries' = [entries EXCEPT ![k] = <<>>]
    /\ UNCHANGED <<onDisk, disk>>
    /\ deleted' = IF ok THEN [deleted EXCEPT ![k] = @ \cup Materials(entries[k])]
                        ELSE deleted
    /\ acked' = [acked EXCEPT ![k] = {}]
    /\ promised' = [promised EXCEPT ![k] = NoPromise]
    /\ UNCHANGED <<phase, clock, minted, puts, rotating, retired>>
Delete(k, ok) ==
    LET mem == [entries EXCEPT ![k] = <<>>]
    IN  /\ phase \in {"open", "closed"}
        /\ Present(k)
        /\ entries' = mem
        /\ Flush(mem, ok)
        /\ deleted' = IF ok THEN [deleted EXCEPT ![k] = @ \cup Materials(entries[k])]
                            ELSE deleted
        /\ acked' = [acked EXCEPT ![k] = {}]
        /\ promised' = [promised EXCEPT ![k] = NoPromise]
        /\ UNCHANGED <<phase, clock, minted, puts, rotating, retired>>

\* Store.Close zeroes the master key and drops the cipher; it writes nothing.
Close ==
    /\ phase = "open"
    /\ phase' = "closed"
    /\ UNCHANGED <<entries, onDisk, disk, clock, minted, puts, rotating, history>>

\* The process ends, after Close or without it: memory and the requests in
\* flight are gone.  A crash inside flush comes before the rename, so it is a
\* failed flush followed by this step.
Crash ==
    /\ phase # "down"
    /\ phase' = "down"
    /\ entries' = Empty
    /\ rotating' = [p \in Procs |-> Idle]
    /\ UNCHANGED <<onDisk, disk, clock, minted, puts, history>>

Tick ==
    /\ clock < MaxClock
    /\ clock' = clock + 1
    /\ UNCHANGED <<store, minted, puts, rotating, history>>

Next ==
    \/ OpenNew
    \/ OpenExisting
    \/ \E k \in Keys, level \in Levels, ttl \in TTLs, ok \in BOOLEAN : PutKey(k, level, ttl, ok)
    \/ \E k \in Keys, m \in 1..minted, level \in Levels, ok \in BOOLEAN : ImportKey(k, m, level, ok)
    \/ \E p \in Procs, k \in Keys : RotateBegin(p, k)
    \/ \E p \in Procs, ok \in BOOLEAN : RotateCommit(p, ok)
    \/ \E p \in Procs : RotateAbort(p)
    \/ \E k \in Keys, ok \in BOOLEAN : Expire(k, ok)
    \/ \E k \in Keys, ok \in BOOLEAN : Delete(k, ok)
    \/ Close
    \/ Crash
    \/ Tick

Spec == Init /\ [][Next]_vars

-----------------------------------------------------------------------------
Rotation == {Idle} \cup [busy: {TRUE}, key: Keys, level: Levels]

\* The store's variables have the shapes of the code's types: what is held in
\* memory and in the file are both maps from key to a list of versions
\* numbered from 1.
TypeOK ==
    /\ phase \in {"down", "open", "closed"}
    /\ entries \in Entries
    /\ onDisk \in BOOLEAN
    /\ disk \in Entries
    /\ clock \in Nat
    /\ minted \in Nat
    /\ puts \in Nat
    /\ rotating \in [Procs -> Rotation]
    /\ acked \in [Keys -> SUBSET (Nat \X Nat)]
    /\ retired \in [Keys -> SUBSET Nat]
    /\ deleted \in [Keys -> SUBSET Nat]
    /\ promised \in [Keys -> [material: Nat, until: Nat]]

Disciplined(vs) ==
    \A i \in DOMAIN vs : vs[i].version = i /\ (vs[i].active => i = Len(vs))

\* In memory and in the file, the versions of a key are numbered by their
\* place and none but the newest is ever active, whatever calls interleave,
\* fail or are cut off by a restart (Put, Rotate and Expire).
VersionDiscipline ==
    \A k \in Keys : Disciplined(entries[k]) /\ Disciplined(disk[k])

ActiveMaterials(vs) == {vs[i].material : i \in {j \in DOMAIN vs : vs[j].active}}

\* A keypair that an acknowledged Put, Rotate or Expire took out of use is not
\* active again under that key, not even by reloading the file after a crash
\* between failed flushes of later calls, until /keys/import brings that very
\* keypair back (its envelope stays good whatever happened to the version).
RetiredStaysInactive ==
    \A k \in Keys :
        retired[k] \cap (ActiveMaterials(entries[k]) \cup ActiveMaterials(disk[k])) = {}

\* A version whose Put, import or Rotate was acknowledged stays under the
\* number it was given, in the file and (while a process runs) in the map that
\* GetVersion searches, until someone calls Delete: "old version kept for
\* decryption".  After Close the map still holds it, but GetVersion panics.
AckedVersionsDurable ==
    \A k \in Keys : \A a \in acked[k] :
        /\ GetVersion(disk[k], a[1]) = a[2]
        /\ phase # "down" => GetVersion(entries[k], a[1]) = a[2]

\* A keypair that an acknowledged Delete removed is nowhere under that key any
\* more, also after the identifier is used again or the process restarts,
\* until /keys/import stores that very keypair from an envelope made before.
DeletedMaterialGone ==
    \A k \in Keys :
        deleted[k] \cap (Materials(entries[k]) \cup Materials(disk[k])) = {}

\* While the last call for a key is an acknowledged Put, import or Rotate and
\* the store is open, GetActive answers with exactly the keypair that call
\* stored, until its expiry and not beyond, across restarts and whatever
\* happens to other keys.  After Close it panics and answers nothing.
PromisedIsServed ==
    \A k \in Keys :
        phase = "open" /\ promised[k].material # NoKey
            => GetActive(k) = IF clock < promised[k].until THEN promised[k].material ELSE NoKey
=============================================================================
