------------------------ MODULE FileReplace_proofs ------------------------
(* What the calls behind "write path.tmp, rename it over path" return and    *)
(* leave alone, for any set of inodes and of values; the certificate         *)
(* authority and the revocation list both rest on these lemmas.              *)
EXTENDS FileReplace, FiniteSetTheorems, TLAPS

Content(Values) == [intact: BOOLEAN, size: Nat, value: Values]

LEMMA FileTyped ==
    ASSUME NEW inodes, NEW Values, NEW f \in FileSystem(inodes, Values)
    PROVE  /\ f.path \in inodes \cup {NoFile} /\ f.tmp \in inodes \cup {NoFile}
           /\ DOMAIN f.data = inodes
           /\ f.data \in [inodes -> Content(Values)]
           /\ \A i \in inodes : f.data[i] \in Content(Values)
           /\ f = [path |-> f.path, tmp |-> f.tmp, data |-> f.data]
BY DEF FileSystem, Content

LEMMA FileMade ==
    ASSUME NEW inodes, NEW Values, NEW d \in [inodes -> Content(Values)],
           NEW p \in inodes \cup {NoFile}, NEW t \in inodes \cup {NoFile}
    PROVE  [path |-> p, tmp |-> t, data |-> d] \in FileSystem(inodes, Values)
BY DEF FileSystem, Content

LEMMA NothingTyped ==
    ASSUME NEW Values, NEW none \in Values
    PROVE  /\ NothingIn(none) \in Content(Values)
           /\ NothingIn(none) = [intact |-> FALSE, size |-> 0, value |-> none]
BY DEF Content, NothingIn

LEMMA EmptyDirTyped ==
    ASSUME NEW inodes, NEW Values, NEW none \in Values
    PROVE  /\ EmptyDir(inodes, none) \in FileSystem(inodes, Values)
           /\ EmptyDir(inodes, none).path = NoFile /\ EmptyDir(inodes, none).tmp = NoFile
           /\ \A i \in inodes : EmptyDir(inodes, none).data[i] = NothingIn(none)
BY NothingTyped, FileMade DEF EmptyDir

\* The garbage collection of the model keeps every inode somebody can reach.
LEMMA CollectedStep ==
    ASSUME NEW inodes, NEW Values, NEW none \in Values,
           NEW f \in FileSystem(inodes, Values), NEW held
    PROVE  LET g == Collected(f, held, none)
           IN  /\ g \in FileSystem(inodes, Values) /\ g.path = f.path /\ g.tmp = f.tmp
               /\ \A i \in inodes :
                     g.data[i] = IF i \in held \cup {f.path, f.tmp} THEN f.data[i]
                                 ELSE NothingIn(none)
<1> DEFINE d == [i \in inodes |-> IF i \in held \cup {f.path, f.tmp} THEN f.data[i]
                                  ELSE NothingIn(none)]
           g == Collected(f, held, none)
<1>1. g = [f EXCEPT !.data = d]
  BY FileTyped DEF Collected
<1>2. g = [path |-> f.path, tmp |-> f.tmp, data |-> d]
  BY <1>1, FileTyped
<1>3. d \in [inodes -> Content(Values)]
  BY FileTyped, NothingTyped
<1> HIDE DEF d
<1>4. g \in FileSystem(inodes, Values)
  BY <1>2, <1>3, FileTyped, FileMade
<1> QED
  BY <1>2, <1>4 DEF d

\* Two inodes more than there are descriptors: one is always free.
LEMMA OneIsFree ==
    ASSUME NEW inodes, NEW held, NEW i, IsFiniteSet(held), IsFiniteSet(inodes),
           Cardinality(inodes) >= Cardinality(held) + 2
    PROVE  \E j \in inodes : j \notin held \cup {i}
<1>1. Cardinality(held) \in Nat /\ Cardinality(inodes) \in Nat
  BY FS_CardinalityType
<1>2. IsFiniteSet(held \cup {i}) /\ Cardinality(held \cup {i}) <= Cardinality(held) + 1
  BY <1>1, FS_AddElement
<1>3. Cardinality(held \cup {i}) \in Nat
  BY <1>2, FS_CardinalityType
<1>4. inodes \subseteq held \cup {i} => Cardinality(inodes) <= Cardinality(held \cup {i})
  BY <1>2, FS_Subset
<1> QED
  BY <1>1, <1>2, <1>3, <1>4

\* open: the descriptor is for the inode under tmp, never for the one under path;
\* a new one is one nobody has open.
LEMMA OpenedStep ==
    ASSUME NEW inodes, NEW Values, NEW none \in Values,
           NEW f \in FileSystem(inodes, Values), NEW held, NoFile \notin inodes,
           \E j \in inodes : j \notin held \cup {f.path}
    PROVE  LET g == OpenedTmp(f, held, none)
           IN  /\ g \in FileSystem(inodes, Values) /\ g.path = f.path /\ g.tmp \in inodes
               /\ f.tmp # NoFile => g.tmp = f.tmp
               /\ f.tmp = NoFile => g.tmp \notin held \cup {f.path}
               /\ \A i \in inodes :
                     g.data[i] = IF i = g.tmp THEN NothingIn(none) ELSE f.data[i]
<1> DEFINE i == IF f.tmp # NoFile THEN f.tmp ELSE FreeInode(f, held)
           g == OpenedTmp(f, held, none)
<1>1. ASSUME f.tmp = NoFile
      PROVE  FreeInode(f, held) \in inodes /\ FreeInode(f, held) \notin held \cup {f.path}
  <2>1. \E j \in inodes : j \notin held \cup {f.path, f.tmp}
    BY <1>1
  <2>2. DOMAIN f.data = inodes
    BY FileTyped
  <2> QED
    BY <2>1, <2>2 DEF FreeInode
<1>2. i \in inodes
  BY <1>1, FileTyped
<1> DEFINE d == [f.data EXCEPT ![i] = NothingIn(none)]
<1>3. g = [path |-> f.path, tmp |-> i, data |-> d]
  <2> DEFINE h == [f EXCEPT !.tmp = i]
  <2>1. h = [path |-> f.path, tmp |-> i, data |-> f.data]
    BY FileTyped
  <2>2. g = [f EXCEPT !.tmp = i, !.data[i] = NothingIn(none)]
    BY DEF OpenedTmp
  <2> HIDE DEF i, g
  <2>3. g = [h EXCEPT !.data = d]
    BY <2>2 DEF FileSystem
  <2> HIDE DEF d, h
  <2> QED
    BY <2>1, <2>3, Z3
<1> HIDE DEF i
<1>4. d \in [inodes -> Content(Values)]
  BY <1>2, NothingTyped, FileTyped
<1>5. \A j \in inodes : d[j] = IF j = i THEN NothingIn(none) ELSE f.data[j]
  BY <1>2, FileTyped
<1> HIDE DEF d
<1>6. g \in FileSystem(inodes, Values)
  BY <1>2, <1>3, <1>4, FileTyped, FileMade
<1>7. f.tmp # NoFile => i = f.tmp
  BY DEF i
<1>8. f.tmp = NoFile => i \notin held \cup {f.path}
  BY <1>1 DEF i
<1> QED
  BY <1>2, <1>3, <1>5, <1>6, <1>7, <1>8

\* write, in full or cut short.
LEMMA WrittenStep ==
    ASSUME NEW inodes, NEW Values, NEW none \in Values,
           NEW f \in FileSystem(inodes, Values), NEW fd \in inodes, NEW v \in Values,
           NEW size \in Nat \ {0}
    PROVE  LET g == WrittenTo(f, fd, v, size, none)
               k == ShortWrittenTo(f, fd, size, none)
           IN  /\ g \in FileSystem(inodes, Values) /\ g.path = f.path /\ g.tmp = f.tmp
               /\ \A i \in inodes :
                     g.data[i] = IF i = fd THEN Overwritten(f.data[i], v, size, none) ELSE f.data[i]
               /\ k \in FileSystem(inodes, Values) /\ k.path = f.path /\ k.tmp = f.tmp
               /\ \A i \in inodes :
                     k.data[i] = IF i = fd THEN CutShort(f.data[i], size, none) ELSE f.data[i]
<1>1. f.data[fd] \in Content(Values)
  BY FileTyped
<1>2. Overwritten(f.data[fd], v, size, none) \in Content(Values)
  BY <1>1 DEF Overwritten, Content
<1>3. CutShort(f.data[fd], size, none) \in Content(Values)
  BY <1>1 DEF CutShort, Content
<1>4. ASSUME NEW x \in Content(Values)
      PROVE  LET g == [f EXCEPT !.data[fd] = x]
             IN  /\ g \in FileSystem(inodes, Values) /\ g.path = f.path /\ g.tmp = f.tmp
                 /\ \A i \in inodes : g.data[i] = IF i = fd THEN x ELSE f.data[i]
  <2> DEFINE d == [f.data EXCEPT ![fd] = x]
             g == [f EXCEPT !.data[fd] = x]
  <2>1. g = [path |-> f.path, tmp |-> f.tmp, data |-> d]
    BY FileTyped
  <2>2. d \in [inodes -> Content(Values)]
    BY FileTyped
  <2>3. \A i \in inodes : d[i] = IF i = fd THEN x ELSE f.data[i]
    BY FileTyped
  <2> HIDE DEF d
  <2>4. g \in FileSystem(inodes, Values)
    BY <2>1, <2>2, FileTyped, FileMade
  <2> QED
    BY <2>1, <2>3, <2>4
<1>5. /\ WrittenTo(f, fd, v, size, none)
             = [f EXCEPT !.data[fd] = Overwritten(f.data[fd], v, size, none)]
      /\ ShortWrittenTo(f, fd, size, none)
             = [f EXCEPT !.data[fd] = CutShort(f.data[fd], size, none)]
  BY DEF WrittenTo, ShortWrittenTo
<1> DEFINE g == WrittenTo(f, fd, v, size, none)
           k == ShortWrittenTo(f, fd, size, none)
<1>6. /\ g \in FileSystem(inodes, Values) /\ g.path = f.path /\ g.tmp = f.tmp
      /\ \A i \in inodes :
            g.data[i] = IF i = fd THEN Overwritten(f.data[i], v, size, none) ELSE f.data[i]
  BY <1>2, <1>4, <1>5
<1>7. /\ k \in FileSystem(inodes, Values) /\ k.path = f.path /\ k.tmp = f.tmp
      /\ \A i \in inodes : k.data[i] = IF i = fd THEN CutShort(f.data[i], size, none) ELSE f.data[i]
  BY <1>3, <1>4, <1>5
<1> QED
  BY <1>6, <1>7

LEMMA TwoFields ==
    ASSUME NEW inodes, NEW Values, NEW f \in FileSystem(inodes, Values), NEW q, NEW r
    PROVE  [f EXCEPT !.path = q, !.tmp = r] = [path |-> q, tmp |-> r, data |-> f.data]
<1> DEFINE h == [f EXCEPT !.path = q]
<1>1. h = [path |-> q, tmp |-> f.tmp, data |-> f.data]
  BY FileTyped
<1>2. [f EXCEPT !.path = q, !.tmp = r] = [h EXCEPT !.tmp = r]
  BY DEF FileSystem
<1> HIDE DEF h
<1> QED
  BY <1>1, <1>2, Z3

\* rename and remove.
LEMMA RenamedStep ==
    ASSUME NEW inodes, NEW Values, NEW f \in FileSystem(inodes, Values)
    PROVE  /\ Renamed(f) \in FileSystem(inodes, Values)
           /\ Renamed(f).path = f.tmp /\ Renamed(f).tmp = NoFile /\ Renamed(f).data = f.data
           /\ TmpRemoved(f) \in FileSystem(inodes, Values)
           /\ TmpRemoved(f).path = f.path /\ TmpRemoved(f).tmp = NoFile
           /\ TmpRemoved(f).data = f.data
<1>1. Renamed(f) = [path |-> f.tmp, tmp |-> NoFile, data |-> f.data]
  BY TwoFields DEF Renamed
<1>2. TmpRemoved(f) = [path |-> f.path, tmp |-> NoFile, data |-> f.data]
  BY FileTyped DEF TmpRemoved
<1> QED
  BY <1>1, <1>2, FileTyped, FileMade
=============================================================================
