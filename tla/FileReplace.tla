---------------------------- MODULE FileReplace ----------------------------
(***************************************************************************)
(* The directory entries and inodes behind "write path.tmp, rename it over *)
(* path", the way internal/auth and internal/castore replace their files.  *)
(* Every writer uses the SAME temporary name, so what a rename publishes   *)
(* depends on who else has the temporary file open.                        *)
(*                                                                         *)
(* The file system is a record                                             *)
(*    path, tmp : the inode under each name, or NoFile                     *)
(*    data      : the content of each inode                                *)
(* A content remembers the bytes it holds as: the value whose encoding it  *)
(* starts with, its size, and whether it is intact, that is, exactly one   *)
(* encoding and nothing else.  A process crash loses no completed call;    *)
(* power loss is not modelled (the code never syncs).                      *)
(***************************************************************************)
EXTENDS Integers, FiniteSets

NoFile == 0

\* open(O_TRUNC) leaves zero bytes, which neither reader accepts.
NothingIn(none) == [intact |-> FALSE, size |-> 0, value |-> none]

\* write() at offset 0 through a file descriptor of one's own: a longer
\* content written meanwhile through another descriptor keeps its tail.
Overwritten(old, value, size, none) ==
    IF old.size <= size
    THEN [intact |-> TRUE, size |-> size, value |-> value]
    ELSE [intact |-> FALSE, size |-> old.size, value |-> none]

\* A write that stops short (no space left): some bytes, never an encoding.
CutShort(old, size, none) ==
    [intact |-> FALSE, size |-> IF old.size < size THEN size - 1 ELSE old.size, value |-> none]

-----------------------------------------------------------------------------
EmptyDir(inodes, none) ==
    [path |-> NoFile, tmp |-> NoFile, data |-> [i \in inodes |-> NothingIn(none)]]

\* An inode that has neither a name nor an open descriptor.
FreeInode(fs, held) ==
    CHOOSE i \in DOMAIN fs.data : i \notin held \cup {fs.path, fs.tmp}

\* os.WriteFile, first half: open the temporary name with O_CREATE|O_TRUNC.
\* The descriptor the caller gets is for the inode under tmp afterwards.
OpenedInPlace(fs, held, none) ==
    LET i == IF fs.path # NoFile THEN fs.path ELSE FreeInode(fs, held)
    IN  [fs EXCEPT !.tmp = i, !.data[i] = NothingIn(none)]
OpenedTmp(fs, held, none) ==
    LET i == IF fs.tmp # NoFile THEN fs.tmp ELSE FreeInode(fs, held)
    IN  [fs EXCEPT !.tmp = i, !.data[i] = NothingIn(none)]

\* os.WriteFile, second half, through descriptor fd.
WrittenTo(fs, fd, value, size, none) ==
    [fs EXCEPT !.data[fd] = Overwritten(@, value, size, none)]
ShortWrittenTo(fs, fd, size, none) ==
    [fs EXCEPT !.data[fd] = CutShort(@, size, none)]

\* os.Rename(tmp, path) fails when somebody else has renamed tmp away.
CanRename(fs) == fs.tmp # NoFile
Renamed(fs)   == [fs EXCEPT !.path = fs.tmp, !.tmp = NoFile]

\* os.Remove(tmp), which nobody checks.
TmpRemoved(fs) == [fs EXCEPT !.tmp = NoFile]

\* What a reader of path finds.
Published(fs)  == fs.data[fs.path]
NoFileYet(fs)  == fs.path = NoFile
Readable(fs)   == fs.path # NoFile => Published(fs).intact

\* The same directory with the inodes nobody can reach any more wiped, so that
\* they do not distinguish states.
Collected(fs, held, none) ==
    [fs EXCEPT !.data = [i \in DOMAIN @ |->
        IF i \in held \cup {fs.path, fs.tmp} THEN @[i] ELSE NothingIn(none)]]

FileSystem(inodes, Values) ==
    [path: inodes \cup {NoFile}, tmp: inodes \cup {NoFile},
     data: [inodes -> [intact: BOOLEAN, size: Nat, value: Values]]]
=============================================================================
