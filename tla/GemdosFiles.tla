----------------------------- MODULE GemdosFiles -----------------------------
(***************************************************************************)
(* The open-file table of the GEMDOS translator (TranslatedDisk, file      *)
(* translateddisk_gemdos.cpp): Fcreate, Fopen, Fclose, Fread, Fwrite,      *)
(* Fseek, Ftell, Fdatime, the Fread/Fwrite data count, and the name        *)
(* operations Fdelete and Frename that act on the same host files.         *)
(*                                                                         *)
(* The host filesystem is modelled the way POSIX keeps it: a name refers   *)
(* to an inode, an open FILE* keeps its inode after the name is unlinked   *)
(* or renamed, and a stream has its own position.  Guest paths are model   *)
(* values; createHostPath succeeds exactly for Paths and isAtariPathRead-  *)
(* Only holds exactly for ReadOnlyPaths.  Transport failures of recvData   *)
(* are a nondeterministic early exit with EINTRN, as in every handler.     *)
(***************************************************************************)
EXTENDS Integers, FiniteSets

CONSTANTS
    MAX_FILES,      \* size of the files[] table
    Paths,          \* guest paths that translate to a host path
    ForeignPaths,   \* guest paths createHostPath rejects (not ours)
    ReadOnlyPaths,  \* paths on a drive configured read-only
    InitLen,        \* [Paths -> sizes] of the files present at start, or NONE
    Counts,         \* byte counts the guest passes to Fread / Fwrite
    ReadSeeks,      \* signed seek-offset bytes of Fread
    SeekOffsets,    \* offsets of Fseek
    Times,          \* date/time values Fdatime may set
    MaxLen,         \* bound: largest host file size explored
    MaxInodes,      \* bound: inodes the host may allocate
    NONE

ASSUME /\ MAX_FILES \in Nat \ {0} /\ ReadOnlyPaths \subseteq Paths
       /\ Paths \cap ForeignPaths = {}
       /\ InitLen \in [Paths -> (0..MaxLen) \cup {NONE}]

\* status codes (gemdos_errno.h, values as the guest sees them)
E_OK == 0
EINTRN == -65
EFILNF == -33
EACCDN == -36
ENHNDL == -35
EIHNDL == -37
E_NOTHANDLED == 32
RW_ALL_TRANSFERED == 0
RW_PARTIAL_TRANSFER == 1

MAX_RW_BYTES == 254 * 512
Slots == 0 .. (MAX_FILES - 1)
Inodes == 1 .. MaxInodes
GuestHandles == 0 .. MAX_FILES          \* the table's handles and one it never gives out
AllPaths == Paths \cup ForeignPaths
OpenModes == 0 .. 3                     \* Fopen mode & 0x07 (3..7 behave alike)
SeekModes == 0 .. 3                     \* Fseek mode; 3 stands for any unknown mode

VARIABLES
    files,      \* files[MAX_FILES]: stream (NONE = hostHandle NULL), atariHandle, hostPath, lastDataCount
    names,      \* host directory entries: path -> inode or NONE
    size,       \* inode -> file length
    mtime,      \* inode -> modification time
    nextIno,    \* next inode the host allocates
    status      \* status byte of the last command

vars == <<files, names, size, mtime, nextIno, status>>

\* bound on stream positions; a stream may still sit past the end of a shorter file
MaxPos == MaxLen
Stream == [ino : Inodes, pos : 0..MaxPos, writable : BOOLEAN]
FreeSlot == [stream |-> NONE, atariHandle |-> EIHNDL, hostPath |-> NONE, lastDataCount |-> 0]

TypeOK ==
    /\ files \in [Slots -> [stream : Stream \cup {NONE}, atariHandle : Slots \cup {EIHNDL},
                            hostPath : Paths \cup {NONE}, lastDataCount : 0..MaxLen]]
    /\ names \in [Paths -> Inodes \cup {NONE}]
    /\ size \in [Inodes -> 0..MaxLen]
    /\ mtime \in [Inodes -> Times]
    /\ nextIno \in 1..MaxInodes + 1

MinOf(a, b) == IF a < b THEN a ELSE b
MaxOf(a, b) == IF a > b THEN a ELSE b
PadTo16(c) == IF c % 16 # 0 THEN c + (16 - (c % 16)) ELSE c
Lowest(S) == CHOOSE i \in S : \A j \in S : i <= j

\* files present at start get inodes 1, 2, ... in a fixed order of Paths
InitPaths == {p \in Paths : InitLen[p] # NONE}
InitIno == CHOOSE f \in [InitPaths -> 1..Cardinality(InitPaths)] :
               \A p, q \in InitPaths : p # q => f[p] # f[q]

Init ==
    /\ files = [i \in Slots |-> FreeSlot]
    /\ names = [p \in Paths |-> IF p \in InitPaths THEN InitIno[p] ELSE NONE]
    /\ size = [n \in Inodes |-> IF \E p \in InitPaths : InitIno[p] = n
                                 THEN InitLen[CHOOSE p \in InitPaths : InitIno[p] = n] ELSE 0]
    /\ mtime = [n \in Inodes |-> CHOOSE t \in Times : TRUE]
    /\ nextIno = Cardinality(InitPaths) + 1
    /\ status = E_OK

\* a handler that ends by setting a status and changes nothing else
Reply(s) == status' = s /\ UNCHANGED <<files, names, size, mtime, nextIno>>

\* findEmptyFileSlot: first slot whose host handle is NULL, or -1
FindEmptyFileSlot ==
    IF \E i \in Slots : files[i].stream = NONE
    THEN Lowest({i \in Slots : files[i].stream = NONE}) ELSE -1

\* findFileHandleSlot: first slot whose atariHandle equals the handle, or -1
FindFileHandleSlot(h) ==
    IF \E i \in Slots : files[i].atariHandle = h
    THEN Lowest({i \in Slots : files[i].atariHandle = h}) ELSE -1

\* store an opened stream in slot i and return its handle (the slot index)
StoreOpened(i, p, ino, w) ==
    /\ files' = [files EXCEPT ![i] = [stream |-> [ino |-> ino, pos |-> 0, writable |-> w],
                                      atariHandle |-> i, hostPath |-> p, lastDataCount |-> @.lastDataCount]]
    /\ status' = i

\* fopen(hostName, "wb+"): create an empty file, or truncate the existing one
CreateOrTruncate(p) ==
    IF names[p] = NONE
    THEN /\ nextIno <= MaxInodes
         /\ names' = [names EXCEPT ![p] = nextIno]
         /\ size' = [size EXCEPT ![nextIno] = 0]
         /\ nextIno' = nextIno + 1
    ELSE /\ size' = [size EXCEPT ![names[p]] = 0]
         /\ UNCHANGED <<names, nextIno>>

\* onFcreate (recvData, createHostPath, read-only check, slot, "wb+", fclose, "rb+")
Fcreate(p) ==
    LET i == FindEmptyFileSlot IN
    \/ Reply(EINTRN)                                          \* recvData failed
    \/ p \in ForeignPaths /\ Reply(E_NOTHANDLED)
    \/ p \in ReadOnlyPaths /\ Reply(EACCDN)
    \/ p \in Paths \ ReadOnlyPaths /\ i = -1 /\ Reply(ENHNDL)
    \/ p \in Paths \ ReadOnlyPaths /\ i # -1 /\ Reply(EACCDN)  \* fopen "wb+" failed
    \/ /\ p \in Paths \ ReadOnlyPaths /\ i # -1
       /\ CreateOrTruncate(p)
       /\ UNCHANGED mtime
       /\ \/ status' = EACCDN /\ UNCHANGED files  \* reopen "rb+" failed
          \/ StoreOpened(i, p, names'[p], TRUE)

\* onFopen: modes 1 and 2 open "rb+", every other mode "rb" (just read)
Fopen(p, mode) ==
    LET i == FindEmptyFileSlot
        justRead == mode \notin {1, 2}
        checked == p \in Paths /\ ~(mode # 0 /\ p \in ReadOnlyPaths) /\ i # -1
    IN
    \/ Reply(EINTRN)
    \/ p \in ForeignPaths /\ Reply(E_NOTHANDLED)
    \/ p \in Paths /\ mode # 0 /\ p \in ReadOnlyPaths /\ Reply(EACCDN)
    \/ p \in Paths /\ ~(mode # 0 /\ p \in ReadOnlyPaths) /\ i = -1 /\ Reply(ENHNDL)
    \/ checked /\ justRead /\ names[p] = NONE /\ Reply(EFILNF)
    \/ checked /\ ~(justRead /\ names[p] = NONE) /\ Reply(EACCDN)  \* fopen failed
    \/ /\ checked /\ names[p] # NONE
       /\ StoreOpened(i, p, names[p], ~justRead)
       /\ UNCHANGED <<names, size, mtime, nextIno>>

\* onFclose
Fclose(h) ==
    LET i == FindFileHandleSlot(h) IN
    \/ i = -1 /\ Reply(E_NOTHANDLED)
    \/ /\ i # -1
       /\ files' = [files EXCEPT ![i] = [FreeSlot EXCEPT !.lastDataCount = files[i].lastDataCount]]
       /\ status' = E_OK
       /\ UNCHANGED <<names, size, mtime, nextIno>>

\* mutant: bytes left in the file computed without clamping at zero
FreadNoClamp(h, n, off) ==
    LET i == FindFileHandleSlot(h)
        s == files[i].stream
        from == s.pos + off
        cnt == MinOf(PadTo16(n), size[s.ino] - from)
    IN
    \/ i = -1 /\ Reply(E_NOTHANDLED)
    \/ i # -1 /\ n > MAX_RW_BYTES /\ Reply(EINTRN)
    \/ i # -1 /\ n <= MAX_RW_BYTES /\ from < 0 /\ Reply(EINTRN)
    \/ /\ i # -1 /\ n <= MAX_RW_BYTES /\ from >= 0
       /\ files' = [files EXCEPT ![i].stream.pos = from + cnt, ![i].lastDataCount = cnt]
       /\ status' = IF cnt = n THEN RW_ALL_TRANSFERED ELSE RW_PARTIAL_TRANSFER
       /\ UNCHANGED <<names, size, mtime, nextIno>>

\* onFread: optional relative seek, then fread of the count padded to 16
Fread(h, n, off) ==
    LET i == FindFileHandleSlot(h)
        s == files[i].stream
        from == s.pos + off
        cnt == MaxOf(0, MinOf(PadTo16(n), size[s.ino] - from))
    IN
    \/ i = -1 /\ Reply(E_NOTHANDLED)
    \/ i # -1 /\ n > MAX_RW_BYTES /\ Reply(EINTRN)
    \/ i # -1 /\ n <= MAX_RW_BYTES /\ from < 0 /\ Reply(EINTRN)  \* fseek failed
    \/ /\ i # -1 /\ n <= MAX_RW_BYTES /\ from >= 0
       /\ files' = [files EXCEPT ![i].stream.pos = from + cnt, ![i].lastDataCount = cnt]
       /\ status' = IF cnt = n THEN RW_ALL_TRANSFERED ELSE RW_PARTIAL_TRANSFER
       /\ UNCHANGED <<names, size, mtime, nextIno>>

\* onFwrite: receive the padded count, fwrite the exact count
Fwrite(h, n) ==
    LET i == FindFileHandleSlot(h)
        s == files[i].stream
        written == IF s.writable THEN n ELSE 0      \* fwrite on an "rb" stream fails
    IN
    \/ i = -1 /\ Reply(E_NOTHANDLED)
    \/ i # -1 /\ n > MAX_RW_BYTES /\ Reply(EINTRN)
    \/ i # -1 /\ n <= MAX_RW_BYTES /\ Reply(EINTRN)          \* recvData failed
    \/ /\ i # -1 /\ n <= MAX_RW_BYTES
       /\ s.pos + written <= MaxLen
       /\ files' = [files EXCEPT ![i].stream.pos = s.pos + written, ![i].lastDataCount = written]
       /\ size' = IF written > 0 THEN [size EXCEPT ![s.ino] = MaxOf(@, s.pos + written)] ELSE size
       /\ status' = IF written # n THEN RW_PARTIAL_TRANSFER ELSE RW_ALL_TRANSFERED
       /\ UNCHANGED <<names, mtime, nextIno>>

\* onRWDataCount, onFtell and getByteCountToEndOfFile only report
RWDataCount(h) == Reply(IF FindFileHandleSlot(h) = -1 THEN E_NOTHANDLED ELSE E_OK)
Ftell(h) == Reply(IF FindFileHandleSlot(h) = -1 THEN E_NOTHANDLED ELSE E_OK)
GetByteCountToEndOfFile(h) == Reply(IF FindFileHandleSlot(h) = -1 THEN E_NOTHANDLED ELSE E_OK)

\* onFseek: SEEK_SET for mode 0 and unknown modes, SEEK_CUR, SEEK_END
Fseek(off, h, mode) ==
    LET i == FindFileHandleSlot(h)
        s == files[i].stream
        to == CASE mode = 1 -> s.pos + off
                [] mode = 2 -> size[s.ino] + off
                [] OTHER    -> off
    IN
    \/ i = -1 /\ Reply(E_NOTHANDLED)
    \/ i # -1 /\ to < 0 /\ Reply(EINTRN)
    \/ /\ i # -1 /\ 0 <= to /\ to <= MaxPos
       /\ files' = [files EXCEPT ![i].stream.pos = to]
       /\ status' = E_OK
       /\ UNCHANGED <<names, size, mtime, nextIno>>

\* onFdatime: utime / stat on the path stored when the file was opened
Fdatime(h, set, t) ==
    LET i == FindFileHandleSlot(h)
        ino == names[files[i].hostPath]
    IN
    \/ i = -1 /\ Reply(E_NOTHANDLED)
    \/ i # -1 /\ ino = NONE /\ Reply(EINTRN)
    \/ i # -1 /\ ino # NONE /\ ~set /\ Reply(E_OK)
    \/ /\ i # -1 /\ ino # NONE /\ set
       /\ mtime' = [mtime EXCEPT ![ino] = t]
       /\ status' = E_OK
       /\ UNCHANGED <<files, names, size, nextIno>>

\* onFdelete: unlink; an open stream keeps its inode
Fdelete(p) ==
    \/ Reply(EINTRN)
    \/ p \in ForeignPaths /\ Reply(E_NOTHANDLED)
    \/ p \in ReadOnlyPaths /\ Reply(EACCDN)
    \/ p \in Paths \ ReadOnlyPaths /\ names[p] = NONE /\ Reply(EFILNF)
    \/ /\ p \in Paths \ ReadOnlyPaths /\ names[p] # NONE
       /\ names' = [names EXCEPT ![p] = NONE]
       /\ status' = E_OK
       /\ UNCHANGED <<files, size, mtime, nextIno>>

\* mutant: the read-only check applied to the old name instead of the new
FrenameChecksOld(old, new) ==
    LET ours == old \in Paths /\ new \in Paths IN
    \/ Reply(EINTRN)
    \/ ~ours /\ Reply(E_NOTHANDLED)
    \/ ours /\ old \in ReadOnlyPaths /\ Reply(EACCDN)
    \/ ours /\ old \notin ReadOnlyPaths /\ Reply(EACCDN)
    \/ /\ ours /\ old \notin ReadOnlyPaths /\ names[old] # NONE
       /\ names' = IF old = new THEN names
                   ELSE [names EXCEPT ![new] = names[old], ![old] = NONE]
       /\ status' = E_OK
       /\ UNCHANGED <<files, size, mtime, nextIno>>

\* onFrename: only the new name is checked for read-only
Frename(old, new) ==
    LET ours == old \in Paths /\ new \in Paths IN
    \/ Reply(EINTRN)
    \/ ~ours /\ Reply(E_NOTHANDLED)
    \/ ours /\ new \in ReadOnlyPaths /\ Reply(EACCDN)
    \/ ours /\ new \notin ReadOnlyPaths /\ Reply(EACCDN)      \* rename() failed
    \/ /\ ours /\ new \notin ReadOnlyPaths /\ names[old] # NONE
       /\ names' = IF old = new THEN names
                   ELSE [names EXCEPT ![new] = names[old], ![old] = NONE]
       /\ status' = E_OK
       /\ UNCHANGED <<files, size, mtime, nextIno>>

Next ==
    \/ \E p \in AllPaths : Fcreate(p) \/ Fdelete(p) \/ \E m \in OpenModes : Fopen(p, m)
    \/ \E p, q \in AllPaths : Frename(p, q)
    \/ \E h \in GuestHandles :
          \/ Fclose(h) \/ RWDataCount(h) \/ Ftell(h) \/ GetByteCountToEndOfFile(h)
          \/ \E n \in Counts : Fwrite(h, n) \/ \E o \in ReadSeeks : Fread(h, n, o)
          \/ \E o \in SeekOffsets, m \in SeekModes : Fseek(o, h, m)
          \/ \E set \in BOOLEAN, t \in Times : Fdatime(h, set, t)

Spec == Init /\ [][Next]_vars

-----------------------------------------------------------------------------
(* Properties *)

\* No name on a read-only drive refers to a file some handle has open for
\* writing: the read-only checks of Fcreate, Fopen and Frename together keep
\* every writable stream away from read-only drives.
WritableStreamsOffReadOnly ==
    \A i \in Slots, p \in ReadOnlyPaths :
        (files[i].stream # NONE /\ files[i].stream.writable) => names[p] # files[i].stream.ino
====
