---------------------------- MODULE GemdosDrives ----------------------------
(***************************************************************************)
(* The drive and path handlers of the GEMDOS translator (onDsetdrv,        *)
(* onDgetdrv, onDsetpath, onDgetpath, onDfree, onDcreate, onDdelete,       *)
(* onFattrib, onDrvMap, onMediach, onGetbpb in translateddisk_gemdos.cpp)  *)
(* composed with the guest driver's hooks in gemdos.c, which fall back to  *)
(* the TOS handler when the host answers E_NOTHANDLED or the ACSI command  *)
(* fails (ERROR).                                                          *)
(*                                                                         *)
(* A path is a record: the drive letter it names (or NONE for a path      *)
(* relative to the current drive) and a directory.  Directories are model *)
(* values; ForeignDirs are paths createHostPath refuses.  Of TOS only its *)
(* current drive is kept: the fallbacks of the other calls change nothing *)
(* this model tracks.                                                      *)
(***************************************************************************)
EXTENDS Integers, FiniteSets

CONSTANTS
    MAX_DRIVES,     \* size of conf[]
    Enabled,        \* drive indices with conf[i].enabled (fixed by the config)
    ReadOnly,       \* enabled drives that are read-only
    Dirs,           \* directories the host paths can name
    ROOT,           \* the root directory of a drive, in Dirs
    ForeignDirs,    \* paths createHostPath rejects
    PathDrives,     \* drive letters programs name in paths
    InitDirs,       \* [Enabled -> SUBSET Dirs]: directories present at start
    SetdrvArgs,     \* drive numbers programs pass to Dsetdrv
    DriveArgs,      \* drive bytes programs pass to Dgetpath and Dfree (0 = current)
    NONE

ASSUME /\ PathDrives \subseteq 0 .. (MAX_DRIVES - 1)
       /\ Enabled \subseteq 2 .. (MAX_DRIVES - 1)
       /\ ReadOnly \subseteq Enabled
       /\ ROOT \in Dirs
       /\ \A e \in Enabled : ROOT \in InitDirs[e]

E_OK == 0
EINTRN == -65
EPTHNF == -34
EACCDN == -36
E_NOTHANDLED == 32
FA_DIR == 16

Drives == 0 .. (MAX_DRIVES - 1)
Paths == [drive : PathDrives \cup {NONE}, dir : Dirs \cup ForeignDirs]

VARIABLES
    currentDriveIndex,  \* host: TranslatedDisk::currentDriveIndex
    currentAtariPath,   \* host: conf[e].currentAtariPath of each enabled drive
    dirs,               \* host filesystem: the directories of each enabled drive
    mediaChanged,       \* host: conf[e].mediaChanged of each enabled drive
    status,             \* status byte of the last command
    tosDrive,           \* TOS: its own current drive
    lastSet,            \* ghost: the path the program last set on each enabled drive
    delivered           \* ghost: the last acsi_cmd delivered the host's status

hostVars == <<currentDriveIndex, currentAtariPath, dirs, mediaChanged, status>>
ghostVars == <<lastSet, delivered>>
vars == <<hostVars, tosDrive, ghostVars>>

TypeOK ==
    /\ currentDriveIndex \in Drives
    /\ currentAtariPath \in [Enabled -> Dirs]
    /\ dirs \in [Enabled -> SUBSET Dirs]
    /\ mediaChanged \in [Enabled -> BOOLEAN]
    /\ tosDrive \in SetdrvArgs \cup {0}
    /\ lastSet \in [Enabled -> Dirs]

Init ==
    /\ currentDriveIndex = 0
    /\ currentAtariPath = [e \in Enabled |-> ROOT]
    /\ dirs = InitDirs
    /\ mediaChanged = [e \in Enabled |-> FALSE]
    /\ status = E_OK
    /\ tosDrive = 0
    /\ lastSet = [e \in Enabled |-> ROOT]
    /\ delivered = TRUE

IsEnabled(d) == d \in Enabled

\* createHostPath: the drive a path resolves on, and whether it is ours
PathDrive(p) == IF p.drive = NONE THEN currentDriveIndex ELSE p.drive

\* mutant: createHostPath without its confinement check
HostPathOkDriveOnly(p) == IsEnabled(PathDrive(p))

HostPathOk(p) == IsEnabled(PathDrive(p)) /\ p.dir \in Dirs

\* mutant: the read-only test on the drive letter the path names only
PathReadOnlyExplicit(p) == p.drive \in ReadOnly

\* isAtariPathReadOnly
PathReadOnly(p) == PathDrive(p) \in ReadOnly

\* a command that only sets the status and reads no conf[] entry
Reply(st) == status' = st

\* onDsetdrv (the guest never sends a drive above 15: gemdos.c handles
\* those itself, so the "> 15" branch of the host is not reachable here)
HostDsetdrv(newDrive) ==
    /\ \/ /\ newDrive < 2
          /\ currentDriveIndex' = newDrive
          /\ Reply(E_NOTHANDLED)
       \/ /\ newDrive >= 2 /\ IsEnabled(newDrive)
          /\ currentDriveIndex' = newDrive
          /\ status' = E_OK
       \/ /\ newDrive >= 2 /\ ~IsEnabled(newDrive)
          /\ status' = E_NOTHANDLED
          /\ UNCHANGED currentDriveIndex
    /\ UNCHANGED <<currentAtariPath, dirs, mediaChanged>>

\* onDgetdrv: the current drive as the status, if the host owns it
HostDgetdrv ==
    /\ status' = IF IsEnabled(currentDriveIndex) THEN currentDriveIndex ELSE E_NOTHANDLED
    /\ UNCHANGED <<currentDriveIndex, currentAtariPath, dirs, mediaChanged>>

\* mutant: the path stored on the current drive before the drive change
DsetpathStoreFirst(p) ==
    /\ currentAtariPath' = [currentAtariPath EXCEPT ![currentDriveIndex] = p.dir]
    /\ currentDriveIndex' = PathDrive(p)

\* onDsetpath's store: a path naming another drive makes it current
\* (newPathRequiresCurrentDriveChange), then the path is stored on the
\* (new) current drive
DsetpathStore(p) ==
    /\ currentDriveIndex' = PathDrive(p)
    /\ currentAtariPath' = [currentAtariPath EXCEPT ![PathDrive(p)] = p.dir]

\* onDsetpath
HostDsetpath(p) ==
    /\ UNCHANGED <<dirs, mediaChanged>>
    /\ \/ ~IsEnabled(currentDriveIndex) /\ status' = E_NOTHANDLED
          /\ UNCHANGED <<currentDriveIndex, currentAtariPath>>
       \/ /\ IsEnabled(currentDriveIndex)
          /\ \/ status' = EINTRN                                   \* recvData failed
             \/ ~HostPathOk(p) /\ status' = E_NOTHANDLED
             \/ HostPathOk(p) /\ p.dir \notin dirs[PathDrive(p)] /\ status' = EPTHNF
          /\ UNCHANGED <<currentDriveIndex, currentAtariPath>>
       \/ /\ IsEnabled(currentDriveIndex) /\ HostPathOk(p) /\ p.dir \in dirs[PathDrive(p)]
          /\ DsetpathStore(p)
          /\ status' = E_OK

\* onDgetpath / onDfree: drive byte 0 is the current drive, else drive + 1
WhichDrive(w) == IF w = 0 THEN currentDriveIndex ELSE w - 1

\* onDgetpath and onDfree: not handled unless conf[whichDrive] is enabled.
\* An index past conf[] reads whatever lies behind the array: either answer.
HostDriveQuery(w) ==
    /\ \/ WhichDrive(w) \in Drives /\ ~IsEnabled(WhichDrive(w)) /\ status' = E_NOTHANDLED
       \/ IsEnabled(WhichDrive(w)) /\ status' = E_OK
       \/ WhichDrive(w) \notin Drives /\ status' \in {E_NOTHANDLED, E_OK}
    /\ UNCHANGED <<currentDriveIndex, currentAtariPath, dirs, mediaChanged>>

HostDgetpath(w) == HostDriveQuery(w)

HostDfree(w) == HostDriveQuery(w)

\* the steps common to onDcreate, onDdelete and onFattrib before the host
\* operation: recvData, createHostPath
PathCommandFails(p) ==
    \/ Reply(EINTRN)
    \/ ~HostPathOk(p) /\ Reply(E_NOTHANDLED)

\* onDcreate: mkdir unless the drive is read-only; EEXIST gives EACCDN,
\* an errno other than EEXIST and EACCES gives EINTRN
HostDcreate(p) ==
    /\ UNCHANGED <<currentDriveIndex, currentAtariPath, mediaChanged>>
    /\ \/ PathCommandFails(p) /\ UNCHANGED dirs
       \/ HostPathOk(p) /\ PathReadOnly(p) /\ Reply(EACCDN) /\ UNCHANGED dirs
       \/ /\ HostPathOk(p) /\ ~PathReadOnly(p)
          /\ \/ /\ p.dir \notin dirs[PathDrive(p)]
                /\ dirs' = [dirs EXCEPT ![PathDrive(p)] = @ \cup {p.dir}]
                /\ Reply(E_OK)
             \/ p.dir \in dirs[PathDrive(p)] /\ Reply(EACCDN) /\ UNCHANGED dirs
             \/ Reply(EINTRN) /\ UNCHANGED dirs

\* onDdelete: deleteDirectory unless the drive is read-only; its result is
\* the status.  It removes an existing directory other than the root.
HostDdelete(p) ==
    /\ UNCHANGED <<currentDriveIndex, currentAtariPath, mediaChanged>>
    /\ \/ PathCommandFails(p) /\ UNCHANGED dirs
       \/ HostPathOk(p) /\ PathReadOnly(p) /\ Reply(EACCDN) /\ UNCHANGED dirs
       \/ /\ HostPathOk(p) /\ ~PathReadOnly(p)
          /\ p.dir \in dirs[PathDrive(p)] \ {ROOT}
          /\ dirs' = [dirs EXCEPT ![PathDrive(p)] = @ \ {p.dir}]
          /\ Reply(E_OK)
       \/ /\ HostPathOk(p) /\ ~PathReadOnly(p)
          /\ p.dir \notin dirs[PathDrive(p)] \ {ROOT}
          /\ Reply(EPTHNF) /\ UNCHANGED dirs

\* onFattrib: stat the path and answer its attributes; the "set" branch
\* changes nothing (left unimplemented in the code)
HostFattrib(p) ==
    /\ UNCHANGED <<currentDriveIndex, currentAtariPath, dirs, mediaChanged>>
    /\ \/ PathCommandFails(p)
       \/ HostPathOk(p) /\ p.dir \notin dirs[PathDrive(p)] /\ Reply(EINTRN)
       \/ HostPathOk(p) /\ p.dir \in dirs[PathDrive(p)] /\ Reply(FA_DIR)

\* onDrvMap and onMediach: a bitmap in the data, status OK
HostDrvMap == Reply(E_OK) /\ UNCHANGED <<currentDriveIndex, currentAtariPath, dirs, mediaChanged>>

HostMediach == Reply(E_OK) /\ UNCHANGED <<currentDriveIndex, currentAtariPath, dirs, mediaChanged>>

\* onGetbpb: range check, mark the media as not changed, then answer
HostGetbpb(drive) ==
    /\ UNCHANGED <<currentDriveIndex, currentAtariPath, dirs>>
    /\ \/ drive >= MAX_DRIVES /\ Reply(E_NOTHANDLED) /\ UNCHANGED mediaChanged
       \/ /\ drive < MAX_DRIVES
          /\ mediaChanged' = [e \in Enabled |-> IF e = drive THEN FALSE ELSE mediaChanged[e]]
          /\ status' = IF IsEnabled(drive) THEN E_OK ELSE E_NOTHANDLED

\* The host remounts a drive's media (config reload): conf[e].mediaChanged
MediaChange(e) ==
    /\ mediaChanged' = [mediaChanged EXCEPT ![e] = TRUE]
    /\ UNCHANGED <<currentDriveIndex, currentAtariPath, dirs, status, tosDrive, ghostVars>>

(***************************************************************************)
(* The guest driver (gemdos.c).  Each hook sends the call with acsi_cmd    *)
(* and, if the answer is E_NOTHANDLED or the command fails (ERROR), calls  *)
(* the TOS handler (Tos) instead.  CallOk is an acsi_cmd that delivers the *)
(* host's status, CallLost one that fails.                                 *)
(***************************************************************************)
CallOk(Host, Tos) ==
    /\ Host
    /\ IF status' = E_NOTHANDLED THEN Tos ELSE UNCHANGED tosDrive
    /\ delivered' = TRUE

\* acsi_cmd fails on a timeout of the ACSI handshake, before the command
\* reached the host or after the handler ran and its status was lost
CallLost(Host, Tos) ==
    /\ \/ Host /\ Tos
       \/ Tos /\ UNCHANGED hostVars
    /\ delivered' = FALSE

\* one acsi_cmd of a hook: lost or not
Call(lost, Host, Tos) == IF lost THEN CallLost(Host, Tos) ELSE CallOk(Host, Tos)

\* whether the program was answered by the host's handler
HostAnswered == delivered' /\ status' # E_NOTHANDLED

\* TOS Dsetdrv: TOS makes the drive its current one
TosDsetdrv(drive) == tosDrive' = drive

\* custom_dsetdrv: a drive above 15 goes straight to TOS
GuestDsetdrv(drive, lost) ==
    /\ \/ /\ drive > 15 /\ TosDsetdrv(drive)
          /\ UNCHANGED hostVars /\ delivered' = TRUE
       \/ drive <= 15 /\ Call(lost, HostDsetdrv(drive), TosDsetdrv(drive))
    /\ UNCHANGED lastSet

\* custom_dgetdrv: the host's status, or TOS's current drive
GuestDgetdrv(lost) ==
    /\ Call(lost, HostDgetdrv, UNCHANGED tosDrive)
    /\ UNCHANGED lastSet

\* custom_dsetpath.  A path set by the host on a drive the program names
\* also makes that drive current (the host's convention).
GuestDsetpath(p, lost) ==
    /\ Call(lost, HostDsetpath(p), UNCHANGED tosDrive)
    /\ IF HostAnswered /\ status' = E_OK
       THEN /\ lastSet' = [lastSet EXCEPT ![PathDrive(p)] = p.dir]
       ELSE UNCHANGED lastSet

\* the other hooks: their TOS fallbacks change nothing modelled here
GuestOther(Host, lost) ==
    /\ Call(lost, Host, UNCHANGED tosDrive)
    /\ UNCHANGED lastSet

\* the hooks that leave TOS's current drive alone, each with its own handler
GuestDgetpath(w, lost) == GuestOther(HostDgetpath(w), lost)

GuestDfree(w, lost) == GuestOther(HostDfree(w), lost)

GuestDcreate(p, lost) == GuestOther(HostDcreate(p), lost)

GuestDdelete(p, lost) == GuestOther(HostDdelete(p), lost)

GuestFattrib(p, lost) == GuestOther(HostFattrib(p), lost)

\* BIOS calls reach the host without the GEMDOS hooks
Bios(Host) ==
    /\ Host
    /\ UNCHANGED <<tosDrive, lastSet>>
    /\ delivered' = TRUE

Calls(lost) ==
    \/ \E d \in SetdrvArgs : GuestDsetdrv(d, lost)
    \/ GuestDgetdrv(lost)
    \/ \E p \in Paths : GuestDsetpath(p, lost)
    \/ \E w \in DriveArgs : GuestDgetpath(w, lost) \/ GuestDfree(w, lost)
    \/ \E p \in Paths : GuestDcreate(p, lost) \/ GuestDdelete(p, lost)
    \/ \E p \in Paths : GuestFattrib(p, lost)

Next ==
    \/ Calls(FALSE)
    \/ Bios(HostDrvMap)
    \/ Bios(HostMediach)
    \/ \E d \in DriveArgs : Bios(HostGetbpb(d))
    \/ \E e \in Enabled : MediaChange(e)

Spec == Init /\ [][Next]_vars

\* commands may also be lost
LossyNext == Calls(TRUE)

LossySpec == Init /\ [][Next \/ LossyNext]_vars
-----------------------------------------------------------------------------
(* Properties *)

\* No command, nor any sequence of them, changes the directories of a
\* read-only drive (the checks in onDcreate and onDdelete, which resolve
\* relative paths against a current drive that Dsetdrv and Dsetpath move).
ReadOnlyDirsUnchanged == \A e \in ReadOnly : dirs[e] = InitDirs[e]

\* Dgetpath of an enabled drive answers the path the program last set on
\* that drive with a Dsetpath the host answered OK (onDsetpath resolves the
\* path against the current drive, moves the current drive, then stores).
DgetpathReturnsLastDsetpath == \A e \in Enabled : currentAtariPath[e] = lastSet[e]
====
