---------------------------- MODULE FloppySetup ----------------------------
(***************************************************************************)
(* The floppy image setup module of the host (FloppySetup in              *)
(* src/cosmosex/floppy/floppysetup.cpp): the ST uploads a floppy image    *)
(* into one of the three image-silo slots block by block, creates an      *)
(* empty image, swaps or removes slots, and downloads an image.           *)
(*                                                                         *)
(* The state is the two FILE* members (currentUpload.fh and               *)
(* currentDownload.fh), the upload's stored parameters and the silo       *)
(* slots.  A FILE* is "null", "open" (a live stream) or "freed" (a        *)
(* pointer to a stream already closed).  Each command is one step: the   *)
(* core thread runs processCommand to its end before the next command.   *)
(* Image bytes, file names on the host and the encoding done by the       *)
(* silo are abstracted: an image is a model value.                       *)
(***************************************************************************)
EXTENDS Integers

CONSTANTS
    Names,          \* images the ST may upload (the file part of the path)
    NewImgNames,    \* <<newimg0.st, newimg1.st, ...>> of getNewImageName
    IndexArgs,      \* cmd[5] values tried as a slot index
    MaxStreams,     \* bound on streams open at once in the process
    EMPTY, UNSET    \* model values: an empty silo slot, an unset member

Slots == 0..2                 \* the index range every handler checks
NoStatus == "none"            \* no setStatus: sendDataAndStatus sends nothing
Statuses == {"ok", "error", "ondevicecopy", NoStatus}
FhStates == {"null", "open", "freed"}
Images == Names \cup {NewImgNames[i] : i \in DOMAIN NewImgNames}

VARIABLES
    upFh, upSlot, upFile,   \* currentUpload.fh, .slotIndex, .file
    downFh,                 \* currentDownload.fh
    silo,                   \* image of each silo slot
    streams,                \* streams open in the process (fopen'ed, not fclosed)
    status,                 \* status the command set (dataTrans->setStatus)
    phase                   \* ghost: where a well-behaved ST client is

vars == <<upFh, upSlot, upFile, downFh, silo, streams, status, phase>>

TypeOK ==
    /\ upFh \in FhStates /\ downFh \in FhStates
    /\ upSlot \in Slots \cup {UNSET} /\ upFile \in Images \cup {UNSET}
    /\ silo \in [Slots -> Images \cup {EMPTY}]
    /\ streams \in 0..MaxStreams /\ status \in Statuses
    /\ phase \in {"idle", "upload", "download"}

(* The constructor sets only the two FILE* members; slotIndex and file of *)
(* currentUpload are left unset.                                           *)
Init ==
    /\ upFh = "null" /\ downFh = "null"
    /\ upSlot = UNSET /\ upFile = UNSET
    /\ silo = [s \in Slots |-> EMPTY]
    /\ streams = 0 /\ status = NoStatus /\ phase = "idle"

(* fclose(fh): closes an open stream; on a freed pointer it is a double   *)
(* fclose (undefined behaviour) that closes nothing the model counts.     *)
(* The caller decides whether the member is set to NULL afterwards.       *)
Fclose(fh) ==
    streams' = IF fh = "open" THEN streams - 1 ELSE streams

\* fopen of a new stream, within the bound on open streams
CanOpen(n) == n < MaxStreams

-----------------------------------------------------------------------------
\* FDD_CMD_IDENTIFY and FDD_CMD_GETSILOCONTENT: a reply and FDD_OK
Query ==
    /\ status' = "ok"
    /\ UNCHANGED <<upFh, upSlot, upFile, downFh, silo, streams>>

\* Variant: the index check written as index > 3
UploadStartOffByOne(index, name, onDevice, ok) ==
    \/ /\ index > 3
       /\ status' = "error"
       /\ UNCHANGED <<upFh, upSlot, upFile, downFh, silo, streams>>
    \/ /\ index <= 3 /\ ~onDevice /\ ok /\ CanOpen(streams)
       /\ upFh = "null"
       /\ upFh' = "open" /\ streams' = streams + 1
       /\ upSlot' = index /\ upFile' = name /\ status' = "ok"
       /\ UNCHANGED <<silo, downFh>>

(* uploadStart: index check; fclose of a previous upload stream, without  *)
(* setting the member to NULL; the file name arrives by recvData; an      *)
(* existing file on a translated drive is copied on the device and the    *)
(* upload ended at once (uploadEnd(true)), otherwise /tmp/<file> is       *)
(* opened "wb".  A failed fopen returns with the member still pointing to *)
(* the stream closed above.                                                *)
UploadStart(index, name, onDevice, ok) ==
    \/ /\ index \notin Slots
       /\ status' = "error"
       /\ UNCHANGED <<upFh, upSlot, upFile, downFh, silo, streams>>
    \/ /\ index \in Slots
       /\ LET closed == IF upFh = "null" THEN "null" ELSE "freed"
              afterClose == IF upFh = "open" THEN streams - 1 ELSE streams
          IN \/ /\ ~onDevice /\ ~(ok /\ CanOpen(afterClose))
                /\ upFh' = closed /\ streams' = afterClose
                /\ status' = "error"
                /\ UNCHANGED <<upSlot, upFile, silo>>
             \/ /\ ~onDevice /\ ok /\ CanOpen(afterClose)
                /\ upFh' = "open" /\ streams' = afterClose + 1
                /\ upSlot' = index /\ upFile' = name
                /\ status' = "ok"
                /\ UNCHANGED silo
             \/ /\ onDevice
                /\ upFh' = "null" /\ streams' = afterClose
                /\ upSlot' = index /\ upFile' = name
                /\ silo' = IF ok THEN [silo EXCEPT ![index] = name] ELSE silo
                /\ status' = IF ok THEN "ondevicecopy" ELSE "error"
       /\ UNCHANGED downFh

(* uploadBlock: recvData of 64 kB (its result ignored), the slot in the   *)
(* top two bits of cmd[5] compared with the stored slotIndex, then fwrite *)
(* to currentUpload.fh.  The comparison with a slotIndex never set reads  *)
(* an uninitialised member: either outcome.  fwrite on a NULL or freed    *)
(* FILE* is undefined; its result is either outcome.                      *)
UploadBlock(slotByte, written) ==
    /\ \/ /\ upSlot # UNSET /\ slotByte # upSlot
          /\ status' = "error"
       \/ /\ upSlot = UNSET \/ slotByte = upSlot
          /\ status' = IF written THEN "ok" ELSE "error"
    /\ UNCHANGED <<upFh, upSlot, upFile, downFh, silo, streams>>

(* uploadEnd(false), for DONE_OK and DONE_FAIL: close the stream and set  *)
(* the member to NULL; on DONE_OK add the stored file to the stored slot. *)
(* A slotIndex never set is an out-of-range silo index; the silo is left  *)
(* as it was in that case.                                                 *)
UploadEnd(doneOk) ==
    /\ IF upFh # "null" THEN Fclose(upFh) ELSE UNCHANGED streams
    /\ upFh' = "null"
    /\ silo' = IF doneOk /\ upSlot # UNSET
                 THEN [silo EXCEPT ![upSlot] = upFile] ELSE silo
    /\ status' = "ok"
    /\ UNCHANGED <<upSlot, upFile, downFh>>

\* FDD_CMD_SWAPSLOTS / FDD_CMD_REMOVESLOT: ImageSilo is not under src/
SiloSwap(index) ==
    /\ \E s \in Slots :
         silo' = IF index \in Slots
                   THEN [silo EXCEPT ![index] = silo[s], ![s] = silo[index]]
                   ELSE silo
    /\ status' = "ok"
    /\ UNCHANGED <<upFh, upSlot, upFile, downFh, streams>>

SiloRemove(index) ==
    /\ silo' = IF index \in Slots THEN [silo EXCEPT ![index] = EMPTY] ELSE silo
    /\ status' = "ok"
    /\ UNCHANGED <<upFh, upSlot, upFile, downFh, streams>>

\* getNewImageName: the first newimg<i>.st that is not in the silo
NewImageName ==
    NewImgNames[CHOOSE i \in DOMAIN NewImgNames :
                   /\ NewImgNames[i] \notin {silo[s] : s \in Slots}
                   /\ \A j \in 1..(i - 1) : NewImgNames[j] \in {silo[s] : s \in Slots}]

(* newImage: index check; fclose of a previous upload stream, again       *)
(* without setting the member to NULL; then /tmp/newimg<i>.st is opened,  *)
(* written with a boot sector and 1439 empty sectors, closed, and added   *)
(* to the slot.                                                            *)
NewImage(index, ok) ==
    \/ /\ index \notin Slots
       /\ status' = "error"
       /\ UNCHANGED <<upFh, silo, streams>>
    \/ /\ index \in Slots
       /\ upFh' = IF upFh = "null" THEN "null" ELSE "freed"
       /\ Fclose(upFh)
       /\ IF ok /\ CanOpen(streams')
            THEN silo' = [silo EXCEPT ![index] = NewImageName] /\ status' = "ok"
            ELSE UNCHANGED silo /\ status' = "error"
    /\ UNCHANGED <<upSlot, upFile, downFh>>

(* downloadStart: currentDownload.fh is set to NULL first, whatever it   *)
(* held; index check, empty slot check, then fopen "rb" of the slot's     *)
(* host file, whose name goes back to the ST.                              *)
DownloadStart(index, ok) ==
    /\ IF index \in Slots /\ silo[index] # EMPTY /\ ok /\ CanOpen(streams)
         THEN downFh' = "open" /\ streams' = streams + 1 /\ status' = "ok"
         ELSE downFh' = "null" /\ status' = "error" /\ UNCHANGED streams
    /\ UNCHANGED <<upFh, upSlot, upFile, silo>>

\* downloadGetBlock: an empty handler, so no status is set
DownloadGetBlock ==
    /\ status' = NoStatus
    /\ UNCHANGED <<upFh, upSlot, upFile, downFh, silo, streams>>

\* downloadDone: index check, then the stream is closed and set to NULL
DownloadDone(index) ==
    \/ /\ index \notin Slots
       /\ status' = "error"
       /\ UNCHANGED <<downFh, streams>>
    \/ /\ index \in Slots
       /\ IF downFh # "null" THEN Fclose(downFh) ELSE UNCHANGED streams
       /\ downFh' = "null" /\ status' = "ok"
    /\ UNCHANGED <<upFh, upSlot, upFile, silo>>

-----------------------------------------------------------------------------
(* One command of processCommand, by its opcode cmd[4].  The arguments    *)
(* are cmd[5] (an index, or the slot in its top two bits), the name the   *)
(* ST sends, and the outcomes of the host calls (fopen, fwrite, copyFile). *)
Command(op) ==
    CASE op = "query"     -> Query
      [] op = "upStart"   -> \E i \in IndexArgs, n \in Names, d, ok \in BOOLEAN :
                                UploadStart(i, n, d, ok)
      [] op = "upBlock"   -> \E b \in 0..3, w \in BOOLEAN : UploadBlock(b, w)
      [] op = "upEnd"     -> \E ok \in BOOLEAN : UploadEnd(ok)
      [] op = "swap"      -> \E i \in IndexArgs : SiloSwap(i)
      [] op = "remove"    -> \E i \in IndexArgs : SiloRemove(i)
      [] op = "newImage"  -> \E i \in IndexArgs, ok \in BOOLEAN : NewImage(i, ok)
      [] op = "downStart" -> \E i \in IndexArgs, ok \in BOOLEAN : DownloadStart(i, ok)
      [] op = "downBlock" -> DownloadGetBlock
      [] op = "downDone"  -> \E i \in IndexArgs : DownloadDone(i)

Ops == {"query", "upStart", "upBlock", "upEnd", "swap", "remove", "newImage",
        "downStart", "downBlock", "downDone"}
(* The ST client as it uses the module: idle commands, an upload session *)
(* opened by an uploadStart that answered FDD_OK, sending blocks for the  *)
(* slot it started and ending with DONE_OK or DONE_FAIL, and a download   *)
(* session opened by a downloadStart that answered FDD_OK and ended by    *)
(* downloadDone of a slot.  Each session step is the handler              *)
(* processCommand dispatches; only the order of commands is restricted.   *)
ClientNext ==
    \/ /\ phase = "idle"
       /\ \E op \in {"query", "swap", "remove", "newImage"} : Command(op)
       /\ UNCHANGED phase
    \/ /\ phase = "idle" /\ Command("upStart")
       /\ phase' = IF status' = "ok" THEN "upload" ELSE "idle"
    \/ /\ phase = "idle" /\ Command("downStart")
       /\ phase' = IF status' = "ok" THEN "download" ELSE "idle"
    \/ /\ phase = "upload" /\ \E w \in BOOLEAN : UploadBlock(upSlot, w)
       /\ UNCHANGED phase
    \/ /\ phase = "upload" /\ Command("upEnd") /\ phase' = "idle"
    \/ /\ phase = "download" /\ Command("downBlock") /\ UNCHANGED phase
    \/ /\ phase = "download" /\ \E i \in Slots : DownloadDone(i)
       /\ phase' = "idle"

(* The ST is reset or the floppy tool quits in the middle of an upload or *)
(* a download: the client forgets its session, while the FloppySetup      *)
(* members keep the stream it left open.                                   *)
Abandon ==
    /\ phase # "idle" /\ phase' = "idle"
    /\ UNCHANGED <<upFh, upSlot, upFile, downFh, silo, streams, status>>

Next == ClientNext \/ Abandon

Spec == Init /\ [][Next]_vars

-----------------------------------------------------------------------------
====
