----------------------------- MODULE DataTrans -----------------------------
(***************************************************************************)
(* The host side of the command/data transport (AcsiDataTrans in          *)
(* src/ce_main_app/acsidatatrans.cpp) and the retry snapshot it keeps in   *)
(* RetryModule, driven by one command at a time from the far side (the     *)
(* Hans firmware and the ST behind it).                                    *)
(*                                                                         *)
(* A handler stages a response with addData*/padDataToMul16/setStatus, may *)
(* pull a parameter block with recvData, and ends with sendDataAndStatus.  *)
(* Each wait for an ATN signal is a step of its own: either the far side  *)
(* raises the ATN and one chunk moves, or the 1000 ms wait times out.      *)
(* The bytes themselves are abstracted to counts; the status is a byte.   *)
(***************************************************************************)
EXTENDS Integers

CONSTANTS
    DataSizes,      \* byte counts a handler appends in one addData* call
    RecvSizes,      \* byte counts a handler asks recvData for
    Statuses,       \* status bytes a handler may set
    MaxCount,       \* bound on the bytes staged in the buffer per command
    MaxAdds,        \* bound on addData*/padDataToMul16 calls per command
    NONE            \* model value: nothing received yet

ASSUME /\ DataSizes \subseteq Nat /\ RecvSizes \subseteq Nat
       /\ 0 \in Statuses /\ MaxCount \in Nat /\ MaxAdds \in Nat

READ  == 1      \* DATA_DIRECTION_READ  (acsidatatrans.h)
WRITE == 2      \* DATA_DIRECTION_WRITE
SCSI_ST_OK == 0
CHUNK == 512    \* max bytes per ATN-gated transfer
MAX_PAYLOAD == 16777215   \* 0xffffff, the 24-bit length field

VARIABLES
    count, status, statusWasSet, dataDirection,   \* AcsiDataTrans members
    snap,           \* RetryModule copy of (direction, count, wasSet, status)
    pc,             \* where the core thread is
    left,           \* dataCount still to move in the current chunk loop
    recvCnt,        \* cnt passed to the running recvData
    recvd,          \* bytes recvData has copied into the destination
    recvRes,        \* result recvData returned to the handler
    started,        \* the far side has issued a command
    adds,           \* addData*/padDataToMul16 calls made by this handler
    isRetry,        \* the current attempt replays the snapshot
    resp,           \* ghost: the response the handler computed for this command
    gHdr, gData, gStatus, gFailed   \* what the far side got in this attempt

hostVars  == <<count, status, statusWasSet, dataDirection, snap>>
loopVars  == <<left, recvCnt, recvd, recvRes>>
guestVars == <<gHdr, gData, gStatus, gFailed>>
vars == <<hostVars, pc, loopVars, started, adds, isRetry, resp, guestVars>>

PCs == {"Idle", "Handler", "RecvWait", "SendWait", "StatusWait"}
Resp == [dir : {READ, WRITE}, count : 0..MaxCount, wasSet : BOOLEAN,
         status : Statuses]

TypeOK ==
    /\ count \in 0..MaxCount /\ status \in Statuses
    /\ statusWasSet \in BOOLEAN /\ dataDirection \in {READ, WRITE}
    /\ snap \in Resp /\ resp \in Resp
    /\ pc \in PCs /\ left \in 0..MAX_PAYLOAD /\ recvCnt \in Nat /\ recvd \in Nat
    /\ recvRes \in {"none", "ok", "fail"}
    /\ started \in BOOLEAN /\ adds \in 0..MaxAdds /\ isRetry \in BOOLEAN
    /\ gHdr \in [count : Nat, status : Statuses] \cup {NONE}
    /\ gData \in Nat /\ gStatus \in Statuses \cup {NONE}
    /\ gFailed \in BOOLEAN

Live == [dir |-> dataDirection, count |-> count, wasSet |-> statusWasSet,
         status |-> status]

\* clear(clearAlsoDataDirection)
ClearState(alsoDirection) ==
    /\ count' = 0 /\ status' = SCSI_ST_OK /\ statusWasSet' = FALSE
    /\ dataDirection' = IF alsoDirection THEN READ ELSE dataDirection

\* padDataToMul16: zero-fill up to the next multiple of 16
PadTo16(c) == IF c % 16 # 0 THEN c + (16 - (c % 16)) ELSE c

\* sendData_transferBlock: an odd byte count is sent as one more byte
EvenUp(c) == IF c % 2 # 0 THEN c + 1 ELSE c

\* bytes moved by one ATN-gated chunk
ChunkOf(n) == IF n > CHUNK THEN CHUNK ELSE n

Init ==
    /\ count = 0 /\ status = SCSI_ST_OK /\ statusWasSet = FALSE
    /\ dataDirection = READ
    /\ snap = [dir |-> READ, count |-> 0, wasSet |-> FALSE, status |-> SCSI_ST_OK]
    /\ resp = snap
    /\ pc = "Idle" /\ left = 0 /\ recvCnt = 0 /\ recvd = 0 /\ recvRes = "none"
    /\ started = FALSE /\ adds = 0 /\ isRetry = FALSE
    /\ gHdr = NONE /\ gData = 0 /\ gStatus = NONE /\ gFailed = FALSE

ResetGuest == gHdr' = NONE /\ gData' = 0 /\ gStatus' = NONE /\ gFailed' = FALSE

-----------------------------------------------------------------------------
(* Far side issues a new command; the command processor first clears the  *)
(* transport (FloppySetup::processCommand does dataTrans->clear()).        *)
NewCommand ==
    /\ pc = "Idle"
    /\ ClearState(TRUE)
    /\ pc' = "Handler" /\ started' = TRUE /\ adds' = 0 /\ isRetry' = FALSE
    /\ left' = 0 /\ recvCnt' = 0 /\ recvd' = 0 /\ recvRes' = "none"
    /\ ResetGuest
    /\ UNCHANGED <<snap, resp>>

\* addDataByte/Word/Dword/Bfr/CString (with padToMul16 when asked)
AddData(n, pad) ==
    /\ pc = "Handler" /\ adds < MaxAdds /\ adds' = adds + 1
    /\ (IF pad THEN PadTo16(count + n) ELSE count + n) <= MaxCount
    /\ count' = IF pad THEN PadTo16(count + n) ELSE count + n
    /\ UNCHANGED <<status, statusWasSet, dataDirection, snap, pc, loopVars,
                   started, isRetry, resp, guestVars>>

PadDataToMul16 ==
    /\ pc = "Handler" /\ adds < MaxAdds /\ adds' = adds + 1
    /\ count' = PadTo16(count)
    /\ UNCHANGED <<status, statusWasSet, dataDirection, snap, pc, loopVars,
                   started, isRetry, resp, guestVars>>

SetStatus(s) ==
    /\ pc = "Handler"
    /\ status' = s /\ statusWasSet' = TRUE
    /\ UNCHANGED <<adds, count, dataDirection, snap, pc, loopVars, started,
                   isRetry, resp, guestVars>>

(* recvData(data, cnt): direction becomes WRITE, recvData_start refuses a  *)
(* count above 16 MB, otherwise the chunk loop starts (and is done at once *)
(* for cnt = 0).  A handler pulls at most one parameter block.             *)
\* Variant: recvData_start without the 16 MB check
RecvDataNoLimit(cnt) ==
    /\ pc = "Handler" /\ recvRes = "none"
    /\ dataDirection' = WRITE
    /\ recvCnt' = cnt /\ recvd' = 0
    /\ IF cnt = 0
         THEN pc' = "Handler" /\ left' = 0 /\ recvRes' = "ok"
       ELSE pc' = "RecvWait" /\ left' = cnt /\ recvRes' = "none"
    /\ UNCHANGED <<adds, count, status, statusWasSet, snap, started, isRetry,
                   resp, guestVars>>

RecvData(cnt) ==
    /\ pc = "Handler" /\ recvRes = "none"
    /\ dataDirection' = WRITE
    /\ recvCnt' = cnt /\ recvd' = 0
    /\ IF cnt > MAX_PAYLOAD
         THEN pc' = "Handler" /\ left' = 0 /\ recvRes' = "fail"
       ELSE IF cnt = 0
         THEN pc' = "Handler" /\ left' = 0 /\ recvRes' = "ok"
       ELSE pc' = "RecvWait" /\ left' = cnt /\ recvRes' = "none"
    /\ UNCHANGED <<adds, count, status, statusWasSet, snap, started, isRetry,
                   resp, guestVars>>

\* recvData_transferBlock: ATN_WRITE_MORE_DATA came, one chunk is copied
RecvChunk ==
    /\ pc = "RecvWait"
    /\ LET sub == ChunkOf(left) IN
         /\ recvd' = recvd + sub
         /\ left' = left - sub
         /\ IF left' = 0 THEN pc' = "Handler" /\ recvRes' = "ok"
                         ELSE pc' = "RecvWait" /\ recvRes' = "none"
    /\ UNCHANGED <<adds, hostVars, recvCnt, started, isRetry, resp, guestVars>>

\* Variant: the caller is told the block arrived although the wait timed out
RecvTimeoutIgnored ==
    /\ pc = "RecvWait"
    /\ ClearState(FALSE)
    /\ pc' = "Handler" /\ recvRes' = "ok" /\ left' = 0
    /\ UNCHANGED <<adds, snap, recvCnt, recvd, started, isRetry, resp, guestVars>>

\* recvData_transferBlock: the wait timed out; clear(false) keeps direction
RecvTimeout ==
    /\ pc = "RecvWait"
    /\ ClearState(FALSE)
    /\ pc' = "Handler" /\ recvRes' = "fail" /\ left' = 0
    /\ UNCHANGED <<adds, snap, recvCnt, recvd, started, isRetry, resp, guestVars>>

(* The dispatch of sendDataAndStatus on the response r it sends: WRITE     *)
(* sends only the status (sendStatusToHans), an empty READ response with   *)
(* no status sends nothing, otherwise sendData_start puts count and status *)
(* in the header and sendData_transferBlock streams EvenUp(count) bytes.   *)
Dispatch(r) ==
    \/ /\ r.dir = WRITE
       /\ pc' = "StatusWait" /\ left' = 0 /\ gHdr' = NONE
    \/ /\ r.dir = READ /\ r.count = 0 /\ ~r.wasSet
       /\ pc' = "Idle" /\ left' = 0 /\ gHdr' = NONE
    \/ /\ r.dir = READ /\ (r.count # 0 \/ r.wasSet)
       /\ gHdr' = [count |-> r.count, status |-> r.status]
       /\ left' = EvenUp(r.count)
       /\ pc' = IF left' = 0 THEN "Idle" ELSE "SendWait"

\* sendDataAndStatus(false): snapshot the live response, then send it
SendDataAndStatus ==
    /\ pc = "Handler"
    /\ snap' = Live /\ resp' = Live
    /\ Dispatch(Live)
    /\ UNCHANGED <<adds, count, status, statusWasSet, dataDirection, recvCnt, recvd,
                   recvRes, started, isRetry, gData, gStatus, gFailed>>

\* Variant: a retry that sends the live members without restoring the copy
RetryCommandNoRestore ==
    /\ pc = "Idle" /\ started
    /\ started' = TRUE /\ isRetry' = TRUE
    /\ gData' = 0 /\ gStatus' = NONE /\ gFailed' = FALSE
    /\ Dispatch(Live)
    /\ UNCHANGED <<adds, count, status, statusWasSet, dataDirection, snap, resp,
                   recvCnt, recvd, recvRes>>

(* The far side asks again for the last response; sendDataAndStatus(true) *)
(* restores the snapshot into the live members and sends it.              *)
RetryCommand ==
    /\ pc = "Idle" /\ started
    /\ count' = snap.count /\ status' = snap.status
    /\ statusWasSet' = snap.wasSet /\ dataDirection' = snap.dir
    /\ started' = TRUE /\ isRetry' = TRUE
    /\ gData' = 0 /\ gStatus' = NONE /\ gFailed' = FALSE
    /\ Dispatch(snap)
    /\ UNCHANGED <<adds, snap, resp, recvCnt, recvd, recvRes>>

\* sendData_transferBlock: ATN_READ_MORE_DATA came, one chunk goes out
SendChunk ==
    /\ pc = "SendWait"
    /\ LET cntNow == ChunkOf(left) IN
         /\ gData' = gData + cntNow
         /\ left' = left - cntNow
         /\ pc' = IF left' = 0 THEN "Idle" ELSE "SendWait"
    /\ UNCHANGED <<adds, hostVars, recvCnt, recvd, recvRes, started, isRetry, resp,
                   gHdr, gStatus, gFailed>>

\* sendData_transferBlock: the wait timed out; clear() resets everything
SendTimeout ==
    /\ pc = "SendWait"
    /\ ClearState(TRUE)
    /\ pc' = "Idle" /\ left' = 0 /\ gFailed' = TRUE
    /\ UNCHANGED <<adds, snap, recvCnt, recvd, recvRes, started, isRetry, resp,
                   gHdr, gData, gStatus>>

\* sendStatusToHans: ATN_GET_STATUS came, the status byte goes out
SendStatusToHans ==
    /\ pc = "StatusWait"
    /\ gStatus' = status /\ pc' = "Idle"
    /\ UNCHANGED <<adds, hostVars, loopVars, started, isRetry, resp, gHdr, gData,
                   gFailed>>

\* Variant: a status wait that keeps waiting after its timeout
StatusTimeoutRewait ==
    /\ pc = "StatusWait"
    /\ UNCHANGED vars

\* sendStatusToHans: the wait timed out; clear()
StatusTimeout ==
    /\ pc = "StatusWait"
    /\ ClearState(TRUE)
    /\ pc' = "Idle" /\ gFailed' = TRUE
    /\ UNCHANGED <<adds, snap, loopVars, started, isRetry, resp, gHdr, gData, gStatus>>

Handler ==
    \/ \E n \in DataSizes, pad \in BOOLEAN : AddData(n, pad)
    \/ PadDataToMul16
    \/ \E s \in Statuses : SetStatus(s)
    \/ \E cnt \in RecvSizes : RecvData(cnt)
    \/ SendDataAndStatus

Wait ==
    \/ RecvChunk \/ RecvTimeout
    \/ SendChunk \/ SendTimeout
    \/ SendStatusToHans \/ StatusTimeout

Next == NewCommand \/ RetryCommand \/ Handler \/ Wait

(* The far side may stop raising ATNs at any point, so no fairness is     *)
(* assumed for the chunk steps; what the code guarantees is that each      *)
(* waitForATN gives up after 1000 ms, so the timeout steps are fair.        *)
Spec == Init /\ [][Next]_vars
        /\ WF_vars(RecvTimeout) /\ WF_vars(SendTimeout) /\ WF_vars(StatusTimeout)

-----------------------------------------------------------------------------
(* The response the far side must end up with when an attempt finishes    *)
(* without a timeout, for the response r the handler computed.            *)
Expected(r) ==
    IF r.dir = WRITE
      THEN [hdr |-> NONE, data |-> 0, st |-> r.status]
    ELSE IF r.count = 0 /\ ~r.wasSet
      THEN [hdr |-> NONE, data |-> 0, st |-> NONE]
    ELSE [hdr |-> [count |-> r.count, status |-> r.status],
          data |-> EvenUp(r.count), st |-> NONE]

Delivered == [hdr |-> gHdr, data |-> gData, st |-> gStatus]

(* ResponseDelivered: whenever an attempt (a first send or a retry after a *)
(* timeout cleared the transport) ends without a timeout, the far side got *)
(* exactly the header, the data bytes (rounded up to even, in 512-byte     *)
(* chunks) and the status the handler computed for the command: the retry *)
(* snapshot in sendDataAndStatus and the chunk loop in                     *)
(* sendData_transferBlock together.                                        *)
ResponseDelivered ==
    (pc = "Idle" /\ started /\ ~gFailed) => Delivered = Expected(resp)

(* RecvDeliversExactly: recvData reports success only when all cnt bytes  *)
(* were copied to the destination, and a failure leaves only whole        *)
(* 512-byte chunks copied (recvData_transferBlock).                        *)
RecvDeliversExactly ==
    /\ recvRes = "ok" => recvd = recvCnt
    /\ recvRes = "fail" => recvd < recvCnt \/ recvCnt > MAX_PAYLOAD
    /\ recvd % CHUNK = 0 \/ recvd = recvCnt

(* TransferEnds: a chunk loop or status wait always returns control to the *)
(* handler or to the command loop (each ATN moves the loop on, and every   *)
(* wait is bounded by its timeout).                                        *)
TransferEnds ==
    \A p \in {"RecvWait", "SendWait", "StatusWait"} :
        pc = p ~> pc \in {"Handler", "Idle"}
=============================================================================
