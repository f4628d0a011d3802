------------------------------ MODULE TimeSync ------------------------------
(***************************************************************************)
(* Setting the Raspberry Pi's clock from an NTP server                    *)
(* (src/cosmosex/timesync.cpp).  TimeSync::sync() gives up when no       *)
(* interface has an address, otherwise refreshNetworkDateNtp() opens a    *)
(* UDP socket, sets a 10 s receive timeout, sends one request and waits  *)
(* for one answer; syncByNtp() then sets the system clock with            *)
(* settimeofday().  Every system call may fail, the request or the answer *)
(* may be lost (the receive times out), and sync() may be called again   *)
(* on the same object.                                                     *)
(*                                                                         *)
(* A sync() call is one step: it runs to its end on the calling thread.  *)
(* An NTP answer is a record of the seconds of its reference, receive and *)
(* transmit timestamps; NTP_UNIX is the distance of the NTP era from the *)
(* Unix epoch (2208988800, scaled down in the instance).                  *)
(***************************************************************************)
EXTENDS Integers

CONSTANTS
    Answers,        \* NTP answers a server may send: [ref, rx, tx] seconds
    NTP_UNIX,       \* seconds from 1900 to 1970
    LONG_BYTES,     \* sizeof(unsigned long) of the build: 4 or 8
    MaxFds,         \* descriptors the process may have open
    BootTime,       \* the clock before any settimeofday
    Unset           \* lTime before the first answer (never initialised)

ASSUME LONG_BYTES \in {4, 8}

VARIABLES
    iInitState,     \* INIT_NONE, INIT_NTP_FAILED, INIT_DATE_NOT_SET, INIT_OK
    lTime,          \* the time taken from the last answer
    clock,          \* the system clock
    fds,            \* sockets refreshNetworkDateNtp has opened (none is closed)
    last            \* ghost: what the last sync() met and returned; calls:
                    \* every system call it made succeeded

vars == <<iInitState, lTime, clock, fds, last>>

InitStates == {"INIT_NONE", "INIT_NTP_FAILED", "INIT_DATE_NOT_SET", "INIT_OK"}

(* tmit = ntohl((time_t)buf[4]): buf is unsigned long[], so buf[4] starts *)
(* at byte 4 * sizeof(long).  With 4-byte longs that is word 4 of the     *)
(* packet, the reference timestamp's seconds; with 8-byte longs on a     *)
(* little-endian CPU the low half is bytes 32..35, the receive            *)
(* timestamp's seconds.  The transmit timestamp is at bytes 40..43.      *)
Buf4(answer) == IF LONG_BYTES = 4 THEN answer.ref ELSE answer.rx

\* mutant: the NTP seconds used without moving them to the Unix epoch
UnixTimeNoEra(answer) == Buf4(answer)

\* tmit -= 2208988800U
UnixTime(answer) == Buf4(answer) - NTP_UNIX

Init ==
    /\ iInitState = "INIT_NONE"                     \* the constructor
    /\ lTime = Unset
    /\ clock = BootTime
    /\ fds = 0
    /\ last = [up |-> FALSE, calls |-> FALSE, exchange |-> "none",
               answer |-> Unset, result |-> FALSE]

(* Mutant of SyncByNtp: syncByNtp setting the clock without looking at  *)
(* iInitState.                                                            *)
SyncByNtpNoFailCheck ==
    \E sockOk, optOk, sendOk, recvOk, setOk \in BOOLEAN, answer \in Answers :
        LET opened   == sockOk /\ fds < MaxFds
            answered == opened /\ optOk /\ sendOk /\ recvOk
            state1   == IF answered THEN iInitState ELSE "INIT_NTP_FAILED"
            time1    == IF answered THEN UnixTime(answer) ELSE lTime
            setting  == TRUE
        IN /\ fds' = IF opened THEN fds + 1 ELSE fds
           /\ lTime' = time1
           /\ iInitState' = IF ~setting THEN state1
                            ELSE IF setOk THEN "INIT_OK" ELSE "INIT_DATE_NOT_SET"
           /\ clock' = IF setting /\ setOk THEN time1 ELSE clock
           /\ last' = [up |-> TRUE, calls |-> answered /\ setOk,
                       exchange |-> IF answered THEN "answered" ELSE "failed",
                       answer |-> IF answered THEN answer ELSE Unset,
                       result |-> setting /\ setOk]

(* refreshNetworkDateNtp: socket() (it fails when the descriptors are    *)
(* used up), setsockopt(), sendto() and recvfrom() each may fail, the     *)
(* last one also when the 10 s timeout passes without an answer; any     *)
(* failure sets INIT_NTP_FAILED and returns.  An answer sets lTime and   *)
(* leaves iInitState as it is.  The socket is never closed.  syncByNtp:  *)
(* returns false while iInitState is INIT_NTP_FAILED, else settimeofday  *)
(* sets INIT_DATE_NOT_SET or the clock and INIT_OK.                       *)
SyncByNtp ==
    \E sockOk, optOk, sendOk, recvOk, setOk \in BOOLEAN, answer \in Answers :
        LET opened   == sockOk /\ fds < MaxFds
            answered == opened /\ optOk /\ sendOk /\ recvOk
            state1   == IF answered THEN iInitState ELSE "INIT_NTP_FAILED"
            time1    == IF answered THEN UnixTime(answer) ELSE lTime
            setting  == state1 # "INIT_NTP_FAILED"
        IN /\ fds' = IF opened THEN fds + 1 ELSE fds
           /\ lTime' = time1
           /\ iInitState' = IF ~setting THEN state1
                            ELSE IF setOk THEN "INIT_OK" ELSE "INIT_DATE_NOT_SET"
           /\ clock' = IF setting /\ setOk THEN time1 ELSE clock
           /\ last' = [up |-> TRUE, calls |-> answered /\ setOk,
                       exchange |-> IF answered THEN "answered" ELSE "failed",
                       answer |-> IF answered THEN answer ELSE Unset,
                       result |-> setting /\ setOk]

(* sync(): with no address on any interface it returns false at once;   *)
(* otherwise it returns what syncByNtp returns.                          *)
Sync ==
    \/ /\ last' = [up |-> FALSE, calls |-> FALSE, exchange |-> "none",
                   answer |-> Unset, result |-> FALSE]
       /\ UNCHANGED <<iInitState, lTime, clock, fds>>
    \/ SyncByNtp

Next == Sync

Spec == Init /\ [][Next]_vars

-----------------------------------------------------------------------------
\* the seconds of any timestamp of an answer, counted from 1970
EpochTimes == UNION {{a.ref - NTP_UNIX, a.rx - NTP_UNIX, a.tx - NTP_UNIX} : a \in Answers}

(* The clock and lTime only ever hold the boot time (unset) or a time of  *)
(* an answer counted from the Unix epoch, never an NTP-era count.         *)
TypeOK ==
    /\ iInitState \in InitStates
    /\ lTime \in EpochTimes \cup {Unset} /\ clock \in EpochTimes \cup {BootTime}
    /\ fds \in 0..MaxFds
    /\ last.up \in BOOLEAN /\ last.exchange \in {"none", "answered", "failed"}
    /\ last.answer \in Answers \cup {Unset}
    /\ last.calls \in BOOLEAN /\ last.result \in BOOLEAN

(* A sync() that returns true has set the clock from the answer of this  *)
(* very call, never from an lTime left by an earlier exchange (nor from  *)
(* the uninitialised one) when this call's exchange failed.              *)
SyncTrueUsesThisAnswer ==
    [][last'.result => /\ last'.exchange = "answered"
                       /\ clock' = UnixTime(last'.answer)]_vars

(* A sync() that finds the network up and whose system calls all succeed *)
(* (socket, setsockopt, sendto, recvfrom, settimeofday) returns true: a  *)
(* later sync() does what an earlier, failed one could not.              *)
RetrySucceeds ==
    [][last'.up /\ last'.calls => last'.result]_vars

====
