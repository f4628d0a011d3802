---------------------------- MODULE GemdosSearch ----------------------------
(***************************************************************************)
(* Directory search of the GEMDOS translator (onFsfirst, onFsnext,         *)
(* onFsnext_last in translateddisk_gemdos.cpp) over the findStorages[]     *)
(* table, together with the guests that page through their searches.      *)
(*                                                                         *)
(* A search is a model value; what the DirTranslator builds for it is the  *)
(* number of its entries (Found), or NOMATCH when the build fails.  The    *)
(* entries of a stored search are identified by their index 0..count-1.   *)
(* A guest search is keyed by its DTA address.  The guest sends the index *)
(* it has reached (the spec); UntrustedSpec lets it send any index.        *)
(***************************************************************************)
EXTENDS Integers, FiniteSets

CONSTANTS
    MAX_FIND_STORAGES,  \* size of findStorages[]
    DTAs,               \* DTA addresses guests search with
    Searches,           \* search strings that translate to a host path
    ForeignSearches,    \* search strings createHostPath rejects
    Found,              \* [Searches -> entry count or NOMATCH]
    MaxIndex,           \* largest dirIndex an untrusted guest passes
    MaxCalls,           \* bound: Fsnext replies with records per guest search
    NOMATCH, NONE

ASSUME /\ MAX_FIND_STORAGES \in Nat \ {0}
       /\ Found \in [Searches -> Nat \cup {NOMATCH}]
       /\ MaxIndex \in Nat

E_OK == 0
EINTRN == -65
EFILNF == -33
ENMFIL == -49
EIHNDL == -37
E_NOTHANDLED == 32

\* records per Fsnext reply: a 512-byte block less the leading count word
DTA_SPACE == (512 - 2) \div 23

Idx == 0 .. (MAX_FIND_STORAGES - 1)
Counts == {Found[s] : s \in {t \in Searches : Found[t] # NOMATCH}}
MaxCount == CHOOSE c \in Counts \cup {0} : \A e \in Counts : e <= c
EmptyStorage == [dta |-> NONE, count |-> 0, search |-> NONE]
NoSearch == [search |-> NONE, index |-> 0, got |-> {}, dup |-> FALSE, calls |-> 0, done |-> FALSE]

VARIABLES
    findStorages,   \* slot -> dta, count, search stored by the last Fsfirst
    status,         \* status byte of the last command
    guest,          \* DTA -> the guest's view of its search (environment and ghost)
    lastSent        \* ghost: [from, n, count] of the last Fsnext reply with records

vars == <<findStorages, status, guest, lastSent>>

TypeOK ==
    /\ findStorages \in [Idx -> [dta : DTAs \cup {NONE}, count : 0..MaxCount,
                                 search : Searches \cup {NONE}]]
    /\ guest \in [DTAs -> [search : Searches \cup {NONE}, index : 0..MaxIndex + MaxCount,
                           got : SUBSET (0..MaxIndex + MaxCount), dup : BOOLEAN,
                           calls : 0..MaxCalls, done : BOOLEAN]]
    /\ lastSent \in [from : Int, n : Int, count : Nat] \cup {NONE}

Lowest(S) == CHOOSE i \in S : \A j \in S : i <= j

\* getFindStorageIndexByDta: the slot holding this DTA, or -1
GetFindStorageIndexByDta(d) ==
    IF \E i \in Idx : findStorages[i].dta = d
    THEN Lowest({i \in Idx : findStorages[i].dta = d}) ELSE -1

\* getEmptyFindStorageIndex: the first slot holding no DTA, or -1
GetEmptyFindStorageIndex ==
    IF \E i \in Idx : findStorages[i].dta = NONE
    THEN Lowest({i \in Idx : findStorages[i].dta = NONE}) ELSE -1

\* mutant: a new slot for every Fsfirst, even when the DTA already has one
FsfirstSlotNoReuse(d) == GetEmptyFindStorageIndex

\* onFsfirst's slot: the DTA's own slot if it has one, else the first empty one
FsfirstSlot(d) ==
    IF GetFindStorageIndexByDta(d) # -1 THEN GetFindStorageIndexByDta(d)
    ELSE GetEmptyFindStorageIndex

\* mutant: always a full reply, whatever remains
DtaToSendNoMin(count, dirIndex) == DTA_SPACE

\* mutant: the reply size bounded by the whole list instead of what remains
DtaToSendFromCount(count, dirIndex) == IF count < DTA_SPACE THEN count ELSE DTA_SPACE

\* onFsnext: records in one reply, min(remaining, DTA_SPACE)
DtaToSend(count, dirIndex) ==
    IF count - dirIndex < DTA_SPACE THEN count - dirIndex ELSE DTA_SPACE

Init ==
    /\ findStorages = [i \in Idx |-> EmptyStorage]
    /\ status = E_OK
    /\ guest = [d \in DTAs |-> NoSearch]
    /\ lastSent = NONE

\* onFsfirst: recvData, createHostPath, build the list, store it under the DTA
\* (reusing the DTA's slot, else the first empty one).  A guest whose
\* Fsfirst fails does not page on.
FsfirstFails(d, s, st) ==
    /\ status' = st
    /\ guest' = [guest EXCEPT ![d] = NoSearch]
    /\ UNCHANGED <<findStorages, lastSent>>

Fsfirst(d, s) ==
    LET idx == FsfirstSlot(d) IN
    \/ FsfirstFails(d, s, EINTRN)                                  \* recvData failed
    \/ s \in ForeignSearches /\ FsfirstFails(d, s, E_NOTHANDLED)
    \/ s \in Searches /\ Found[s] = NOMATCH /\ FsfirstFails(d, s, EFILNF)
    \/ s \in Searches /\ Found[s] # NOMATCH /\ idx = -1 /\ FsfirstFails(d, s, EFILNF)
    \/ /\ s \in Searches /\ Found[s] # NOMATCH /\ idx # -1
       /\ findStorages' = [findStorages EXCEPT ![idx] = [dta |-> d, count |-> Found[s], search |-> s]]
       /\ status' = E_OK
       /\ guest' = [guest EXCEPT ![d] = [NoSearch EXCEPT !.search = s]]
       /\ UNCHANGED lastSent

\* onFsnext: send min(remaining, DTA_SPACE) records from dirIndex on; when
\* exactly none remain, clear the slot and answer ENMFIL.
Fsnext(d, dirIndex) ==
    LET idx == GetFindStorageIndexByDta(d)
        fs == findStorages[idx]
        dtaRemaining == fs.count - dirIndex
        dtaToSend == DtaToSend(fs.count, dirIndex)
        range == dirIndex .. (dirIndex + dtaToSend - 1)
        g == guest[d]
    IN
    /\ \/ /\ idx = -1
          /\ status' = ENMFIL
          /\ guest' = [guest EXCEPT ![d].done = TRUE]
          /\ UNCHANGED <<findStorages, lastSent>>
       \/ /\ idx # -1 /\ dtaRemaining = 0
          /\ findStorages' = [findStorages EXCEPT ![idx] = EmptyStorage]
          /\ status' = ENMFIL
          /\ guest' = [guest EXCEPT ![d].done = TRUE]
          /\ UNCHANGED lastSent
       \/ /\ idx # -1 /\ dtaRemaining # 0
          /\ g.calls < MaxCalls
          /\ status' = E_OK
          /\ lastSent' = [from |-> dirIndex, n |-> dtaToSend, count |-> fs.count]
          /\ guest' = [guest EXCEPT ![d] = [g EXCEPT !.index = dirIndex + dtaToSend,
                                                   !.got = g.got \cup range,
                                                   !.dup = g.dup \/ (g.got \cap range # {}),
                                                   !.calls = g.calls + 1]]
          /\ UNCHANGED findStorages

\* onFsnext_last: release the DTA's slot
FsnextLast(d) ==
    LET idx == GetFindStorageIndexByDta(d) IN
    /\ UNCHANGED lastSent
    /\ \/ idx = -1 /\ status' = EIHNDL /\ UNCHANGED <<findStorages, guest>>
       \/ /\ idx # -1
          /\ findStorages' = [findStorages EXCEPT ![idx] = EmptyStorage]
          /\ status' = E_OK
          /\ guest' = [guest EXCEPT ![d] = NoSearch]

\* A guest calls Fsnext on any DTA at any time (also after "no more files"
\* or a failed Fsfirst), passing the index its DTA has reached.
GuestFsnext == \E d \in DTAs : Fsnext(d, guest[d].index)

Next ==
    \/ \E d \in DTAs, s \in Searches \cup ForeignSearches : Fsfirst(d, s)
    \/ GuestFsnext
    \/ \E d \in DTAs : FsnextLast(d)

Spec == Init /\ [][Next]_vars

\* The dirIndex is a word of the command from the guest: a guest that does
\* not keep it (or a corrupted command) may pass any index.
UntrustedFsnext == \E d \in DTAs, i \in 0..MaxIndex : Fsnext(d, i)

UntrustedSpec == Init /\ [][Next \/ UntrustedFsnext]_vars
-----------------------------------------------------------------------------
(* Properties *)

CeilDiv(a, b) == (a + b - 1) \div b

\* The spec's pagination claim: a guest that pages a search from index 0
\* gets every entry exactly once and its "no more files" after exactly
\* ceil(N / DTA_SPACE) replies with records (onFsfirst storing the list,
\* onFsnext's remaining/space arithmetic and the clear at the end).
EveryEntryOnce ==
    \A d \in DTAs :
        (guest[d].done /\ guest[d].search # NONE) =>
            LET n == Found[guest[d].search] IN
            /\ guest[d].got = 0 .. (n - 1)
            /\ ~guest[d].dup
            /\ guest[d].calls = CeilDiv(n, DTA_SPACE)

\* Every Fsnext reply with records sends at least one record, all of them
\* inside the list stored for the DTA (the copy in onFsnext reads
\* fs->buffer from dirIndex * 23 for dtaToSend * 23 bytes).
FsnextWithinStorage ==
    lastSent # NONE =>
        /\ lastSent.n >= 1
        /\ lastSent.from + lastSent.n <= lastSent.count
====
