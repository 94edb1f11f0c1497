---------------------------- MODULE AccountStore ----------------------------
(***************************************************************************)
(* gateway/store/store.go and gateway/account/manager.go: the accounts on   *)
(* disk, in the store's memory and in the manager's map of runtimes.        *)
(*                                                                          *)
(* store.mu is held over the whole of Create and Delete, the file           *)
(* operations of flushLocked included; these are steps of their own here,   *)
(* since any of them can fail and the process or the machine can stop       *)
(* between two of them.  The manager's map has its own lock, taken after    *)
(* store.mu is released.                                                    *)
(***************************************************************************)
EXTENDS Naturals

CONSTANTS
    Ids,       \* account ids
    Requests,  \* concurrent Create and Delete requests
    NoId,
    NoRequest

ASSUME StoreAssumption == NoId \notin Ids /\ NoRequest \notin Requests

VARIABLES
    up,        \* the process runs
    records,   \* store.records
    file,      \* the file at store.path, as readers see it
    disk,      \* the content that survives a loss of power
    temp,      \* the temporary file of flushLocked
    holder,    \* the request that holds store.mu
    req,       \* the requests
    runtimes,  \* manager.runtimes
    skipped,   \* accounts Start could not activate
    used       \* ids that newAccountID has returned

storeVars == <<up, records, file, disk, temp, holder, req>>
vars == <<up, records, file, disk, temp, holder, req, runtimes, skipped, used>>

\* A file: the accounts written to it, and whether they have reached the
\* disk.  A torn file does not parse.
File == [data : SUBSET Ids, synced : BOOLEAN, torn : BOOLEAN]
Written(ids) == [data |-> ids, synced |-> FALSE, torn |-> FALSE]
Synced(f) == [f EXCEPT !.synced = TRUE]
Torn == [data |-> {}, synced |-> TRUE, torn |-> TRUE]
EmptyFile == [data |-> {}, synced |-> TRUE, torn |-> FALSE]

\* Where a request is: not begun, in flushLocked before one of its calls,
\* or past store.mu with the manager's map still to update.
Request ==
    [kind : {"none", "create", "delete"},
     id   : Ids \cup {NoId},
     at   : {"idle", "temp", "write", "sync", "rename", "dirsync", "map"}]
NoReq == [kind |-> "none", id |-> NoId, at |-> "idle"]

\* A missing file is an empty store.
Init ==
    /\ up = TRUE
    /\ records = {}
    /\ file = EmptyFile
    /\ disk = EmptyFile
    /\ temp = EmptyFile
    /\ holder = NoRequest
    /\ req = [r \in Requests |-> NoReq]
    /\ runtimes = {}
    /\ skipped = {}
    /\ used = {}

At(r, step) == req[r].at = step
Goto(r, step) == req' = [req EXCEPT ![r] = [@ EXCEPT !.at = step]]

-----------------------------------------------------------------------------
\* Create and Delete, up to flushLocked.

\* newAccountID is random and returns no id twice.  The venue was asked
\* before, without any lock.
Create(r, id) ==
    /\ up /\ At(r, "idle") /\ holder = NoRequest
    /\ id \notin used
    /\ records' = records \cup {id}
    /\ holder' = r
    /\ req' = [req EXCEPT ![r] = [kind |-> "create", id |-> id, at |-> "temp"]]
    /\ used' = used \cup {id}
    /\ UNCHANGED <<up, file, disk, temp, runtimes, skipped>>

Delete(r, id) ==
    /\ up /\ At(r, "idle") /\ holder = NoRequest
    /\ id \in records
    /\ records' = records \ {id}
    /\ holder' = r
    /\ req' = [req EXCEPT ![r] = [kind |-> "delete", id |-> id, at |-> "temp"]]
    /\ UNCHANGED <<up, file, disk, temp, runtimes, skipped, used>>

\* Create with an existing id and Delete of a missing one return ErrExists
\* and ErrNotFound and change nothing.

-----------------------------------------------------------------------------
\* flushLocked.

CreateTemp(r) ==
    /\ At(r, "temp")
    /\ Goto(r, "write")
    /\ UNCHANGED <<up, records, file, disk, temp, holder, runtimes, skipped, used>>

Write(r) ==
    /\ At(r, "write")
    /\ temp' = Written(records)
    /\ Goto(r, "sync")
    /\ UNCHANGED <<up, records, file, disk, holder, runtimes, skipped, used>>

\* Faulty variant: the temporary file is closed without Sync.
SyncSkipped(f) == f

SyncTemp(f) == Synced(f)

Sync(r) ==
    /\ At(r, "sync")
    /\ temp' = SyncTemp(temp)
    /\ Goto(r, "rename")
    /\ UNCHANGED <<up, records, file, disk, holder, runtimes, skipped, used>>

Rename(r) ==
    /\ At(r, "rename")
    /\ file' = temp
    /\ temp' = EmptyFile
    /\ Goto(r, "dirsync")
    /\ UNCHANGED <<up, records, disk, holder, runtimes, skipped, used>>

\* Faulty variant: Delete forgets to undo its change of memory.
UndoCreateOnly(q) == IF q.kind = "create" THEN records \ {q.id} ELSE records

\* The callers of flushLocked undo their change when it returns an error.
Undo(q) == IF q.kind = "create" THEN records \ {q.id} ELSE records \cup {q.id}

\* MkdirAll, CreateTemp, Chmod, Write, Sync, Close or Rename fails; the
\* temporary file is removed.
FlushFails(r) ==
    /\ req[r].at \in {"temp", "write", "sync", "rename"}
    /\ records' = Undo(req[r])
    /\ temp' = EmptyFile
    /\ holder' = NoRequest
    /\ req' = [req EXCEPT ![r] = NoReq]
    /\ UNCHANGED <<up, file, disk, runtimes, skipped, used>>

\* The directory is synced or not, its error is ignored; store.mu is released.
DirSync(r) ==
    /\ At(r, "dirsync")
    /\ disk' \in {disk, file}
    /\ holder' = NoRequest
    /\ Goto(r, "map")
    /\ UNCHANGED <<up, records, file, temp, runtimes, skipped, used>>

-----------------------------------------------------------------------------
\* The manager's map.

\* Faulty variant: Create does not register the runtime it verified with.
RegisterNothing(q) == runtimes \ {q.id}

Registered(q) == IF q.kind = "create" THEN runtimes \cup {q.id} ELSE runtimes \ {q.id}

\* The end of Manager.Create and of Manager.Delete, under manager.mu.
UpdateMap(r) ==
    /\ At(r, "map")
    /\ runtimes' = Registered(req[r])
    /\ req' = [req EXCEPT ![r] = NoReq]
    /\ UNCHANGED <<up, records, file, disk, temp, holder, skipped, used>>

-----------------------------------------------------------------------------
\* Crashes and restarts.

Stopped ==
    /\ up' = FALSE
    /\ records' = {}
    /\ temp' = EmptyFile
    /\ holder' = NoRequest
    /\ req' = [r \in Requests |-> NoReq]
    /\ runtimes' = {}
    /\ skipped' = {}

\* The process ends; the kernel keeps the files.
Crash ==
    /\ up
    /\ Stopped
    /\ UNCHANGED <<file, disk, used>>

\* After a loss of power the directory entry is the old or the new one, and
\* a file that was renamed before its data reached the disk is torn.
PowerLoss ==
    /\ Stopped
    /\ \E f \in {disk, IF file.synced THEN file ELSE Torn} : file' = f /\ disk' = f
    /\ UNCHANGED used

\* Faulty variant: a missing file is an error.
CanOpenExisting(f) == ~f.torn /\ f.data # {}

\* Open succeeds: a missing file is an empty store, a torn one is an error.
CanOpen(f) == ~f.torn

\* main: Open reads the file, Start activates the accounts it can.
Restart ==
    /\ ~up
    /\ CanOpen(file)
    /\ up' = TRUE
    /\ records' = file.data
    /\ runtimes' \in SUBSET file.data
    /\ skipped' = file.data \ runtimes'
    /\ UNCHANGED <<file, disk, temp, holder, req, used>>

-----------------------------------------------------------------------------
RequestStep(r) ==
    \/ CreateTemp(r)
    \/ Write(r)
    \/ Sync(r)
    \/ Rename(r)
    \/ FlushFails(r)
    \/ DirSync(r)
    \/ UpdateMap(r)

Next ==
    \/ \E r \in Requests :
          \/ \E id \in Ids : Create(r, id) \/ Delete(r, id)
          \/ RequestStep(r)
    \/ Crash
    \/ PowerLoss
    \/ Restart

Spec == Init /\ [][Next]_vars

\* A request that holds store.mu goes on; the process is started again.
Fairness == WF_vars(Restart) /\ \A r \in Requests : WF_vars(RequestStep(r))

FairSpec == Spec /\ Fairness

-----------------------------------------------------------------------------
\* Properties.

\* Every variable has its type.
TypeOK ==
    /\ up \in BOOLEAN
    /\ records \in SUBSET Ids
    /\ file \in File
    /\ disk \in File
    /\ temp \in File
    /\ holder \in Requests \cup {NoRequest}
    /\ req \in [Requests -> Request]
    /\ runtimes \in SUBSET Ids
    /\ skipped \in SUBSET Ids
    /\ used \in SUBSET Ids

\* Whenever store.mu is free the store's memory is what a restart would read:
\* no failed step of flushLocked leaves the two apart.
MemoryMatchesFile == up /\ holder = NoRequest => records = file.data

\* No crash, at whatever step of flushLocked, leaves a file that Open calls
\* corrupt: a torn file would keep the gateway from starting.
FileNeverTorn == ~file.torn /\ ~disk.torn

\* When no request is under way, every stored account has a runtime unless
\* Start reported that it could not activate it.
StoredIsActive ==
    up /\ (\A r \in Requests : At(r, "idle")) => records \subseteq runtimes \cup skipped

\* A stopped gateway starts again: after a crash at any step it comes back
\* with its memory and its file in agreement.
Recovers == ~up ~> (up /\ records = file.data)

\* The accounts that the next Open reads follow DurableAccounts.
Durable == INSTANCE DurableAccounts WITH accounts <- file.data, settled <- disk.data
RefinesDurable == Durable!DurableSpec
=============================================================================
