------------------------- MODULE AccountStoreProofs -------------------------
(***************************************************************************)
(* Proofs about AccountStore, for any number of accounts and of concurrent  *)
(* requests, with crashes and losses of power at every step.                *)
(***************************************************************************)
EXTENDS AccountStore, TLAPS

\* Steps of flushLocked before its rename, and all of them.
Unrenamed == {"temp", "write", "sync", "rename"}
Flushing == Unrenamed \cup {"dirsync"}

\* store.mu is held exactly by the request that is in flushLocked.
LockHeld ==
    /\ \A r \in Requests : req[r].at \in Flushing <=> holder = r
    /\ ~up => holder = NoRequest

\* Before the rename, memory and file differ by the request's account only.
OneAhead(q, mem, f) ==
    \/ q.kind = "create" /\ q.id \notin f.data /\ mem = f.data \cup {q.id}
    \/ q.kind = "delete" /\ q.id \in f.data /\ mem = f.data \ {q.id}

FlushAhead ==
    \A r \in Requests :
        /\ req[r].at # "idle" => req[r].id \in Ids
        /\ req[r].at \in Unrenamed => OneAhead(req[r], records, file)
        /\ req[r].at \in {"sync", "rename"} => temp.data = records
        /\ req[r].at = "rename" => temp.synced
        /\ req[r].at = "dirsync" => records = file.data

\* What is at store.path, or about to be, can be read.
FilesWhole == file.synced /\ disk.synced /\ ~file.torn /\ ~disk.torn /\ ~temp.torn

\* No id outside `used` is stored.
StoredUsed == records \subseteq used /\ file.data \subseteq used /\ disk.data \subseteq used

IInv ==
    /\ TypeOK
    /\ LockHeld
    /\ FlushAhead
    /\ FilesWhole
    /\ StoredUsed
    /\ MemoryMatchesFile

LEMMA InitIInv == Init => IInv
  <1> SUFFICES ASSUME Init PROVE IInv
    OBVIOUS
  <1> USE StoreAssumption DEF Init
  <1>1. TypeOK
    BY DEF TypeOK, EmptyFile, File, NoReq, Request
  <1>2. \A r \in Requests : req[r].at = "idle"
    BY DEF NoReq
  <1>3. LockHeld /\ FlushAhead
    BY <1>2 DEF LockHeld, FlushAhead, Flushing, Unrenamed
  <1>4. FilesWhole /\ StoredUsed /\ MemoryMatchesFile
    BY DEF FilesWhole, StoredUsed, MemoryMatchesFile, EmptyFile
  <1>5. QED
    BY <1>1, <1>3, <1>4 DEF IInv

-----------------------------------------------------------------------------
\* The requests.

\* A step of request r, where the others stay as they are: what is left to
\* show is about r.
LEMMA OnlyRequest ==
    ASSUME IInv, NEW r \in Requests, NEW q \in Request, req' = [req EXCEPT ![r] = q],
           holder \in {NoRequest, r}, holder' \in {NoRequest, r}, up' = up, up,
           TypeOK', FilesWhole', StoredUsed', MemoryMatchesFile',
           q.at \in Flushing <=> holder' = r,
           q.at # "idle" => q.id \in Ids,
           q.at \in Unrenamed => OneAhead(q, records', file'),
           q.at \in {"sync", "rename"} => temp'.data = records',
           q.at = "rename" => temp'.synced,
           q.at = "dirsync" => records' = file'.data
    PROVE  IInv'
  <1>1. req'[r] = q /\ \A p \in Requests \ {r} : req'[p] = req[p]
    BY DEF IInv, TypeOK
  <1>2. \A p \in Requests \ {r} : req[p].at \notin Flushing
    BY StoreAssumption DEF IInv, LockHeld
  <1>3. LockHeld'
    BY <1>1, <1>2, StoreAssumption DEF IInv, LockHeld
  <1>4. FlushAhead'
    BY <1>1, <1>2 DEF IInv, FlushAhead, Flushing, Unrenamed, OneAhead
  <1>5. QED
    BY <1>3, <1>4 DEF IInv

\* A request in flushLocked holds the lock of a running process.
LEMMA InFlush ==
    ASSUME IInv, NEW r \in Requests, req[r].at \in Flushing
    PROVE  /\ holder = r
           /\ up
           /\ req[r] \in Request
           /\ records \in SUBSET Ids /\ file \in File /\ disk \in File /\ temp \in File
           /\ req \in [Requests -> Request]
  BY StoreAssumption DEF IInv, LockHeld, TypeOK

LEMMA CreateIInv ==
    ASSUME IInv, NEW r \in Requests, NEW id \in Ids, Create(r, id)
    PROVE  IInv'
  <1> DEFINE q == [kind |-> "create", id |-> id, at |-> "temp"]
  <1>1. q \in Request /\ req' = [req EXCEPT ![r] = q] /\ holder' = r /\ holder = NoRequest /\ up
    BY DEF Create, Request
  <1>2. records = file.data /\ id \notin file.data
    BY <1>1 DEF IInv, MemoryMatchesFile, StoredUsed, Create
  <1>3. records' = file.data \cup {id} /\ file' = file /\ disk' = disk /\ temp' = temp /\ up' = up
    BY <1>2 DEF Create
  <1>4. OneAhead(q, records', file')
    BY <1>2, <1>3 DEF OneAhead
  <1>5. TypeOK'
    BY <1>1 DEF IInv, TypeOK, Create
  <1>6. FilesWhole' /\ StoredUsed' /\ MemoryMatchesFile'
    BY <1>1, <1>3, StoreAssumption DEF IInv, FilesWhole, StoredUsed, MemoryMatchesFile, Create
  <1>7. q.at = "temp" /\ q.id \in Ids
    OBVIOUS
  <1> HIDE DEF q
  <1>8. QED
    BY <1>1, <1>3, <1>4, <1>5, <1>6, <1>7, OnlyRequest, Zenon DEF Flushing, Unrenamed

LEMMA DeleteIInv ==
    ASSUME IInv, NEW r \in Requests, NEW id \in Ids, Delete(r, id)
    PROVE  IInv'
  <1> DEFINE q == [kind |-> "delete", id |-> id, at |-> "temp"]
  <1>1. q \in Request /\ req' = [req EXCEPT ![r] = q] /\ holder' = r /\ holder = NoRequest /\ up
    BY DEF Delete, Request
  <1>2. records = file.data /\ id \in file.data
    BY <1>1 DEF IInv, MemoryMatchesFile, Delete
  <1>3. records' = file.data \ {id} /\ file' = file /\ disk' = disk /\ temp' = temp /\ up' = up
    BY <1>2 DEF Delete
  <1>4. OneAhead(q, records', file')
    BY <1>2, <1>3 DEF OneAhead
  <1>5. TypeOK'
    BY <1>1 DEF IInv, TypeOK, Delete
  <1>6. FilesWhole' /\ StoredUsed' /\ MemoryMatchesFile'
    BY <1>1, <1>3, StoreAssumption DEF IInv, FilesWhole, StoredUsed, MemoryMatchesFile, Delete
  <1>7. q.at = "temp" /\ q.id \in Ids
    OBVIOUS
  <1> HIDE DEF q
  <1>8. QED
    BY <1>1, <1>3, <1>4, <1>5, <1>6, <1>7, OnlyRequest, Zenon DEF Flushing, Unrenamed

\* CreateTemp, Write, Sync and Rename: the request moves on within flushLocked.
LEMMA FlushStepIInv ==
    ASSUME IInv, NEW r \in Requests, CreateTemp(r) \/ Write(r) \/ Sync(r) \/ Rename(r)
    PROVE  IInv'
  <1>1. req[r].at \in Unrenamed
    BY DEF CreateTemp, Write, Sync, Rename, At, Unrenamed
  <1>2. /\ holder = r /\ up /\ req[r] \in Request /\ req \in [Requests -> Request]
        /\ records \in SUBSET Ids /\ file \in File /\ disk \in File /\ temp \in File
    BY <1>1, InFlush DEF Flushing
  <1>3. OneAhead(req[r], records, file) /\ req[r].id \in Ids
    BY <1>1 DEF IInv, FlushAhead, Unrenamed
  <1>4. UNCHANGED <<up, records, disk, holder, runtimes, skipped, used>>
    BY DEF CreateTemp, Write, Sync, Rename
  <1>5. ASSUME NEW step \in {"write", "sync", "rename", "dirsync"}, Goto(r, step),
               temp' \in File, file' \in File, file'.synced, ~file'.torn, ~temp'.torn,
               file'.data \subseteq used,
               step # "dirsync" => file' = file,
               step \in {"sync", "rename"} => temp'.data = records,
               step = "rename" => temp'.synced,
               step = "dirsync" => file'.data = records
        PROVE  IInv'
    <2> DEFINE q == [req[r] EXCEPT !.at = step]
    <2>1. q \in Request /\ q.at = step /\ q.id = req[r].id /\ q.kind = req[r].kind
      BY <1>2 DEF Request
    <2>2. req' = [req EXCEPT ![r] = q]
      BY <1>5 DEF Goto
    <2> HIDE DEF q
    <2>3. q.at \in Unrenamed => OneAhead(q, records', file')
      <3>1. q.at \in Unrenamed => file' = file
        BY <1>5, <2>1 DEF Unrenamed
      <3>2. file' = file => (OneAhead(q, records', file') <=> OneAhead(req[r], records, file))
        BY <1>4, <2>1 DEF OneAhead
      <3>3. QED
        BY <1>3, <3>1, <3>2
    <2>4. TypeOK'
      BY <1>2, <1>4, <1>5, <2>1, <2>2 DEF IInv, TypeOK
    <2>5. FilesWhole' /\ StoredUsed' /\ MemoryMatchesFile'
      BY <1>2, <1>4, <1>5, StoreAssumption DEF IInv, FilesWhole, StoredUsed, MemoryMatchesFile
    <2>6. /\ q.at \in Flushing
          /\ q.id \in Ids
          /\ q.at \in {"sync", "rename"} => temp'.data = records'
          /\ q.at = "rename" => temp'.synced
          /\ q.at = "dirsync" => records' = file'.data
      BY <1>3, <1>4, <1>5, <2>1 DEF Flushing, Unrenamed
    <2>7. holder \in {NoRequest, r} /\ holder' \in {NoRequest, r} /\ holder' = r /\ up' = up
      BY <1>2, <1>4
    <2>8. QED
      BY <1>2, <2>1, <2>2, <2>3, <2>4, <2>5, <2>6, <2>7, OnlyRequest, Zenon
  <1>6. /\ file.synced /\ ~file.torn /\ ~temp.torn /\ file.data \subseteq used
    BY DEF IInv, FilesWhole, StoredUsed
  <1>7. CASE CreateTemp(r)
    BY <1>2, <1>5, <1>6, <1>7 DEF CreateTemp
  <1>8. CASE Write(r)
    <2>1. Written(records) \in File /\ Written(records).data = records /\ ~Written(records).torn
      BY <1>2 DEF Written, File
    <2>2. QED
      BY <1>2, <1>5, <1>6, <1>8, <2>1 DEF Write
  <1>9. CASE Sync(r)
    <2>1. temp.data = records
      BY <1>9 DEF IInv, FlushAhead, Sync, At
    <2>2. /\ SyncTemp(temp) \in File /\ SyncTemp(temp).data = records
          /\ SyncTemp(temp).synced /\ ~SyncTemp(temp).torn
      BY <1>2, <1>6, <2>1, Zenon DEF SyncTemp, Synced, File
    <2>3. QED
      BY <1>2, <1>5, <1>6, <1>9, <2>2 DEF Sync
  <1>10. CASE Rename(r)
    <2>1. temp.data = records /\ temp.synced /\ records \subseteq used
      BY <1>10 DEF IInv, FlushAhead, StoredUsed, Rename, At
    <2>2. EmptyFile \in File /\ ~EmptyFile.torn
      BY DEF EmptyFile, File
    <2>3. QED
      BY <1>2, <1>5, <1>6, <1>10, <2>1, <2>2 DEF Rename
  <1>11. QED
    BY <1>7, <1>8, <1>9, <1>10

\* The error path of Create and Delete.
LEMMA FlushFailsIInv ==
    ASSUME IInv, NEW r \in Requests, FlushFails(r)
    PROVE  IInv'
  <1>1. req[r].at \in Unrenamed
    BY DEF FlushFails, Unrenamed
  <1>2. /\ holder = r /\ up /\ req[r] \in Request /\ req \in [Requests -> Request]
        /\ records \in SUBSET Ids /\ file \in File
    BY <1>1, InFlush DEF Flushing
  <1>3. Undo(req[r]) = file.data
    BY <1>1, Zenon DEF IInv, FlushAhead, OneAhead, Undo
  <1>4. /\ records' = file.data /\ temp' = EmptyFile /\ holder' = NoRequest
        /\ req' = [req EXCEPT ![r] = NoReq]
        /\ UNCHANGED <<up, file, disk, runtimes, skipped, used>>
    BY <1>3 DEF FlushFails
  <1>5. NoReq \in Request /\ NoReq.at = "idle" /\ EmptyFile \in File /\ ~EmptyFile.torn
    BY DEF NoReq, Request, EmptyFile, File
  <1>6. file.data \in SUBSET Ids
    BY <1>2 DEF File
  <1>7. TypeOK'
    BY <1>4, <1>5, <1>6 DEF IInv, TypeOK
  <1>8. FilesWhole' /\ StoredUsed' /\ MemoryMatchesFile'
    BY <1>4, <1>5 DEF IInv, FilesWhole, StoredUsed, MemoryMatchesFile
  <1>9. QED
    BY <1>2, <1>4, <1>5, <1>7, <1>8, StoreAssumption, OnlyRequest, Zenon DEF Flushing, Unrenamed

LEMMA DirSyncIInv ==
    ASSUME IInv, NEW r \in Requests, DirSync(r)
    PROVE  IInv'
  <1> DEFINE q == [req[r] EXCEPT !.at = "map"]
  <1>1. /\ holder = r /\ up /\ req[r] \in Request /\ req \in [Requests -> Request]
        /\ file \in File /\ disk \in File
    BY InFlush DEF DirSync, At, Flushing
  <1>2. records = file.data /\ req[r].id \in Ids
    BY DEF IInv, FlushAhead, DirSync, At
  <1>3. /\ q \in Request /\ q.at = "map" /\ q.id \in Ids /\ req' = [req EXCEPT ![r] = q] /\ holder' = NoRequest
        /\ disk' \in {disk, file} /\ UNCHANGED <<up, records, file, temp, runtimes, skipped, used>>
    BY <1>1, <1>2 DEF DirSync, Goto, Request
  <1> HIDE DEF q
  <1>4. TypeOK'
    BY <1>1, <1>3 DEF IInv, TypeOK
  <1>5. FilesWhole' /\ StoredUsed' /\ MemoryMatchesFile'
    BY <1>2, <1>3 DEF IInv, FilesWhole, StoredUsed, MemoryMatchesFile
  <1>6. QED
    BY <1>1, <1>3, <1>4, <1>5, StoreAssumption, OnlyRequest, Zenon DEF Flushing, Unrenamed

\* The manager's map is updated without store.mu, perhaps while another
\* request holds it.
LEMMA UpdateMapIInv ==
    ASSUME IInv, NEW r \in Requests, UpdateMap(r)
    PROVE  IInv'
  <1>1. /\ req' = [req EXCEPT ![r] = NoReq] /\ runtimes' = Registered(req[r])
        /\ req[r].at = "map"
        /\ UNCHANGED <<up, records, file, disk, temp, holder, skipped, used>>
    BY DEF UpdateMap, At
  <1>2. NoReq \in Request /\ NoReq.at = "idle"
    BY DEF NoReq, Request
  <1>3. req[r].id \in Ids /\ req \in [Requests -> Request]
    BY <1>1 DEF IInv, TypeOK, FlushAhead
  <1>4. TypeOK'
    <2>1. Registered(req[r]) \in SUBSET Ids
      BY <1>3 DEF IInv, TypeOK, Registered
    <2>2. QED
      BY <1>1, <1>2, <2>1 DEF IInv, TypeOK
  <1>5. req'[r].at = "idle" /\ \A p \in Requests \ {r} : req'[p] = req[p]
    BY <1>1, <1>2, <1>3
  <1>6. LockHeld'
    BY <1>1, <1>5 DEF IInv, LockHeld, Flushing, Unrenamed
  <1>7. FlushAhead'
    BY <1>1, <1>5 DEF IInv, FlushAhead, OneAhead, Unrenamed
  <1>8. FilesWhole' /\ StoredUsed' /\ MemoryMatchesFile'
    BY <1>1 DEF IInv, FilesWhole, StoredUsed, MemoryMatchesFile
  <1>9. QED
    BY <1>4, <1>6, <1>7, <1>8 DEF IInv

-----------------------------------------------------------------------------
\* Crashes and restarts.

LEMMA StoppedIInv ==
    ASSUME IInv, Stopped, file' \in {file, disk}, disk' \in {file, disk}, used' = used
    PROVE  IInv'
  <1>1. EmptyFile \in File /\ ~EmptyFile.torn /\ NoReq \in Request /\ NoReq.at = "idle"
    BY DEF EmptyFile, File, NoReq, Request
  <1>2. TypeOK'
    BY <1>1, Zenon DEF IInv, TypeOK, Stopped
  <1>3. \A r \in Requests : req'[r].at = "idle"
    BY <1>1 DEF Stopped
  <1>4. LockHeld' /\ FlushAhead'
    BY <1>3, StoreAssumption DEF LockHeld, FlushAhead, Flushing, Unrenamed, Stopped
  <1>5. FilesWhole' /\ StoredUsed' /\ MemoryMatchesFile'
    BY <1>1 DEF IInv, FilesWhole, StoredUsed, MemoryMatchesFile, Stopped
  <1>6. QED
    BY <1>2, <1>4, <1>5 DEF IInv

LEMMA RestartIInv == IInv /\ Restart => IInv'
  <1> SUFFICES ASSUME IInv, Restart PROVE IInv'
    OBVIOUS
  <1>1. holder = NoRequest
    BY DEF IInv, LockHeld, Restart
  <1>2. \A r \in Requests : req[r].at \notin Flushing
    BY <1>1, StoreAssumption DEF IInv, LockHeld
  <1>3. TypeOK'
    BY DEF IInv, TypeOK, Restart, File
  <1>4. LockHeld'
    BY <1>1 DEF IInv, LockHeld, Restart
  <1>5. FlushAhead'
    BY <1>2 DEF IInv, FlushAhead, Flushing, Unrenamed, Restart
  <1>6. FilesWhole' /\ StoredUsed' /\ MemoryMatchesFile'
    BY DEF IInv, FilesWhole, StoredUsed, MemoryMatchesFile, Restart
  <1>7. QED
    BY <1>3, <1>4, <1>5, <1>6 DEF IInv

LEMMA NextIInv == IInv /\ [Next]_vars => IInv'
  <1> SUFFICES ASSUME IInv, [Next]_vars PROVE IInv'
    OBVIOUS
  <1>1. ASSUME NEW r \in Requests, NEW id \in Ids, Create(r, id) PROVE IInv'
    BY <1>1, CreateIInv
  <1>2. ASSUME NEW r \in Requests, NEW id \in Ids, Delete(r, id) PROVE IInv'
    BY <1>2, DeleteIInv
  <1>3. ASSUME NEW r \in Requests, RequestStep(r) PROVE IInv'
    BY <1>3, FlushStepIInv, FlushFailsIInv, DirSyncIInv, UpdateMapIInv DEF RequestStep
  <1>4. CASE Crash
    BY <1>4, StoppedIInv DEF Crash
  <1>5. CASE PowerLoss
    <2>1. file.synced
      BY DEF IInv, FilesWhole
    <2>2. file' \in {file, disk} /\ disk' \in {file, disk}
      BY <1>5, <2>1 DEF PowerLoss
    <2>3. QED
      BY <1>5, <2>2, StoppedIInv DEF PowerLoss
  <1>6. CASE Restart
    BY <1>6, RestartIInv
  <1>7. CASE UNCHANGED vars
    BY <1>7 DEF vars, IInv, TypeOK, LockHeld, FlushAhead, OneAhead, FilesWhole, StoredUsed, MemoryMatchesFile
  <1>8. QED
    BY <1>1, <1>2, <1>3, <1>4, <1>5, <1>6, <1>7 DEF Next

\* The inductive invariant holds in every reachable state.
THEOREM Invariance == Spec => []IInv
  BY InitIInv, NextIInv, PTL DEF Spec

-----------------------------------------------------------------------------
\* The theorems.

\* Every reachable state of the store has its types.
THEOREM TypeCorrect == Spec => []TypeOK
  BY Invariance, PTL DEF IInv

\* Whenever store.mu is free, the store's memory is what a restart would read.
THEOREM MemoryAlwaysMatchesFile == Spec => []MemoryMatchesFile
  BY Invariance, PTL DEF IInv

\* No crash or loss of power leaves a file that Open cannot read.
THEOREM FileIsNeverTorn == Spec => []FileNeverTorn
  <1>1. IInv => FileNeverTorn
    BY DEF IInv, FilesWhole, FileNeverTorn
  <1>2. QED
    BY <1>1, Invariance, PTL

\* A step of the store is a step of DurableAccounts or leaves it alone.
LEMMA StepDurable ==
    ASSUME IInv, [Next]_vars
    PROVE  [Durable!DurableNext]_<<file.data, disk.data>>
  <1> USE DEF Durable!DurableNext
  <1>1. ASSUME NEW r \in Requests, Rename(r) PROVE Durable!DurableNext
    <2>1. /\ OneAhead(req[r], records, file) /\ req[r].id \in Ids
          /\ temp.data = records /\ file' = temp /\ disk' = disk
      BY <1>1 DEF IInv, FlushAhead, Rename, At, Unrenamed
    <2>2. Durable!Add(req[r].id) \/ Durable!Remove(req[r].id)
      BY <2>1 DEF OneAhead, Durable!Add, Durable!Remove
    <2>3. QED
      BY <2>1, <2>2
  <1>2. ASSUME NEW r \in Requests, DirSync(r)
        PROVE  Durable!DurableNext \/ UNCHANGED <<file.data, disk.data>>
    BY <1>2 DEF DirSync, Durable!Settle
  <1>3. CASE PowerLoss
    <2>1. file.synced
      BY DEF IInv, FilesWhole
    <2>2. QED
      BY <1>3, <2>1 DEF PowerLoss, Durable!PowerLoss
  <1>4. ASSUME NEW r \in Requests,
               CreateTemp(r) \/ Write(r) \/ Sync(r) \/ FlushFails(r) \/ UpdateMap(r)
        PROVE  UNCHANGED <<file.data, disk.data>>
    BY <1>4 DEF CreateTemp, Write, Sync, FlushFails, UpdateMap
  <1>5. ASSUME NEW r \in Requests, NEW id \in Ids, Create(r, id) \/ Delete(r, id)
        PROVE  UNCHANGED <<file.data, disk.data>>
    BY <1>5 DEF Create, Delete
  <1>6. CASE Crash \/ Restart \/ UNCHANGED vars
    BY <1>6 DEF Crash, Restart, vars
  <1> HIDE DEF Durable!DurableNext
  <1>7. QED
    BY <1>1, <1>2, <1>3, <1>4, <1>5, <1>6 DEF Next, RequestStep

\* What the next Open reads changes by one account at a time, by Create and
\* Delete only, and a loss of power takes back no more than what the last
\* sync of the directory had not settled.
THEOREM StoreIsDurable == Spec => RefinesDurable
  <1>1. Init => Durable!DurableInit
    BY DEF Init, EmptyFile, Durable!DurableInit
  <1>2. IInv /\ [Next]_vars => [Durable!DurableNext]_<<file.data, disk.data>>
    BY StepDurable
  <1>3. QED
    BY <1>1, <1>2, Invariance, PTL DEF Spec, RefinesDurable, Durable!DurableSpec
-----------------------------------------------------------------------------
\* Stored accounts and their runtimes.

\* The account has a runtime, was reported by Start, or is being created.
Owed(id) ==
    \/ id \in runtimes \cup skipped
    \/ \E r \in Requests : req[r].kind = "create" /\ req[r].id = id /\ req[r].at # "idle"

\* Every account in memory or in the file is owed a runtime; one whose delete has
\* renamed the file is in neither, so that the update of the map takes no
\* runtime from a stored account; a stopped process has no requests.
ActiveInv ==
    /\ up => \A id \in records \cup file.data : Owed(id)
    /\ \A r \in Requests : req[r].kind # "create" /\ req[r].at \in {"dirsync", "map"} =>
           req[r].id \in used /\ req[r].id \notin records \cup file.data
    /\ ~up => \A r \in Requests : req[r].at = "idle"

LEMMA StepActive ==
    ASSUME IInv, ActiveInv, [Next]_vars
    PROVE  ActiveInv'
  <1> USE StoreAssumption
  <1>1. /\ req \in [Requests -> Request] /\ file \in File /\ records \in SUBSET Ids
        /\ records \subseteq used /\ file.data \subseteq used
    BY DEF IInv, TypeOK, StoredUsed
  <1>2. NoReq.kind = "none" /\ NoReq.at = "idle"
    BY DEF NoReq
  \* A request that begins.
  <1>3. ASSUME NEW r \in Requests, NEW id \in Ids, Create(r, id) PROVE ActiveInv'
    <2>1. /\ up /\ up' /\ records' = records \cup {id} /\ file' = file /\ id \notin used
          /\ used' = used \cup {id} /\ UNCHANGED <<runtimes, skipped>> /\ req[r].at = "idle"
          /\ req' = [req EXCEPT ![r] = [kind |-> "create", id |-> id, at |-> "temp"]]
      BY <1>3 DEF Create, At
    <2>2. /\ req'[r].kind = "create" /\ req'[r].id = id /\ req'[r].at = "temp"
          /\ \A p \in Requests \ {r} : req'[p] = req[p]
      BY <1>1, <2>1
    <2>3. ASSUME NEW i \in records' \cup file'.data PROVE Owed(i)'
      <3>1. CASE i = id
        BY <2>2, <3>1 DEF Owed
      <3>2. CASE i # id
        BY <2>1, <2>2, <3>2 DEF Owed, ActiveInv
      <3>3. QED
        BY <3>1, <3>2
    <2>4. QED
      BY <1>1, <2>1, <2>2, <2>3 DEF ActiveInv
  <1>4. ASSUME NEW r \in Requests, NEW id \in Ids, Delete(r, id) PROVE ActiveInv'
    <2>1. /\ up /\ up' /\ records' = records \ {id} /\ file' = file /\ used' = used
          /\ UNCHANGED <<runtimes, skipped>> /\ req[r].at = "idle"
          /\ req' = [req EXCEPT ![r] = [kind |-> "delete", id |-> id, at |-> "temp"]]
      BY <1>4 DEF Delete, At
    <2>2. /\ req'[r].kind = "delete" /\ req'[r].at = "temp"
          /\ \A p \in Requests \ {r} : req'[p] = req[p]
      BY <1>1, <2>1
    <2>3. ASSUME NEW i \in records' \cup file'.data PROVE Owed(i)'
      BY <2>1, <2>2 DEF Owed, ActiveInv
    <2>4. QED
      BY <2>1, <2>2, <2>3 DEF ActiveInv
  \* A request that goes on, in flushLocked or past it.
  <1>5. ASSUME NEW r \in Requests, NEW step, Goto(r, step), req[r].at # "idle", step # "idle",
               UNCHANGED <<up, records, runtimes, skipped, used>>,
               file'.data \in {file.data, records},
               step = "dirsync" => file'.data = records /\ req[r].at \in Unrenamed,
               step = "map" => req[r].at = "dirsync"
        PROVE  ActiveInv'
    <2>1. /\ req'[r].kind = req[r].kind /\ req'[r].id = req[r].id /\ req'[r].at = step
          /\ \A p \in Requests \ {r} : req'[p] = req[p]
      BY <1>1, <1>5 DEF Goto, Request
    <2>2. up
      BY <1>5 DEF ActiveInv
    <2>3. ASSUME NEW i PROVE Owed(i)' <=> Owed(i)
      BY <1>5, <2>1 DEF Owed
    <2>4. ASSUME NEW p \in Requests, req'[p].kind # "create", req'[p].at \in {"dirsync", "map"}
          PROVE  req'[p].id \in used /\ req'[p].id \notin records' \cup file'.data
      <3>1. CASE p # r \/ step # "dirsync"
        BY <1>5, <2>1, <2>4, <3>1 DEF ActiveInv
      <3>2. CASE p = r /\ step = "dirsync"
        <4>1. OneAhead(req[r], records, file) /\ req[r].kind # "create"
          BY <1>5, <2>1, <2>4, <3>2 DEF IInv, FlushAhead
        <4>2. QED
          BY <1>1, <1>5, <2>1, <3>2, <4>1 DEF OneAhead
      <3>3. QED
        BY <3>1, <3>2
    <2>5. QED
      BY <1>5, <2>2, <2>3, <2>4 DEF ActiveInv
  <1>6. ASSUME NEW r \in Requests, CreateTemp(r) \/ Write(r) \/ Sync(r) \/ Rename(r) \/ DirSync(r)
        PROVE  ActiveInv'
    <2>1. UNCHANGED <<up, records, runtimes, skipped, used>>
      BY <1>6 DEF CreateTemp, Write, Sync, Rename, DirSync
    <2>2. CASE Rename(r)
      <3>1. file'.data = records /\ Goto(r, "dirsync") /\ req[r].at = "rename"
        BY <2>2 DEF IInv, FlushAhead, Rename, At
      <3>2. QED
        BY <1>5, <2>1, <3>1 DEF Unrenamed
    <2>3. CASE CreateTemp(r)
      BY <1>5, <2>1, <2>3 DEF CreateTemp, At
    <2>4. CASE Write(r)
      BY <1>5, <2>1, <2>4 DEF Write, At
    <2>5. CASE Sync(r)
      BY <1>5, <2>1, <2>5 DEF Sync, At
    <2>6. CASE DirSync(r)
      BY <1>5, <2>1, <2>6 DEF DirSync, At
    <2>7. QED
      BY <1>6, <2>2, <2>3, <2>4, <2>5, <2>6
  \* A request that ends: its account is out of the file, or has its runtime.
  <1>7. ASSUME NEW r \in Requests, req' = [req EXCEPT ![r] = NoReq],
               UNCHANGED <<up, file, skipped, used>>,
               records' \subseteq records \cup file.data,
               \A i \in records' \cup file.data : i \in runtimes => i \in runtimes',
               \A i \in records' \cup file.data : req[r].kind = "create" /\ req[r].id = i => i \in runtimes'
        PROVE  ActiveInv'
    <2>1. req'[r].at = "idle" /\ \A p \in Requests \ {r} : req'[p] = req[p]
      BY <1>1, <1>2, <1>7
    <2>2. ASSUME up, NEW i \in records' \cup file'.data PROVE Owed(i)'
      <3>1. Owed(i) /\ i \in records' \cup file.data
        BY <1>7, <2>2 DEF ActiveInv
      <3>2. QED
        BY <1>7, <2>1, <3>1 DEF Owed
    <2>3. QED
      BY <1>7, <2>1, <2>2 DEF ActiveInv
  <1>8. ASSUME NEW r \in Requests, FlushFails(r) PROVE ActiveInv'
    <2>1. OneAhead(req[r], records, file)
      BY <1>8 DEF IInv, FlushAhead, FlushFails, Unrenamed
    <2>2. records' = file.data /\ (req[r].kind = "create" => req[r].id \notin file.data)
      BY <1>8, <2>1 DEF OneAhead, FlushFails, Undo
    <2>3. req' = [req EXCEPT ![r] = NoReq] /\ UNCHANGED <<up, file, runtimes, skipped, used>>
      BY <1>8 DEF FlushFails
    <2>4. QED
      BY <1>7, <2>2, <2>3, Zenon
  <1>9. ASSUME NEW r \in Requests, UpdateMap(r) PROVE ActiveInv'
    <2>1. /\ req' = [req EXCEPT ![r] = NoReq] /\ UNCHANGED <<up, records, file, skipped, used>>
          /\ runtimes' = Registered(req[r]) /\ req[r].at = "map"
      BY <1>9 DEF UpdateMap, At
    <2>2. req[r].kind # "create" => req[r].id \notin records \cup file.data
      BY <2>1 DEF ActiveInv
    <2>3. QED
      BY <1>7, <2>1, <2>2, Zenon DEF Registered
  \* The process stops and starts again.
  <1>10. CASE Crash \/ PowerLoss
    <2>1. ~up' /\ \A r \in Requests : req'[r].at = "idle"
      BY <1>2, <1>10 DEF Crash, PowerLoss, Stopped
    <2>2. QED
      BY <2>1 DEF ActiveInv
  <1>11. CASE Restart
    <2>1. up' /\ records' = file.data /\ file' = file /\ req' = req /\ ~up
          /\ runtimes' \cup skipped' = file.data
      BY <1>11 DEF Restart
    <2>2. \A r \in Requests : req'[r].at = "idle"
      BY <2>1 DEF ActiveInv
    <2>3. QED
      BY <2>1, <2>2 DEF ActiveInv, Owed
  <1>12. CASE UNCHANGED vars
    BY <1>12 DEF vars, ActiveInv, Owed
  <1>13. QED
    BY <1>3, <1>4, <1>6, <1>8, <1>9, <1>10, <1>11, <1>12 DEF Next, RequestStep

\* However the requests interleave, and whatever fails or stops in between: when
\* no request is under way every stored account has a runtime, unless Start
\* reported that it could not activate it.
THEOREM StoredIsAlwaysActive == Spec => []StoredIsActive
  <1>1. Init => ActiveInv
    BY DEF Init, ActiveInv, EmptyFile, NoReq
  <1>2. IInv /\ ActiveInv /\ [Next]_vars => ActiveInv'
    BY StepActive
  <1>3. ActiveInv => StoredIsActive
    BY DEF ActiveInv, StoredIsActive, Owed, At
  <1>4. QED
    BY <1>1, <1>2, <1>3, Invariance, PTL DEF Spec
=============================================================================
