------------------------------ MODULE BundleStore ------------------------------
(***************************************************************************)
(* The bundle store of dtn7-go: pkg/store/store.go (the map of descriptors, *)
(* the badgerhold metadata database and the directory of serialised         *)
(* bundles) and pkg/store/bundle_descriptor.go (retention constraints and   *)
(* deletion).                                                               *)
(*                                                                          *)
(* Three copies of the truth have to agree: the in-memory map `bundles`,    *)
(* the database `db` and the files `file`.  They are written one after the  *)
(* other, under the store's stateMutex but not under the descriptors'       *)
(* mutexes, and a process may stop between any two of the writes.           *)
(*                                                                          *)
(* A BundleDescriptor is reached through pointers that outlive its entry in *)
(* the map, so descriptors are objects of their own: the reference <<b, g>> *)
(* is the g-th descriptor this process created for bundle b.                *)
(*                                                                          *)
(* The module is an open system: any goroutine that holds a reference may   *)
(* call any method on it at any time.  Processing.tla closes it with the    *)
(* goroutines the daemon really runs.                                       *)
(***************************************************************************)
EXTENDS Naturals, FiniteSets

CONSTANTS
    Bundles,      \* the bundle IDs that are ever inserted
    Epoch,        \* those whose Expires date already lies in the past on arrival
                  \* (a zero creation timestamp: the Unix-2000 epoch plus a lifetime)
    Nodes,        \* the endpoint IDs of nodes
    Self,         \* this node's own endpoint ID
    MiscValues,   \* the values components store in MiscellaneousData
    MaxGen,       \* bound: descriptors created per bundle between two restarts
    Faults,       \* the I/O operations that may fail
    NoRecord      \* "the database holds no record under this key"

AllFaults == {"insert", "create", "write", "update", "delete", "remove", "open"}

ASSUME StoreAssumption ==
    /\ Epoch \subseteq Bundles
    /\ Self \in Nodes
    /\ MiscValues \subseteq Nat \ {0}
    /\ MaxGen \in Nat \ {0}
    /\ Faults \subseteq AllFaults

\* The three retention constraints.  A descriptor keeps them in a slice, where
\* one may occur several times; every reader asks only whether a constraint
\* occurs or whether the slice is empty, and RemoveConstraint drops all its
\* occurrences, so the slice is modelled by the set of its elements.
Constraint == {"DispatchPending", "ForwardPending", "ReassemblyPending"}

Gens == 1 .. MaxGen
Refs == Bundles \X Gens

\* BundleMetadata, of which only two fields ever change after insertion.  A
\* misc of 0 stands for the empty map.
BundleMetadata == [holders : SUBSET Nodes, misc : MiscValues \cup {0}]
NoMetadata == [holders |-> {}, misc |-> 0]

ASSUME NoRecordAssumption == NoRecord \notin BundleMetadata

BundleDescriptor ==
    [meta : BundleMetadata, constraints : SUBSET Constraint, retain : BOOLEAN,
     dispatch : BOOLEAN, deleted : BOOLEAN, shouldDelete : BOOLEAN]

NewBundleDescriptor(m) ==
    [meta |-> m, constraints |-> {"DispatchPending"}, retain |-> TRUE,
     dispatch |-> TRUE, deleted |-> FALSE, shouldDelete |-> FALSE]

\* A reference no descriptor has been created for yet reads like a descriptor
\* that has been deleted.
NoDescriptor ==
    [meta |-> NoMetadata, constraints |-> {}, retain |-> FALSE,
     dispatch |-> TRUE, deleted |-> TRUE, shouldDelete |-> FALSE]

VARIABLES
    phase,        \* "up"; "closed": storeSingleton is nil and the database is
                  \* closed, the process still runs; "down": no process
    bundles,      \* the map: bundles[b] is b's current descriptor, 0 if absent
    desc,         \* the descriptor objects
    alloc,        \* how many descriptors this process has created for b
    delq,         \* deleteBundle goroutines that do not hold the mutex yet
    step,         \* what the holder of the store's stateMutex still has to do to b
    newMeta,      \* metadata of the bundle being inserted
    db,           \* badgerhold: key -> metadata
    file,         \* the serialised bundle on disk
    expired,      \* bundles whose Expires date has passed
    interrupted   \* history: bundles whose last insertion or deletion was cut
                  \* short on disk, by an I/O error or by the end of the process

memory == <<bundles, desc, alloc, delq>>
disk == <<db, file>>
storeVars == <<phase, bundles, desc, alloc, delq, step, newMeta, db, file,
               expired, interrupted>>

Steps == {"idle", "create", "write", "unlink", "visit", "collect"}

TypeOK ==
    /\ phase \in {"up", "closed", "down"}
    /\ bundles \in [Bundles -> Gens \cup {0}]
    /\ desc \in [Refs -> BundleDescriptor]
    /\ alloc \in [Bundles -> Gens \cup {0}]
    /\ delq \subseteq Refs
    /\ step \in [Bundles -> Steps]
    /\ newMeta \in BundleMetadata
    /\ db \in [Bundles -> BundleMetadata \cup {NoRecord}]
    /\ file \in [Bundles -> {"none", "partial", "full"}]
    /\ expired \subseteq Bundles
    /\ interrupted \subseteq Bundles

\* The store of a node that has never run, just before InitialiseStore.
StoreInit ==
    /\ phase = "down"
    /\ bundles = [b \in Bundles |-> 0]
    /\ desc = [r \in Refs |-> NoDescriptor]
    /\ alloc = [b \in Bundles |-> 0]
    /\ delq = {}
    /\ step = [b \in Bundles |-> "idle"]
    /\ newMeta = NoMetadata
    /\ db = [b \in Bundles |-> NoRecord]
    /\ file = [b \in Bundles |-> "none"]
    /\ expired = Epoch
    /\ interrupted = {}

-----------------------------------------------------------------------------
(* Helpers *)

Current(b) == <<b, bundles[b]>>
Stored(b) == bundles[b] # 0
Allocated(r) == r[2] <= alloc[r[1]]

\* stateMutex of the store: free iff its holder has nothing left to do.
LockFree == \A b \in Bundles : step[b] = "idle"

\* An operation of the I/O layer succeeds or, if it is in Faults, fails.
MayFail(op) == op \in Faults

\* badgerhold's Update: a missing key is an error and changes nothing.
updateBundleMetadata(b, m) ==
    \/ db' = IF db[b] = NoRecord THEN db ELSE [db EXCEPT ![b] = m]
    \/ MayFail("update") /\ db' = db

\* Faulty Settle: the dispatch flag is not set again.
SettleKeepsDispatch(d, kept) ==
    [d EXCEPT !.constraints = kept,
              !.retain = kept # {},
              !.deleted = d.shouldDelete /\ kept = {}]

\* The constraints d is left with decide its flags; the last one to go deletes
\* a descriptor that was marked for deletion.
Settle(d, kept) ==
    [d EXCEPT !.constraints = kept,
              !.retain = kept # {},
              !.dispatch = "ForwardPending" \notin kept,
              !.deleted = d.shouldDelete /\ kept = {}]

\* Faulty SpawnDelete: the goroutine is never started.
SpawnDeleteForgotten(r, d) == delq' = delq

\* go deleteBundle(metadata), for a descriptor that has just become deleted.
SpawnDelete(r, d) == delq' = IF d.deleted THEN delq \cup {r} ELSE delq

-----------------------------------------------------------------------------
(* Methods of BundleDescriptor.  Each runs under the descriptor's own mutex. *)
(* On a deleted descriptor all but SetMiscData return BundleDeletedError.    *)

Expired(b) == b \in expired
Dispatch(r) == desc[r].dispatch /\ ~desc[r].deleted
Retain(r) == desc[r].retain /\ ~desc[r].deleted

HasConstraint(r, c) == ~desc[r].deleted /\ c \in desc[r].constraints

\* GetKnownHolders of a live descriptor.
GetKnownHolders(r) == desc[r].meta.holders

\* After shutdown a method ends the process when it needs the singleton, and
\* what it does otherwise is forgotten with the process.
Callable(r) == phase = "up" /\ Allocated(r)

AddConstraint(r, c) ==
    /\ Callable(r)
    /\ ~desc[r].deleted
    /\ desc' = [desc EXCEPT ![r].constraints = @ \cup {c},
                            ![r].retain = TRUE,
                            ![r].dispatch = @ /\ c # "ForwardPending"]
    /\ UNCHANGED <<phase, bundles, alloc, delq, step, newMeta, disk, expired,
                   interrupted>>

RemoveConstraint(r, c) ==
    /\ Callable(r)
    /\ ~desc[r].deleted
    /\ LET d == Settle(desc[r], desc[r].constraints \ {c})
       IN  desc' = [desc EXCEPT ![r] = d] /\ SpawnDelete(r, d)
    /\ UNCHANGED <<phase, bundles, alloc, step, newMeta, disk, expired,
                   interrupted>>

ResetConstraints(r) ==
    /\ Callable(r)
    /\ ~desc[r].deleted
    /\ LET d == Settle(desc[r], {})
       IN  desc' = [desc EXCEPT ![r] = d] /\ SpawnDelete(r, d)
    /\ UNCHANGED <<phase, bundles, alloc, step, newMeta, disk, expired,
                   interrupted>>

\* Faulty AddKnownHolder: the metadata are not saved ...
AddKnownHolderUnsaved(r, n) ==
    /\ Callable(r)
    /\ ~desc[r].deleted
    /\ desc' = [desc EXCEPT ![r].meta.holders = @ \cup {n}]
    /\ UNCHANGED <<phase, bundles, alloc, delq, step, newMeta, disk, expired,
                   interrupted>>

\* ... or the new holder replaces the others.
AddKnownHolderReplaces(r, n) ==
    /\ Callable(r)
    /\ ~desc[r].deleted
    /\ desc' = [desc EXCEPT ![r].meta.holders = {n}]
    /\ updateBundleMetadata(r[1], desc'[r].meta)
    /\ UNCHANGED <<phase, bundles, alloc, delq, step, newMeta, file, expired,
                   interrupted>>

AddKnownHolder(r, n) ==
    /\ Callable(r)
    /\ ~desc[r].deleted
    /\ desc' = [desc EXCEPT ![r].meta.holders = @ \cup {n}]
    /\ updateBundleMetadata(r[1], desc'[r].meta)
    /\ UNCHANGED <<phase, bundles, alloc, delq, step, newMeta, file, expired,
                   interrupted>>

\* The one method that does not look at `deleted`.
SetMiscData(r, v) ==
    /\ Callable(r)
    /\ desc' = [desc EXCEPT ![r].meta.misc = v]
    /\ updateBundleMetadata(r[1], desc'[r].meta)
    /\ UNCHANGED <<phase, bundles, alloc, delq, step, newMeta, file, expired,
                   interrupted>>

\* Faulty Deleted: the constraints are not looked at again.
DeletedUnchecked(d, mark) == [d EXCEPT !.deleted = TRUE]

\* What Delete(markIfConstraint) makes of descriptor d.
Deleted(d, mark) ==
    IF d.constraints # {} THEN [d EXCEPT !.shouldDelete = @ \/ mark]
                          ELSE [d EXCEPT !.deleted = TRUE]

Delete(r, mark) ==
    /\ Callable(r)
    /\ ~desc[r].deleted
    /\ LET d == Deleted(desc[r], mark)
       IN  desc' = [desc EXCEPT ![r] = d] /\ SpawnDelete(r, d)
    /\ UNCHANGED <<phase, bundles, alloc, step, newMeta, disk, expired,
                   interrupted>>

\* Load of a live descriptor: loadEntireBundle reports a file it cannot open,
\* be it missing or not, and drops the error ParseBundle returns for what is in
\* it.
LoadSucceeds(r) == ~desc[r].deleted /\ file[r[1]] # "none"
LoadFails(r) == ~LoadSucceeds(r) \/ MayFail("open")

-----------------------------------------------------------------------------
(* Methods of BundleStore.  Between its steps the holder of stateMutex is    *)
(* interleaved with descriptor methods and with the end of the process.      *)

GetDispatchable == {b \in Bundles : Stored(b) /\ Dispatch(Current(b))}

\* InsertBundle of a bundle in the map; prev is the set of the one node its
\* PreviousNodeBlock names, or empty.
InsertKnownBundle(b, prev) ==
    /\ phase = "up" /\ LockFree /\ Stored(b)
    /\ IF desc[Current(b)].deleted
       THEN UNCHANGED storeVars
       ELSE \/ prev = {} /\ UNCHANGED storeVars
            \/ \E n \in prev : AddKnownHolder(Current(b), n)

\* Faulty InsertNewBundle: a bundle whose deletion is pending counts as absent,
\* and the database overwrites its record.
InsertNewBundleOverDeleted(b, prev) ==
    /\ phase = "up" /\ LockFree /\ alloc[b] < MaxGen
    /\ Stored(b) => desc[Current(b)].deleted
    /\ newMeta' = [holders |-> {Self} \cup prev, misc |-> 0]
    /\ db' = [db EXCEPT ![b] = newMeta']
    /\ step' = [step EXCEPT ![b] = "create"]
    /\ UNCHANGED <<phase, memory, file, expired, interrupted>>

\* insertNewBundleUnsafe up to the database's Insert, which refuses a key that
\* is present.
InsertNewBundle(b, prev) ==
    /\ phase = "up" /\ LockFree /\ ~Stored(b) /\ alloc[b] < MaxGen
    /\ db[b] = NoRecord
    /\ newMeta' = [holders |-> {Self} \cup prev, misc |-> 0]
    /\ db' = [db EXCEPT ![b] = newMeta']
    /\ step' = [step EXCEPT ![b] = "create"]
    /\ UNCHANGED <<phase, memory, file, expired, interrupted>>

InsertNewBundleFails(b) ==
    /\ phase = "up" /\ LockFree /\ ~Stored(b)
    /\ db[b] # NoRecord \/ MayFail("insert")
    /\ UNCHANGED storeVars

\* os.Create leaves an empty file.
CreateFile(b) ==
    /\ phase # "down" /\ step[b] = "create"
    /\ file' = [file EXCEPT ![b] = "partial"]
    /\ step' = [step EXCEPT ![b] = "write"]
    /\ UNCHANGED <<phase, memory, newMeta, db, expired, interrupted>>

\* deleteFromDiskUnsafe: the two removals, each of which may fail; a closed
\* database refuses to delete.
RemoveRecord(b) ==
    \/ phase = "up" /\ db' = [db EXCEPT ![b] = NoRecord]
    \/ (phase = "closed" \/ MayFail("delete")) /\ db' = db

RemoveFile(b) ==
    \/ file' = [file EXCEPT ![b] = "none"]
    \/ MayFail("remove") /\ file' = file

\* os.Create fails: record and file are removed again.
CreateFileFails(b) ==
    /\ phase # "down" /\ step[b] = "create" /\ MayFail("create")
    /\ RemoveRecord(b)
    /\ RemoveFile(b)
    /\ interrupted' = IF db'[b] = NoRecord /\ file'[b] = "none"
                      THEN interrupted \ {b} ELSE interrupted \cup {b}
    /\ step' = [step EXCEPT ![b] = "idle"]
    /\ newMeta' = NoMetadata
    /\ UNCHANGED <<phase, memory, expired>>

\* Marshal and Flush succeed: the descriptor is created and enters the map.
WriteFile(b) ==
    /\ phase # "down" /\ step[b] = "write"
    /\ LET g == alloc[b] + 1
       IN  /\ file' = [file EXCEPT ![b] = "full"]
           /\ desc' = [desc EXCEPT ![<<b, g>>] = NewBundleDescriptor(newMeta)]
           /\ alloc' = [alloc EXCEPT ![b] = g]
           /\ bundles' = [bundles EXCEPT ![b] = g]
    /\ interrupted' = interrupted \ {b}
    /\ step' = [step EXCEPT ![b] = "idle"]
    /\ newMeta' = NoMetadata
    /\ UNCHANGED <<phase, delq, db, expired>>

\* Marshal or Flush fails: the error is returned, nothing is cleaned up.
WriteFileFails(b) ==
    /\ phase # "down" /\ step[b] = "write" /\ MayFail("write")
    /\ interrupted' = interrupted \cup {b}
    /\ step' = [step EXCEPT ![b] = "idle"]
    /\ newMeta' = NoMetadata
    /\ UNCHANGED <<phase, memory, disk, expired>>

\* deleteBundle, a goroutine of its own: the map entry and the record go ...
deleteBundle(r) ==
    LET b == r[1]
    IN  /\ phase # "down" /\ LockFree /\ r \in delq
        /\ delq' = delq \ {r}
        /\ bundles' = [bundles EXCEPT ![b] = 0]
        /\ RemoveRecord(b)
        /\ interrupted' = IF db'[b] = NoRecord THEN interrupted \ {b}
                                               ELSE interrupted \cup {b}
        /\ step' = [step EXCEPT ![b] = "unlink"]
        /\ UNCHANGED <<phase, desc, alloc, newMeta, file, expired>>

\* Faulty UnlinkFile: the file is left behind.
UnlinkFileForgotten(b) ==
    /\ phase # "down" /\ step[b] = "unlink"
    /\ step' = [step EXCEPT ![b] = "idle"]
    /\ UNCHANGED <<phase, memory, newMeta, disk, expired, interrupted>>

\* ... and then the file.
UnlinkFile(b) ==
    /\ phase # "down" /\ step[b] = "unlink"
    /\ RemoveFile(b)
    /\ interrupted' = IF file'[b] = "none" THEN interrupted
                                           ELSE interrupted \cup {b}
    /\ step' = [step EXCEPT ![b] = "idle"]
    /\ UNCHANGED <<phase, memory, newMeta, db, expired>>

\* GarbageCollect holds stateMutex over its whole loop ...
GarbageCollect ==
    /\ phase = "up" /\ LockFree
    /\ \E b \in Bundles : Stored(b)
    /\ step' = [b \in Bundles |-> IF Stored(b) THEN "visit" ELSE "idle"]
    /\ UNCHANGED <<phase, memory, newMeta, disk, expired, interrupted>>

\* ... tests each bundle ...
CollectTest(b) ==
    /\ phase = "up" /\ step[b] = "visit"
    /\ \A c \in Bundles : step[c] # "collect"
    /\ step' = [step EXCEPT ![b] = IF Expired(b) /\ ~Retain(Current(b))
                                   THEN "collect" ELSE "idle"]
    /\ UNCHANGED <<phase, memory, newMeta, disk, expired, interrupted>>

\* ... and calls Delete(false) on those that pass, which tests once more.
CollectDelete(b) ==
    /\ phase = "up" /\ step[b] = "collect"
    /\ LET r == Current(b)
           d == Deleted(desc[r], FALSE)
       IN  IF desc[r].deleted
           THEN UNCHANGED <<desc, delq>>
           ELSE desc' = [desc EXCEPT ![r] = d] /\ SpawnDelete(r, d)
    /\ step' = [step EXCEPT ![b] = "idle"]
    /\ UNCHANGED <<phase, bundles, alloc, newMeta, disk, expired, interrupted>>

-----------------------------------------------------------------------------
(* The process and the clock *)

\* Faulty InitialiseStore: keys without a record are loaded, too.
InitialiseStoreUnfiltered ==
    /\ phase = "down"
    /\ phase' = "up"
    /\ bundles' = [b \in Bundles |-> 1]
    /\ alloc' = bundles'
    /\ desc' = [r \in Refs |-> IF r[2] = 1 THEN NewBundleDescriptor(db[r[1]])
                                           ELSE NoDescriptor]
    /\ UNCHANGED <<delq, step, newMeta, disk, expired, interrupted>>

\* InitialiseStore: a fresh descriptor for every record of the database.
InitialiseStore ==
    LET found(b) == db[b] # NoRecord
    IN  /\ phase = "down"
        /\ phase' = "up"
        /\ bundles' = [b \in Bundles |-> IF found(b) THEN 1 ELSE 0]
        /\ alloc' = bundles'
        /\ desc' = [r \in Refs |-> IF r[2] = 1 /\ found(r[1])
                                   THEN NewBundleDescriptor(db[r[1]])
                                   ELSE NoDescriptor]
        /\ UNCHANGED <<delq, step, newMeta, disk, expired, interrupted>>

\* shutdown takes no lock: it forgets the singleton and closes the database
\* under whoever is still running.
ShutdownStore ==
    /\ phase = "up"
    /\ phase' = "closed"
    /\ UNCHANGED <<memory, step, newMeta, disk, expired, interrupted>>

\* The process ends: after a shutdown, by log.Fatal, by a panic or by a kill.
Halt ==
    /\ phase # "down"
    /\ phase' = "down"
    /\ bundles' = [b \in Bundles |-> 0]
    /\ desc' = [r \in Refs |-> NoDescriptor]
    /\ alloc' = [b \in Bundles |-> 0]
    /\ delq' = {}
    /\ step' = [b \in Bundles |-> "idle"]
    /\ newMeta' = NoMetadata
    /\ interrupted' = interrupted \cup
           {b \in Bundles : step[b] \in {"create", "write", "unlink"}}
    /\ UNCHANGED <<disk, expired>>

Expire(b) ==
    /\ b \notin expired
    /\ expired' = expired \cup {b}
    /\ UNCHANGED <<phase, memory, step, newMeta, disk, interrupted>>

-----------------------------------------------------------------------------
(* Specification *)

PreviousNode == {{}} \cup {{n} : n \in Nodes \ {Self}}

DescriptorCall(r) ==
    \/ \E c \in Constraint : AddConstraint(r, c) \/ RemoveConstraint(r, c)
    \/ ResetConstraints(r)
    \/ \E n \in Nodes : AddKnownHolder(r, n)
    \/ \E v \in MiscValues : SetMiscData(r, v)
    \/ \E mark \in BOOLEAN : Delete(r, mark)

Insertion(b) ==
    \/ \E prev \in PreviousNode : InsertKnownBundle(b, prev) \/ InsertNewBundle(b, prev)
    \/ InsertNewBundleFails(b)
    \/ CreateFile(b) \/ CreateFileFails(b)
    \/ WriteFile(b) \/ WriteFileFails(b)

Deletion(b) == (\E g \in Gens : deleteBundle(<<b, g>>)) \/ UnlinkFile(b)

Collection(b) == CollectTest(b) \/ CollectDelete(b)

StoreNext ==
    \/ \E r \in Refs : DescriptorCall(r)
    \/ \E b \in Bundles : Insertion(b) \/ Deletion(b) \/ Collection(b) \/ Expire(b)
    \/ GarbageCollect
    \/ InitialiseStore \/ ShutdownStore \/ Halt

StoreSpec == StoreInit /\ [][StoreNext]_storeVars

-----------------------------------------------------------------------------
(* Properties *)

\* "If a bundle has retention constraints, it must not be deleted": whatever
\* the order of AddConstraint, the garbage collector's two looks at the
\* descriptor and the last RemoveConstraint, a deleted descriptor has none.
DeletedIsUnconstrained ==
    \A r \in Refs : desc[r].deleted => desc[r].constraints = {}

\* retain and dispatch are caches: Retain answers whether there is a constraint
\* and Dispatch whether ForwardPending is absent, after any sequence of calls.
FlagsFollowConstraints ==
    \A r \in Refs : ~desc[r].deleted =>
        /\ desc[r].retain <=> desc[r].constraints # {}
        /\ desc[r].dispatch <=> "ForwardPending" \notin desc[r].constraints

\* No bundle has two live descriptors: a descriptor that is not deleted is the
\* one in the map, although deletion leaves the map later than `deleted` is set.
OneLiveDescriptor ==
    \A r \in Refs : ~desc[r].deleted => bundles[r[1]] = r[2]

\* deleteBundle removes whatever the map, the database and the directory hold
\* under the bundle's ID.  While one is pending, that is still the very
\* descriptor it was started for, never a later insertion of the same bundle,
\* and every deleted descriptor in the map has its deleteBundle pending.
DeletesOwnDescriptor ==
    \A r \in Refs : r \in delq <=> desc[r].deleted /\ bundles[r[1]] = r[2]

\* A bundle the map lists has a metadata record, so that updates of its
\* metadata find their key, whatever I/O operation failed before.
StoredHasRecord == \A b \in Bundles : Stored(b) => db[b] # NoRecord

\* Map, database and directory agree on every bundle the holder of stateMutex
\* is not working on and whose last insertion or deletion went through: a
\* record has its complete file, a missing record has none, and a running
\* process lists exactly the bundles of the database.
CopiesAgree ==
    \A b \in Bundles \ interrupted :
        step[b] \in {"idle", "visit", "collect"} =>
            /\ file[b] = IF db[b] = NoRecord THEN "none" ELSE "full"
            /\ phase # "down" => (Stored(b) <=> db[b] # NoRecord)

\* The metadata of a live descriptor "is persisted to disk": the record equals it.
MetadataPersisted ==
    \A b \in Bundles : Stored(b) /\ ~desc[Current(b)].deleted =>
        db[b] = desc[Current(b)].meta

\* A known holder on record stays on record until the bundle is deleted,
\* restarts of the node included.
HoldersKept ==
    [][\A b \in Bundles : db[b] # NoRecord /\ db'[b] # NoRecord =>
           db[b].holders \subseteq db'[b].holders]_storeVars

\* An expired bundle nobody retains is removed from memory and disk, unless it
\* is retained again or the process ends.
ExpiredIsCollected ==
    \A b \in Bundles :
        (phase = "up" /\ Stored(b) /\ Expired(b) /\ ~Retain(Current(b)))
            ~> \/ phase # "up"
               \/ Stored(b) /\ Retain(Current(b))
               \/ db[b] = NoRecord /\ file[b] = "none"

\* What GetBundleDescriptor, Deleted and Load tell about bundle b.
ViewOf(b) ==
    IF bundles[b] = 0 THEN "absent"
    ELSE IF desc[Current(b)].deleted THEN "deleted"
    ELSE IF LoadSucceeds(Current(b)) THEN "live" ELSE "broken"

View == INSTANCE StoreView WITH serving <- phase = "up",
                                view <- [b \in Bundles |-> ViewOf(b)]

\* To its users a bundle in the store lives, is deleted and disappears, in this
\* order: no entry vanishes without having been deleted, none that is deleted
\* comes back, and a live one never loses its file.
ImplementsView == View!ViewSpec

-----------------------------------------------------------------------------
(* The inductive invariant behind the safety properties *)

\* What the holder of stateMutex may rely on half-way: a bundle being inserted
\* has its record but no entry in the map, one being deleted has no entry any
\* more, and the garbage collector only visits entries that are there.
StepsAreSound ==
    \A b \in Bundles :
        /\ step[b] \in {"create", "write"} =>
               bundles[b] = 0 /\ db[b] # NoRecord /\ alloc[b] < MaxGen
        /\ step[b] = "unlink" =>
               bundles[b] = 0 /\ (b \notin interrupted => db[b] = NoRecord)
        /\ step[b] \in {"visit", "collect"} => bundles[b] # 0
        /\ bundles[b] <= alloc[b]

DownIsEmpty ==
    phase = "down" =>
        \A b \in Bundles : bundles[b] = 0 /\ alloc[b] = 0 /\ step[b] = "idle"

DescriptorInv ==
    /\ DeletedIsUnconstrained
    /\ FlagsFollowConstraints
    /\ OneLiveDescriptor
    /\ DeletesOwnDescriptor

DiskInv ==
    /\ StoredHasRecord
    /\ CopiesAgree
    /\ StepsAreSound
    /\ DownIsEmpty

StoreInv == TypeOK /\ DescriptorInv /\ DiskInv
=============================================================================
