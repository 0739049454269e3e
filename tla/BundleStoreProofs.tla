--------------------------- MODULE BundleStoreProofs ---------------------------
(***************************************************************************)
(* Proofs about BundleStore, for every set of bundles, nodes and faults.    *)
(***************************************************************************)
EXTENDS BundleStore, TLAPS

USE DEF Gens, Refs

\* A new descriptor is a descriptor.
LEMMA NewDescriptorType ==
    ASSUME NEW m \in BundleMetadata
    PROVE  NewBundleDescriptor(m) \in BundleDescriptor
  BY DEF NewBundleDescriptor, BundleDescriptor, Constraint

\* So is the placeholder for one that does not exist.
LEMMA NoDescriptorType == NoMetadata \in BundleMetadata /\ NoDescriptor \in BundleDescriptor
  BY DEF NoDescriptor, NoMetadata, BundleDescriptor, BundleMetadata

\* RemoveConstraint and ResetConstraints yield a descriptor.
LEMMA SettleType ==
    ASSUME NEW d \in BundleDescriptor, NEW kept \in SUBSET Constraint
    PROVE  Settle(d, kept) \in BundleDescriptor
  BY DEF Settle, BundleDescriptor

\* Delete yields a descriptor.
LEMMA DeletedType ==
    ASSUME NEW d \in BundleDescriptor, NEW mark \in BOOLEAN
    PROVE  Deleted(d, mark) \in BundleDescriptor
  BY DEF Deleted, BundleDescriptor

\* Starting a deleteBundle goroutine for a reference keeps delq a set of references.
LEMMA SpawnDeleteType ==
    ASSUME delq \subseteq Refs, NEW r \in Refs, NEW d, SpawnDelete(r, d)
    PROVE  delq' \subseteq Refs
  BY DEF SpawnDelete

\* The types of the variables are preserved by every call on a descriptor.
LEMMA DescriptorCallType ==
    ASSUME TypeOK, NEW r \in Refs, DescriptorCall(r)
    PROVE  TypeOK'
<1> USE StoreAssumption
<1>0. desc[r] \in BundleDescriptor /\ desc[r].constraints \subseteq Constraint
      /\ r[1] \in Bundles
  BY DEF TypeOK, BundleDescriptor
<1>1. ASSUME NEW c \in Constraint, AddConstraint(r, c) PROVE TypeOK'
  <2> DEFINE d == [desc[r] EXCEPT !.constraints = @ \cup {c}, !.retain = TRUE,
                                  !.dispatch = @ /\ c # "ForwardPending"]
  <2>0. d \in BundleDescriptor
    BY <1>0 DEF BundleDescriptor
  <2>1. desc' \in [Refs -> BundleDescriptor]
    <3>1. desc' = [desc EXCEPT ![r] = d] /\ desc \in [Refs -> BundleDescriptor]
      BY <1>1 DEF AddConstraint, TypeOK
    <3> HIDE DEF d
    <3> QED BY <2>0, <3>1
  <2> QED BY <2>1, <1>1 DEF AddConstraint, TypeOK, disk
<1>2. ASSUME NEW c \in Constraint, RemoveConstraint(r, c) PROVE TypeOK'
  <2>1. Settle(desc[r], desc[r].constraints \ {c}) \in BundleDescriptor
    BY <1>0, SettleType
  <2> QED BY <2>1, <1>2, SpawnDeleteType DEF RemoveConstraint, TypeOK, disk
<1>3. ASSUME ResetConstraints(r) PROVE TypeOK'
  <2>1. Settle(desc[r], {}) \in BundleDescriptor
    BY <1>0, SettleType
  <2> QED BY <2>1, <1>3, SpawnDeleteType DEF ResetConstraints, TypeOK, disk
<1>4. ASSUME NEW n \in Nodes, AddKnownHolder(r, n) PROVE TypeOK'
  <2>1. desc' \in [Refs -> BundleDescriptor]
    BY <1>0, <1>4 DEF AddKnownHolder, TypeOK, BundleDescriptor, BundleMetadata
  <2>2. desc'[r].meta \in BundleMetadata
    BY <2>1 DEF BundleDescriptor
  <2>3. db' \in [Bundles -> BundleMetadata \cup {NoRecord}]
    BY <2>2, <1>0, <1>4 DEF AddKnownHolder, updateBundleMetadata, TypeOK
  <2> QED BY <2>1, <2>3, <1>4 DEF AddKnownHolder, TypeOK
<1>5. ASSUME NEW v \in MiscValues, SetMiscData(r, v) PROVE TypeOK'
  <2>1. desc' \in [Refs -> BundleDescriptor]
    BY <1>0, <1>5 DEF SetMiscData, TypeOK, BundleDescriptor, BundleMetadata
  <2>2. desc'[r].meta \in BundleMetadata
    BY <2>1 DEF BundleDescriptor
  <2>3. db' \in [Bundles -> BundleMetadata \cup {NoRecord}]
    BY <2>2, <1>0, <1>5 DEF SetMiscData, updateBundleMetadata, TypeOK
  <2> QED BY <2>1, <2>3, <1>5 DEF SetMiscData, TypeOK
<1>6. ASSUME NEW mark \in BOOLEAN, Delete(r, mark) PROVE TypeOK'
  <2>1. Deleted(desc[r], mark) \in BundleDescriptor
    BY <1>0, DeletedType
  <2> QED BY <2>1, <1>6, SpawnDeleteType DEF Delete, TypeOK, disk
<1> QED BY <1>1, <1>2, <1>3, <1>4, <1>5, <1>6 DEF DescriptorCall

\* ... by every step of the holder of stateMutex, ...
LEMMA HolderType ==
    ASSUME TypeOK, NEW b \in Bundles,
           Insertion(b) \/ Deletion(b) \/ Collection(b) \/ Expire(b),
           \A p \in Bundles : step[p] = "write" => alloc[p] < MaxGen,
           \A p \in Bundles : step[p] = "collect" => Stored(p)
    PROVE  TypeOK'
<1> USE StoreAssumption, NoDescriptorType
<1> USE DEF disk, memory, Steps
<1>1. ASSUME NEW prev \in PreviousNode, InsertKnownBundle(b, prev) PROVE TypeOK'
  <2>1. CASE UNCHANGED storeVars
    BY <2>1 DEF TypeOK, storeVars
  <2>2. ASSUME NEW n \in prev, AddKnownHolder(Current(b), n), Stored(b) PROVE TypeOK'
    <3>1. n \in Nodes /\ Current(b) \in Refs
      BY <2>2, <1>1 DEF PreviousNode, Current, Stored, TypeOK
    <3> QED BY <3>1, <2>2, DescriptorCallType DEF DescriptorCall
  <2> QED BY <2>1, <2>2, <1>1 DEF InsertKnownBundle
<1>2. ASSUME NEW prev \in PreviousNode, InsertNewBundle(b, prev) PROVE TypeOK'
  <2>1. newMeta' \in BundleMetadata
    BY <1>2 DEF InsertNewBundle, PreviousNode, BundleMetadata
  <2> QED BY <2>1, <1>2 DEF InsertNewBundle, TypeOK
<1>3. CASE InsertNewBundleFails(b)
  BY <1>3 DEF InsertNewBundleFails, TypeOK, storeVars
<1>4. CASE CreateFile(b)
  BY <1>4 DEF CreateFile, TypeOK
<1>5. CASE CreateFileFails(b)
  BY <1>5 DEF CreateFileFails, RemoveRecord, RemoveFile, TypeOK
<1>6. CASE WriteFile(b)
  <2>1. alloc[b] + 1 \in Gens
    BY <1>6 DEF WriteFile, TypeOK
  <2>2. NewBundleDescriptor(newMeta) \in BundleDescriptor
    BY NewDescriptorType DEF TypeOK
  <2> QED BY <2>1, <2>2, <1>6 DEF WriteFile, TypeOK
<1>7. CASE WriteFileFails(b)
  BY <1>7 DEF WriteFileFails, TypeOK
<1>8. ASSUME NEW g \in Gens, deleteBundle(<<b, g>>) PROVE TypeOK'
  BY <1>8 DEF deleteBundle, RemoveRecord, TypeOK
<1>9. CASE UnlinkFile(b)
  BY <1>9 DEF UnlinkFile, RemoveFile, TypeOK
<1>10. CASE CollectTest(b)
  BY <1>10 DEF CollectTest, TypeOK
<1>11. CASE CollectDelete(b)
  <2> DEFINE r == Current(b)
  <2>1. r \in Refs
    BY <1>11 DEF CollectDelete, Current, Stored, TypeOK
  <2>2. Deleted(desc[r], FALSE) \in BundleDescriptor
    BY <2>1, DeletedType DEF TypeOK
  <2> HIDE DEF r
  <2>3. desc' \in [Refs -> BundleDescriptor] /\ delq' \subseteq Refs
    BY <2>1, <2>2, <1>11, SpawnDeleteType DEF CollectDelete, TypeOK, r
  <2> QED BY <2>3, <1>11 DEF CollectDelete, TypeOK
<1>12. CASE Expire(b)
  BY <1>12 DEF Expire, TypeOK
<1> QED
  BY <1>1, <1>2, <1>3, <1>4, <1>5, <1>6, <1>7, <1>8, <1>9, <1>10, <1>11, <1>12
     DEF Insertion, Deletion, Collection

\* ... and by the start of a collection and of the process, and by its end.
LEMMA ProcessType ==
    ASSUME TypeOK, GarbageCollect \/ InitialiseStore \/ ShutdownStore \/ Halt
    PROVE  TypeOK'
<1> USE StoreAssumption, NoDescriptorType
<1> USE DEF disk, memory, Steps
<1>1. CASE GarbageCollect
  BY <1>1 DEF GarbageCollect, TypeOK
<1>2. CASE InitialiseStore
  <2>1. \A b \in Bundles : db[b] # NoRecord => db[b] \in BundleMetadata
    BY DEF TypeOK
  <2>2. \A b \in Bundles : db[b] # NoRecord =>
            NewBundleDescriptor(db[b]) \in BundleDescriptor
    BY <2>1, NewDescriptorType
  <2>3. desc' \in [Refs -> BundleDescriptor]
    BY <2>2, <1>2 DEF InitialiseStore
  <2>4. bundles' \in [Bundles -> Gens \cup {0}]
    BY <1>2 DEF InitialiseStore
  <2> QED BY <2>3, <2>4, <1>2 DEF InitialiseStore, TypeOK
<1>3. CASE ShutdownStore
  BY <1>3 DEF ShutdownStore, TypeOK
<1>4. CASE Halt
  BY <1>4 DEF Halt, TypeOK
<1> QED BY <1>1, <1>2, <1>3, <1>4

-----------------------------------------------------------------------------
(* The descriptors *)

\* A call that replaces one live descriptor keeps the invariant of descriptors
\* if what it puts there is unconstrained when deleted, has its flags right, and
\* comes with a deleteBundle goroutine exactly when it is deleted.
LEMMA ReplaceDescriptor ==
    ASSUME TypeOK, DescriptorInv, NEW r \in Refs, NEW d \in BundleDescriptor,
           ~desc[r].deleted,
           desc' = [desc EXCEPT ![r] = d],
           bundles' = bundles,
           SpawnDelete(r, d),
           d.deleted => d.constraints = {},
           ~d.deleted => /\ d.retain <=> d.constraints # {}
                         /\ d.dispatch <=> "ForwardPending" \notin d.constraints
    PROVE  DescriptorInv'
<1>1. \A q \in Refs : desc'[q] = IF q = r THEN d ELSE desc[q]
  BY DEF TypeOK
<1>2. bundles[r[1]] = r[2] /\ r \notin delq
  BY DEF DescriptorInv, OneLiveDescriptor, DeletesOwnDescriptor
<1>3. DeletedIsUnconstrained'
  BY <1>1 DEF DescriptorInv, DeletedIsUnconstrained
<1>4. FlagsFollowConstraints'
  BY <1>1 DEF DescriptorInv, FlagsFollowConstraints
<1>5. OneLiveDescriptor'
  BY <1>1, <1>2 DEF DescriptorInv, OneLiveDescriptor
<1>6. DeletesOwnDescriptor'
  BY <1>1, <1>2 DEF DescriptorInv, DeletesOwnDescriptor, SpawnDelete
<1> QED BY <1>3, <1>4, <1>5, <1>6 DEF DescriptorInv

\* A step that changes only the metadata of descriptors keeps it as well.
LEMMA ReplaceMetadata ==
    ASSUME TypeOK, DescriptorInv, UNCHANGED <<bundles, delq>>,
           \A q \in Refs : /\ desc'[q].constraints = desc[q].constraints
                           /\ desc'[q].retain = desc[q].retain
                           /\ desc'[q].dispatch = desc[q].dispatch
                           /\ desc'[q].deleted = desc[q].deleted
    PROVE  DescriptorInv'
  BY DEF DescriptorInv, DeletedIsUnconstrained, FlagsFollowConstraints,
         OneLiveDescriptor, DeletesOwnDescriptor

\* Settle leaves flags that follow the constraints.
LEMMA SettleFlags ==
    ASSUME NEW d \in BundleDescriptor, NEW kept \in SUBSET Constraint
    PROVE  LET e == Settle(d, kept)
           IN  /\ e.deleted => e.constraints = {}
               /\ e.retain <=> e.constraints # {}
               /\ e.dispatch <=> "ForwardPending" \notin e.constraints
  BY DEF Settle, BundleDescriptor

\* Delete leaves the flags alone and deletes an unconstrained descriptor only.
LEMMA DeletedFlags ==
    ASSUME NEW d \in BundleDescriptor, NEW mark \in BOOLEAN, ~d.deleted
    PROVE  LET e == Deleted(d, mark)
           IN  /\ e.deleted => e.constraints = {}
               /\ e.constraints = d.constraints
               /\ e.retain = d.retain
               /\ e.dispatch = d.dispatch
  BY DEF Deleted, BundleDescriptor

\* Every call on a descriptor keeps the invariant of descriptors.
LEMMA DescriptorCallInv ==
    ASSUME TypeOK, DescriptorInv, NEW r \in Refs, DescriptorCall(r)
    PROVE  DescriptorInv'
<1>0. desc[r] \in BundleDescriptor /\ desc[r].constraints \subseteq Constraint
  BY DEF TypeOK, BundleDescriptor
<1>1. ASSUME NEW c \in Constraint, AddConstraint(r, c) PROVE DescriptorInv'
  <2> DEFINE d == [desc[r] EXCEPT !.constraints = @ \cup {c}, !.retain = TRUE,
                                  !.dispatch = @ /\ c # "ForwardPending"]
  <2>1. desc' = [desc EXCEPT ![r] = d]
    BY <1>1 DEF AddConstraint, TypeOK
  <2>2. /\ d \in BundleDescriptor
        /\ d.deleted = desc[r].deleted
        /\ d.constraints = desc[r].constraints \cup {c}
        /\ d.retain = TRUE
        /\ d.dispatch = (desc[r].dispatch /\ c # "ForwardPending")
    BY <1>0, <1>1 DEF BundleDescriptor
  <2>3. desc[r].dispatch <=> "ForwardPending" \notin desc[r].constraints
    BY <1>1 DEF AddConstraint, DescriptorInv, FlagsFollowConstraints
  <2>4. ~desc[r].deleted /\ bundles' = bundles /\ delq' = delq
    BY <1>1 DEF AddConstraint
  <2> HIDE DEF d
  <2>5. SpawnDelete(r, d)
    BY <2>2, <2>4 DEF SpawnDelete
  <2>6. d.dispatch <=> "ForwardPending" \notin d.constraints
    BY <2>2, <2>3
  <2>7. d.retain <=> d.constraints # {}
    BY <2>2
  <2> QED BY <2>1, <2>2, <2>4, <2>5, <2>6, <2>7, ReplaceDescriptor
<1>2. ASSUME NEW c \in Constraint, RemoveConstraint(r, c) PROVE DescriptorInv'
  <2> DEFINE d == Settle(desc[r], desc[r].constraints \ {c})
  <2>1. d \in BundleDescriptor /\ (d.deleted => d.constraints = {})
        /\ (d.retain <=> d.constraints # {})
        /\ (d.dispatch <=> "ForwardPending" \notin d.constraints)
    BY <1>0, SettleType, SettleFlags
  <2>2. /\ ~desc[r].deleted /\ bundles' = bundles
        /\ desc' = [desc EXCEPT ![r] = d] /\ SpawnDelete(r, d)
    BY <1>2 DEF RemoveConstraint
  <2> HIDE DEF d
  <2> QED BY <2>1, <2>2, ReplaceDescriptor
<1>3. ASSUME ResetConstraints(r) PROVE DescriptorInv'
  <2> DEFINE d == Settle(desc[r], {})
  <2>1. d \in BundleDescriptor /\ (d.deleted => d.constraints = {})
        /\ (d.retain <=> d.constraints # {})
        /\ (d.dispatch <=> "ForwardPending" \notin d.constraints)
    BY <1>0, SettleType, SettleFlags
  <2>2. /\ ~desc[r].deleted /\ bundles' = bundles
        /\ desc' = [desc EXCEPT ![r] = d] /\ SpawnDelete(r, d)
    BY <1>3 DEF ResetConstraints
  <2> HIDE DEF d
  <2> QED BY <2>1, <2>2, ReplaceDescriptor
<1>4. ASSUME NEW n \in Nodes, AddKnownHolder(r, n) PROVE DescriptorInv'
  BY <1>4, ReplaceMetadata DEF AddKnownHolder, TypeOK, BundleDescriptor
<1>5. ASSUME NEW v \in MiscValues, SetMiscData(r, v) PROVE DescriptorInv'
  BY <1>5, ReplaceMetadata DEF SetMiscData, TypeOK, BundleDescriptor
<1>6. ASSUME NEW mark \in BOOLEAN, Delete(r, mark) PROVE DescriptorInv'
  <2> DEFINE d == Deleted(desc[r], mark)
  <2>1. ~desc[r].deleted /\ bundles' = bundles
        /\ desc' = [desc EXCEPT ![r] = d] /\ SpawnDelete(r, d)
    BY <1>6 DEF Delete
  <2>2. d \in BundleDescriptor /\ (d.deleted => d.constraints = {})
        /\ d.constraints = desc[r].constraints
        /\ d.retain = desc[r].retain /\ d.dispatch = desc[r].dispatch
    BY <1>0, <2>1, DeletedType, DeletedFlags
  <2> HIDE DEF d
  <2>3. /\ d.retain <=> d.constraints # {}
        /\ d.dispatch <=> "ForwardPending" \notin d.constraints
    BY <2>1, <2>2 DEF DescriptorInv, FlagsFollowConstraints
  <2> QED BY <2>1, <2>2, <2>3, ReplaceDescriptor
<1> QED BY <1>1, <1>2, <1>3, <1>4, <1>5, <1>6 DEF DescriptorCall

\* Only the key's presence matters to the invariant of the disk, and Update
\* never adds or removes a key.
LEMMA UpdateKeepsKeys ==
    ASSUME TypeOK, NEW b \in Bundles, NEW m \in BundleMetadata,
           updateBundleMetadata(b, m)
    PROVE  \A c \in Bundles : db'[c] = NoRecord <=> db[c] = NoRecord
  BY NoRecordAssumption DEF TypeOK, updateBundleMetadata

\* A call on a descriptor does not disturb the disk.
LEMMA DescriptorCallDisk ==
    ASSUME TypeOK, TypeOK', DiskInv, NEW r \in Refs, DescriptorCall(r)
    PROVE  DiskInv'
<1>0. r[1] \in Bundles /\ desc'[r].meta \in BundleMetadata
  BY DEF TypeOK, BundleDescriptor
<1>1. /\ UNCHANGED <<phase, bundles, alloc, step, file, interrupted>>
      /\ \A c \in Bundles : db'[c] = NoRecord <=> db[c] = NoRecord
  <2>1. CASE \E n \in Nodes : AddKnownHolder(r, n)
    BY <1>0, <2>1, UpdateKeepsKeys DEF AddKnownHolder
  <2>2. CASE \E v \in MiscValues : SetMiscData(r, v)
    BY <1>0, <2>2, UpdateKeepsKeys DEF SetMiscData
  <2> QED BY <2>1, <2>2 DEF DescriptorCall, AddConstraint, RemoveConstraint,
                            ResetConstraints, Delete, disk
<1> QED BY <1>1 DEF DiskInv, StoredHasRecord, CopiesAgree, StepsAreSound,
                    DownIsEmpty, Stored

-----------------------------------------------------------------------------
(* The holder of stateMutex *)

\* Every step of an insertion, a deletion or a collection keeps the invariant.
LEMMA HolderInv ==
    ASSUME StoreInv, TypeOK', NEW b \in Bundles,
           Insertion(b) \/ Deletion(b) \/ Collection(b) \/ Expire(b)
    PROVE  DescriptorInv' /\ DiskInv'
<1> USE StoreAssumption
<1> USE DEF disk, memory
<1>0. TypeOK /\ DescriptorInv /\ DiskInv
  BY DEF StoreInv
<1>a. ASSUME UNCHANGED <<bundles, desc, delq>> PROVE DescriptorInv'
  BY <1>0, <1>a, ReplaceMetadata
<1>1. ASSUME NEW prev \in PreviousNode, InsertKnownBundle(b, prev)
      PROVE  DescriptorInv' /\ DiskInv'
  <2>1. CASE UNCHANGED storeVars
    BY <2>1, <1>0 DEF storeVars, DescriptorInv, DeletedIsUnconstrained,
       FlagsFollowConstraints, OneLiveDescriptor, DeletesOwnDescriptor, DiskInv,
       StoredHasRecord, CopiesAgree, StepsAreSound, DownIsEmpty, Stored
  <2>2. ASSUME NEW n \in prev, AddKnownHolder(Current(b), n), Stored(b)
        PROVE  DescriptorInv' /\ DiskInv'
    <3>1. n \in Nodes /\ Current(b) \in Refs
      BY <2>2, <1>0, <1>1 DEF PreviousNode, Current, Stored, TypeOK
    <3>2. DescriptorCall(Current(b))
      BY <3>1, <2>2 DEF DescriptorCall
    <3> QED BY <3>1, <3>2, <1>0, DescriptorCallInv, DescriptorCallDisk
  <2> QED BY <2>1, <2>2, <1>1 DEF InsertKnownBundle
<1>2. ASSUME NEW prev \in PreviousNode, InsertNewBundle(b, prev)
      PROVE  DescriptorInv' /\ DiskInv'
  <2>1. DescriptorInv'
    BY <1>2, <1>a DEF InsertNewBundle
  <2>2. newMeta' \in BundleMetadata
    BY DEF TypeOK
  <2>3. /\ \A c \in Bundles \ {b} : db'[c] = db[c] /\ step'[c] = step[c]
        /\ db'[b] # NoRecord /\ step'[b] = "create"
        /\ bundles[b] = 0 /\ alloc[b] < MaxGen /\ phase = "up"
        /\ UNCHANGED <<phase, bundles, alloc, file, interrupted>>
    BY <2>2, <1>0, <1>2, NoRecordAssumption DEF InsertNewBundle, Stored, TypeOK
  <2>4. DiskInv'
    BY <2>3, <1>0 DEF DiskInv, StoredHasRecord, CopiesAgree, StepsAreSound,
       DownIsEmpty, Stored
  <2> QED BY <2>1, <2>4
<1>3. CASE InsertNewBundleFails(b)
  BY <1>3, <1>0, <1>a DEF InsertNewBundleFails, storeVars, DiskInv,
     StoredHasRecord, CopiesAgree, StepsAreSound, DownIsEmpty, Stored
<1>4. CASE CreateFile(b)
  BY <1>4, <1>0, <1>a DEF CreateFile, DiskInv, StoredHasRecord, CopiesAgree,
     StepsAreSound, DownIsEmpty, Stored, TypeOK
<1>5. CASE CreateFileFails(b)
  BY <1>5, <1>0, <1>a DEF CreateFileFails, RemoveRecord, RemoveFile, DiskInv,
     StoredHasRecord, CopiesAgree, StepsAreSound, DownIsEmpty, Stored, TypeOK
<1>6. CASE WriteFile(b)
  <2> DEFINE g == alloc[b] + 1
             r == <<b, g>>
             d == NewBundleDescriptor(newMeta)
  <2>1. bundles[b] = 0 /\ g \in Gens /\ r \in Refs /\ db[b] # NoRecord
    BY <1>6, <1>0 DEF WriteFile, DiskInv, StepsAreSound, TypeOK
  <2>2. /\ d.constraints = {"DispatchPending"} /\ d.retain = TRUE
        /\ d.dispatch = TRUE /\ d.deleted = FALSE
    BY DEF NewBundleDescriptor
  <2>3. /\ \A q \in Refs : desc'[q] = IF q = r THEN d ELSE desc[q]
        /\ \A c \in Bundles : bundles'[c] = IF c = b THEN g ELSE bundles[c]
        /\ delq' = delq
    BY <1>6, <1>0, <2>1 DEF WriteFile, TypeOK
  <2>4. \A q \in Refs : q[1] = b => desc[q].deleted /\ q \notin delq
    BY <2>1, <1>0 DEF DescriptorInv, OneLiveDescriptor, DeletesOwnDescriptor
  <2>5. \A q \in Refs : q = r <=> q[1] = b /\ q[2] = g
    OBVIOUS
  <2> HIDE DEF d, r
  <2>6. DescriptorInv'
    BY <1>0, <2>1, <2>2, <2>3, <2>4, <2>5
       DEF DescriptorInv, DeletedIsUnconstrained, FlagsFollowConstraints,
           OneLiveDescriptor, DeletesOwnDescriptor
  <2>7. DiskInv'
    BY <1>0, <1>6, <2>1
       DEF WriteFile, DiskInv, StoredHasRecord, CopiesAgree, StepsAreSound,
           DownIsEmpty, Stored, TypeOK
  <2> QED BY <2>6, <2>7
<1>7. CASE WriteFileFails(b)
  BY <1>7, <1>0, <1>a DEF WriteFileFails, DiskInv, StoredHasRecord, CopiesAgree,
     StepsAreSound, DownIsEmpty, Stored, TypeOK
<1>8. ASSUME NEW g \in Gens, deleteBundle(<<b, g>>)
      PROVE  DescriptorInv' /\ DiskInv'
  <2>1. bundles[b] = g /\ desc[<<b, g>>].deleted
    BY <1>8, <1>0 DEF deleteBundle, DescriptorInv, DeletesOwnDescriptor
  <2>2. /\ desc' = desc /\ delq' = delq \ {<<b, g>>}
        /\ \A c \in Bundles : bundles'[c] = IF c = b THEN 0 ELSE bundles[c]
    BY <1>8, <1>0 DEF deleteBundle, TypeOK
  <2>3. \A q \in Refs : q = <<b, g>> <=> q[1] = b /\ q[2] = g
    OBVIOUS
  <2>4. DescriptorInv'
    BY <1>0, <2>1, <2>2, <2>3
       DEF DescriptorInv, DeletedIsUnconstrained, FlagsFollowConstraints,
           OneLiveDescriptor, DeletesOwnDescriptor
  <2>5. DiskInv'
    BY <1>0, <1>8
       DEF deleteBundle, RemoveRecord, DiskInv, StoredHasRecord, CopiesAgree,
           StepsAreSound, DownIsEmpty, Stored, TypeOK, LockFree
  <2> QED BY <2>4, <2>5
<1>9. CASE UnlinkFile(b)
  BY <1>9, <1>0, <1>a DEF UnlinkFile, RemoveFile, DiskInv, StoredHasRecord,
     CopiesAgree, StepsAreSound, DownIsEmpty, Stored, TypeOK
<1>10. CASE CollectTest(b)
  BY <1>10, <1>0, <1>a DEF CollectTest, DiskInv, StoredHasRecord, CopiesAgree,
     StepsAreSound, DownIsEmpty, Stored, TypeOK
<1>11. CASE CollectDelete(b)
  <2> DEFINE r == Current(b)
             d == Deleted(desc[r], FALSE)
  <2>1. r \in Refs
    BY <1>11, <1>0 DEF CollectDelete, Current, DiskInv, StepsAreSound, TypeOK
  <2>2. desc[r] \in BundleDescriptor
    BY <2>1, <1>0 DEF TypeOK
  <2>3. DescriptorInv'
    <3>1. CASE desc[r].deleted
      BY <3>1, <1>11, <1>a DEF CollectDelete
    <3>2. CASE ~desc[r].deleted
      <4>1. d \in BundleDescriptor /\ (d.deleted => d.constraints = {})
            /\ d.constraints = desc[r].constraints
            /\ d.retain = desc[r].retain /\ d.dispatch = desc[r].dispatch
        BY <2>2, <3>2, DeletedType, DeletedFlags
      <4>2. bundles' = bundles /\ desc' = [desc EXCEPT ![r] = d] /\ SpawnDelete(r, d)
        BY <3>2, <1>11 DEF CollectDelete
      <4> HIDE DEF d, r
      <4>3. /\ d.retain <=> d.constraints # {}
            /\ d.dispatch <=> "ForwardPending" \notin d.constraints
        BY <4>1, <3>2, <2>1, <1>0 DEF DescriptorInv, FlagsFollowConstraints
      <4> QED BY <4>1, <4>2, <4>3, <3>2, <2>1, <1>0, ReplaceDescriptor
    <3> QED BY <3>1, <3>2
  <2>4. DiskInv'
    BY <1>11, <1>0 DEF CollectDelete, DiskInv, StoredHasRecord, CopiesAgree,
       StepsAreSound, DownIsEmpty, Stored, TypeOK
  <2> QED BY <2>3, <2>4
<1>12. CASE Expire(b)
  BY <1>12, <1>0, <1>a DEF Expire, DiskInv, StoredHasRecord, CopiesAgree,
     StepsAreSound, DownIsEmpty, Stored
<1> QED
  BY <1>1, <1>2, <1>3, <1>4, <1>5, <1>6, <1>7, <1>8, <1>9, <1>10, <1>11, <1>12
     DEF Insertion, Deletion, Collection

\* The start of a collection, of the process and of its shutdown, and its end,
\* keep the invariant.
LEMMA ProcessInv ==
    ASSUME StoreInv, TypeOK', GarbageCollect \/ InitialiseStore \/ ShutdownStore \/ Halt
    PROVE  DescriptorInv' /\ DiskInv'
<1> USE StoreAssumption
<1> USE DEF disk, memory
<1>0. TypeOK /\ DescriptorInv /\ DiskInv
  BY DEF StoreInv
<1>a. ASSUME UNCHANGED <<bundles, desc, delq>> PROVE DescriptorInv'
  BY <1>0, <1>a, ReplaceMetadata
<1>b. /\ NoDescriptor.constraints = {} /\ NoDescriptor.deleted = TRUE
  BY DEF NoDescriptor
<1>1. CASE GarbageCollect
  BY <1>1, <1>0, <1>a DEF GarbageCollect, DiskInv, StoredHasRecord, CopiesAgree,
     StepsAreSound, DownIsEmpty, Stored, TypeOK, LockFree
<1>2. CASE InitialiseStore
  <2>1. delq' = {}
    BY <1>2, <1>0 DEF InitialiseStore, DiskInv, DownIsEmpty, DescriptorInv,
       DeletesOwnDescriptor, TypeOK
  <2>2. \A r \in Refs :
            \/ /\ r[2] = 1 /\ bundles'[r[1]] = 1 /\ ~desc'[r].deleted
               /\ desc'[r].constraints = {"DispatchPending"}
               /\ desc'[r].retain = TRUE /\ desc'[r].dispatch = TRUE
            \/ /\ bundles'[r[1]] # r[2] /\ desc'[r].deleted
               /\ desc'[r].constraints = {}
    BY <1>2, <1>b DEF InitialiseStore, NewBundleDescriptor
  <2>3. DescriptorInv'
    BY <2>1, <2>2
       DEF DescriptorInv, DeletedIsUnconstrained, FlagsFollowConstraints,
           OneLiveDescriptor, DeletesOwnDescriptor
  <2>4. DiskInv'
    BY <1>2, <1>0
       DEF InitialiseStore, DiskInv, StoredHasRecord, CopiesAgree, StepsAreSound,
           DownIsEmpty, Stored, TypeOK
  <2> QED BY <2>3, <2>4
<1>3. CASE ShutdownStore
  BY <1>3, <1>0, <1>a DEF ShutdownStore, DiskInv, StoredHasRecord, CopiesAgree,
     StepsAreSound, DownIsEmpty, Stored
<1>4. CASE Halt
  <2>1. DescriptorInv'
    BY <1>4, <1>b
       DEF Halt, DescriptorInv, DeletedIsUnconstrained, FlagsFollowConstraints,
           OneLiveDescriptor, DeletesOwnDescriptor
  <2>2. DiskInv'
    BY <1>4, <1>0
       DEF Halt, DiskInv, StoredHasRecord, CopiesAgree, StepsAreSound,
           DownIsEmpty, Stored, TypeOK, Steps
  <2> QED BY <2>1, <2>2
<1> QED BY <1>1, <1>2, <1>3, <1>4

-----------------------------------------------------------------------------
(* The theorems *)

\* The invariant holds in a node's first state.
LEMMA StoreInvInit == StoreInit => StoreInv
<1> SUFFICES ASSUME StoreInit PROVE StoreInv
  OBVIOUS
<1> USE StoreAssumption, NoDescriptorType
<1>1. TypeOK
  BY DEF StoreInit, TypeOK, Steps
<1>2. DescriptorInv
  BY DEF StoreInit, DescriptorInv, DeletedIsUnconstrained, FlagsFollowConstraints,
         OneLiveDescriptor, DeletesOwnDescriptor, NoDescriptor
<1>3. DiskInv
  BY DEF StoreInit, DiskInv, StoredHasRecord, CopiesAgree, StepsAreSound,
         DownIsEmpty, Stored
<1> QED BY <1>1, <1>2, <1>3 DEF StoreInv

\* Every step keeps it.
LEMMA StoreInvNext == StoreInv /\ [StoreNext]_storeVars => StoreInv'
<1> SUFFICES ASSUME StoreInv, [StoreNext]_storeVars PROVE StoreInv'
  OBVIOUS
<1>0. TypeOK /\ DescriptorInv /\ DiskInv
  BY DEF StoreInv
<1>1. ASSUME NEW r \in Refs, DescriptorCall(r) PROVE StoreInv'
  <2>1. TypeOK'
    BY <1>0, <1>1, DescriptorCallType
  <2> QED BY <2>1, <1>0, <1>1, DescriptorCallInv, DescriptorCallDisk DEF StoreInv
<1>2. ASSUME NEW b \in Bundles, Insertion(b) \/ Deletion(b) \/ Collection(b) \/ Expire(b)
      PROVE  StoreInv'
  <2>1. \A p \in Bundles : /\ step[p] = "write" => alloc[p] < MaxGen
                           /\ step[p] = "collect" => Stored(p)
    BY <1>0 DEF DiskInv, StepsAreSound, Stored
  <2>2. TypeOK'
    BY <2>1, <1>0, <1>2, HolderType
  <2> QED BY <2>2, <1>2, HolderInv DEF StoreInv
<1>3. CASE GarbageCollect \/ InitialiseStore \/ ShutdownStore \/ Halt
  <2>1. TypeOK'
    BY <1>0, <1>3, ProcessType
  <2> QED BY <2>1, <1>3, ProcessInv DEF StoreInv
<1>4. CASE UNCHANGED storeVars
  BY <1>4, <1>0 DEF storeVars, StoreInv, TypeOK, DescriptorInv,
     DeletedIsUnconstrained, FlagsFollowConstraints, OneLiveDescriptor,
     DeletesOwnDescriptor, DiskInv, StoredHasRecord, CopiesAgree, StepsAreSound,
     DownIsEmpty, Stored
<1> QED BY <1>1, <1>2, <1>3, <1>4 DEF StoreNext

\* The inductive invariant holds in every reachable state.
THEOREM StoreInvariant == StoreSpec => []StoreInv
  BY StoreInvInit, StoreInvNext, PTL DEF StoreSpec

\* Every variable keeps its type.
THEOREM StoreTypeCorrect == StoreSpec => []TypeOK
<1>1. StoreInv => TypeOK
  BY DEF StoreInv
<1> QED BY <1>1, StoreInvariant, PTL

\* A bundle with retention constraints is never deleted, whoever calls what in
\* whichever order and whatever fails.
THEOREM NeverDeletesConstrained == StoreSpec => []DeletedIsUnconstrained
<1>1. StoreInv => DeletedIsUnconstrained
  BY DEF StoreInv, DescriptorInv
<1> QED BY <1>1, StoreInvariant, PTL

\* Retain and Dispatch, which answer from flags that six methods maintain, always
\* answer what the constraints of a live descriptor say.
THEOREM StoreFlagsFollow == StoreSpec => []FlagsFollowConstraints
<1>1. StoreInv => FlagsFollowConstraints
  BY DEF StoreInv, DescriptorInv
<1> QED BY <1>1, StoreInvariant, PTL

\* Of all descriptors a process ever creates for a bundle at most one is live,
\* and it is the one in the map.
THEOREM LiveDescriptorIsUnique == StoreSpec => []OneLiveDescriptor
<1>1. StoreInv => OneLiveDescriptor
  BY DEF StoreInv, DescriptorInv
<1> QED BY <1>1, StoreInvariant, PTL

\* A pending deleteBundle goroutine can only remove the descriptor that was
\* deleted, never a later insertion of the same bundle.
THEOREM DeletionHitsItsOwn == StoreSpec => []DeletesOwnDescriptor
<1>1. StoreInv => DeletesOwnDescriptor
  BY DEF StoreInv, DescriptorInv
<1> QED BY <1>1, StoreInvariant, PTL

\* Map, database and bundle directory agree on every bundle that is not being
\* worked on and whose last insertion or deletion was not cut short.
THEOREM StoreCopiesAgree == StoreSpec => []CopiesAgree
<1>1. StoreInv => CopiesAgree
  BY DEF StoreInv, DiskInv
<1> QED BY <1>1, StoreInvariant, PTL

-----------------------------------------------------------------------------
(* The store implements StoreView *)

\* A step that takes one bundle a step further is a step of StoreView.
LEMMA ViewOfOne ==
    ASSUME NEW b \in Bundles, phase' = phase,
           \A p \in Bundles \ {b} : ViewOf(p)' = ViewOf(p),
           \/ ViewOf(b)' = ViewOf(b)
           \/ ViewOf(b) = "absent" /\ ViewOf(b)' = "live"
           \/ phase = "up" /\ ViewOf(b) \in {"live", "broken"} /\ ViewOf(b)' = "deleted"
           \/ ViewOf(b) = "deleted" /\ ViewOf(b)' = "absent"
    PROVE  [View!ViewNext]_(View!viewVars)
<1> DEFINE v == [p \in Bundles |-> ViewOf(p)]
<1>1. v' = [v EXCEPT ![b] = ViewOf(b)']
  OBVIOUS
<1>2. CASE ViewOf(b)' = ViewOf(b)
  <2>1. v' = v
    BY <1>1, <1>2
  <2> QED BY <2>1 DEF View!viewVars
<1>3. CASE ViewOf(b) = "absent" /\ ViewOf(b)' = "live"
  <2>1. View!ViewInsert(b)
    BY <1>1, <1>3 DEF View!ViewInsert
  <2> QED BY <2>1 DEF View!ViewNext, View!ViewStep
<1>4. CASE phase = "up" /\ ViewOf(b) \in {"live", "broken"} /\ ViewOf(b)' = "deleted"
  <2>1. View!ViewDelete(b)
    BY <1>1, <1>4 DEF View!ViewDelete
  <2> QED BY <2>1 DEF View!ViewNext, View!ViewStep
<1>5. CASE ViewOf(b) = "deleted" /\ ViewOf(b)' = "absent"
  <2>1. View!ViewRemove(b)
    BY <1>1, <1>5 DEF View!ViewRemove
  <2> QED BY <2>1 DEF View!ViewNext, View!ViewStep
<1> QED BY <1>2, <1>3, <1>4, <1>5

\* A step that keeps the map, the files and the deleted flags is not seen.
LEMMA ViewSame ==
    ASSUME phase' = phase, bundles' = bundles, file' = file,
           \A r \in Refs : desc'[r].deleted = desc[r].deleted,
           bundles \in [Bundles -> Gens \cup {0}]
    PROVE  [View!ViewNext]_(View!viewVars)
<1>1. ASSUME NEW p \in Bundles PROVE ViewOf(p)' = ViewOf(p)
  <2>1. CASE bundles[p] = 0
    BY <2>1 DEF ViewOf
  <2>2. CASE bundles[p] # 0
    BY <2>2 DEF ViewOf, Current, LoadSucceeds
  <2> QED BY <2>1, <2>2
<1> QED BY <1>1 DEF View!viewVars

\* A call that rewrites a live descriptor without a change of the map or a file
\* leaves its bundle as it is or deletes it.
LEMMA ViewOfCall ==
    ASSUME StoreInv, NEW r \in Refs, NEW d, phase = "up", ~desc[r].deleted,
           phase' = phase, bundles' = bundles, file' = file,
           desc' = [desc EXCEPT ![r] = d], d.deleted \in BOOLEAN
    PROVE  [View!ViewNext]_(View!viewVars)
<1>0. desc \in [Refs -> BundleDescriptor] /\ bundles \in [Bundles -> Gens \cup {0}]
      /\ bundles[r[1]] = r[2] /\ r[1] \in Bundles /\ r[2] # 0 /\ r = <<r[1], r[2]>>
  BY StoreAssumption DEF StoreInv, TypeOK, DescriptorInv, OneLiveDescriptor
<1>1. ASSUME NEW p \in Bundles \ {r[1]} PROVE ViewOf(p)' = ViewOf(p)
  <2>1. Current(p) # r /\ Current(p)' = Current(p)
    BY <1>0 DEF Current
  <2>2. CASE bundles[p] = 0
    BY <2>2 DEF ViewOf
  <2>3. CASE bundles[p] # 0
    <3>1. Current(p) \in Refs
      BY <2>3, <1>0 DEF Current
    <3>2. desc'[Current(p)] = desc[Current(p)]
      BY <3>1, <2>1, <1>0
    <3> QED BY <3>2, <2>1 DEF ViewOf, LoadSucceeds
  <2> QED BY <2>2, <2>3
<1>2. Current(r[1]) = r /\ Current(r[1])' = r /\ desc'[r] = d
  BY <1>0 DEF Current
<1>3. ViewOf(r[1]) = IF file[r[1]] # "none" THEN "live" ELSE "broken"
  BY <1>0, <1>2 DEF ViewOf, LoadSucceeds
<1>4. ViewOf(r[1])' = IF d.deleted THEN "deleted" ELSE ViewOf(r[1])
  BY <1>0, <1>2, <1>3 DEF ViewOf, LoadSucceeds
<1> QED BY <1>0, <1>1, <1>3, <1>4, ViewOfOne

\* Every call on a descriptor is a step of StoreView or not seen.
LEMMA ViewDescriptorCall ==
    ASSUME StoreInv, NEW r \in Refs, DescriptorCall(r)
    PROVE  [View!ViewNext]_(View!viewVars)
<1>0. desc \in [Refs -> BundleDescriptor] /\ bundles \in [Bundles -> Gens \cup {0}]
      /\ desc[r] \in BundleDescriptor
  BY DEF StoreInv, TypeOK
<1>1. ASSUME NEW c \in Constraint, AddConstraint(r, c)
      PROVE  [View!ViewNext]_(View!viewVars)
  <2>1. \A s \in Refs : desc'[s].deleted = desc[s].deleted
    BY <1>0, <1>1 DEF AddConstraint, BundleDescriptor
  <2> QED BY <2>1, <1>0, <1>1, ViewSame DEF AddConstraint, disk
<1>2. ASSUME NEW c \in Constraint, RemoveConstraint(r, c)
      PROVE  [View!ViewNext]_(View!viewVars)
  <2>1. Settle(desc[r], desc[r].constraints \ {c}) \in BundleDescriptor
    BY <1>0, SettleType DEF BundleDescriptor
  <2> QED BY <2>1, <1>2, ViewOfCall DEF RemoveConstraint, disk, Callable, BundleDescriptor
<1>3. ASSUME ResetConstraints(r) PROVE [View!ViewNext]_(View!viewVars)
  <2>1. Settle(desc[r], {}) \in BundleDescriptor
    BY <1>0, SettleType
  <2> QED BY <2>1, <1>3, ViewOfCall DEF ResetConstraints, disk, Callable, BundleDescriptor
<1>4. ASSUME NEW n \in Nodes, AddKnownHolder(r, n)
      PROVE  [View!ViewNext]_(View!viewVars)
  <2>1. \A s \in Refs : desc'[s].deleted = desc[s].deleted
    BY <1>0, <1>4 DEF AddKnownHolder, BundleDescriptor
  <2> QED BY <2>1, <1>0, <1>4, ViewSame DEF AddKnownHolder
<1>5. ASSUME NEW w \in MiscValues, SetMiscData(r, w)
      PROVE  [View!ViewNext]_(View!viewVars)
  <2>1. \A s \in Refs : desc'[s].deleted = desc[s].deleted
    BY <1>0, <1>5 DEF SetMiscData, BundleDescriptor
  <2> QED BY <2>1, <1>0, <1>5, ViewSame DEF SetMiscData
<1>6. ASSUME NEW mark \in BOOLEAN, Delete(r, mark)
      PROVE  [View!ViewNext]_(View!viewVars)
  <2>1. Deleted(desc[r], mark) \in BundleDescriptor
    BY <1>0, DeletedType
  <2> QED BY <2>1, <1>6, ViewOfCall DEF Delete, disk, Callable, BundleDescriptor
<1> QED BY <1>1, <1>2, <1>3, <1>4, <1>5, <1>6 DEF DescriptorCall

\* So is every step of an insertion, a deletion or a garbage collection.
LEMMA ViewHolder ==
    ASSUME StoreInv, NEW b \in Bundles,
           Insertion(b) \/ Deletion(b) \/ Collection(b) \/ Expire(b)
    PROVE  [View!ViewNext]_(View!viewVars)
<1>0. /\ desc \in [Refs -> BundleDescriptor] /\ bundles \in [Bundles -> Gens \cup {0}]
      /\ file \in [Bundles -> {"none", "partial", "full"}]
      /\ alloc \in [Bundles -> Gens \cup {0}]
  BY DEF StoreInv, TypeOK
<1>1. step[b] \in {"create", "write", "unlink"} => bundles[b] = 0
  BY DEF StoreInv, DiskInv, StepsAreSound
<1>2. ASSUME NEW prev \in PreviousNode, InsertKnownBundle(b, prev)
      PROVE  [View!ViewNext]_(View!viewVars)
  <2>1. CASE UNCHANGED storeVars
    BY <2>1, <1>0, ViewSame DEF storeVars
  <2>2. ASSUME NEW n \in prev, AddKnownHolder(Current(b), n)
        PROVE  [View!ViewNext]_(View!viewVars)
    <3>1. n \in Nodes /\ Current(b) \in Refs
      BY <1>0, <1>2 DEF PreviousNode, Current, InsertKnownBundle, Stored
    <3> QED BY <3>1, <2>2, ViewDescriptorCall DEF DescriptorCall
  <2> QED BY <2>1, <2>2, <1>2 DEF InsertKnownBundle
<1>3. CASE (\E prev \in PreviousNode : InsertNewBundle(b, prev)) \/ InsertNewBundleFails(b)
           \/ WriteFileFails(b) \/ CollectTest(b) \/ Expire(b)
  BY <1>3, <1>0, ViewSame
     DEF InsertNewBundle, InsertNewBundleFails, WriteFileFails, CollectTest, Expire,
         storeVars, memory, disk
<1>4. CASE CreateFile(b) \/ CreateFileFails(b) \/ UnlinkFile(b)
  <2>1. phase' = phase /\ bundles' = bundles /\ desc' = desc /\ bundles[b] = 0
        /\ \A p \in Bundles \ {b} : file'[p] = file[p]
    BY <1>4, <1>1, <1>0 DEF CreateFile, CreateFileFails, UnlinkFile, memory, RemoveFile
  <2>2. ASSUME NEW p \in Bundles PROVE ViewOf(p)' = ViewOf(p)
    BY <2>1 DEF ViewOf, Current, LoadSucceeds
  <2> QED BY <2>1, <2>2, ViewOfOne
<1>5. CASE WriteFile(b)
  <2> DEFINE g == alloc[b] + 1
  <2>1. /\ phase' = phase /\ bundles[b] = 0 /\ g \in Gens
        /\ bundles' = [bundles EXCEPT ![b] = g]
        /\ file' = [file EXCEPT ![b] = "full"]
        /\ desc' = [desc EXCEPT ![<<b, g>>] = NewBundleDescriptor(newMeta)]
    BY <1>5, <1>1, <1>0, StoreAssumption
       DEF WriteFile, StoreInv, DiskInv, StepsAreSound
  <2>2. ASSUME NEW p \in Bundles \ {b} PROVE ViewOf(p)' = ViewOf(p)
    <3>1. bundles'[p] = bundles[p] /\ file'[p] = file[p] /\ Current(p) # <<b, g>>
          /\ Current(p)' = Current(p)
      BY <2>1, <1>0 DEF Current
    <3>2. CASE bundles[p] = 0
      BY <3>1, <3>2 DEF ViewOf
    <3>3. CASE bundles[p] # 0
      <4>1. desc'[Current(p)] = desc[Current(p)]
        BY <3>1, <3>3, <2>1, <1>0 DEF Current
      <4> QED BY <3>1, <4>1 DEF ViewOf, LoadSucceeds, Current
    <3> QED BY <3>2, <3>3
  <2>3. bundles'[b] = g /\ g # 0 /\ file'[b] = "full" /\ ~desc'[<<b, g>>].deleted
    BY <2>1, <1>0, StoreAssumption DEF NewBundleDescriptor
  <2>4. ViewOf(b) = "absent" /\ ViewOf(b)' = "live"
    BY <2>1, <2>3 DEF ViewOf, LoadSucceeds, Current
  <2> QED BY <2>1, <2>2, <2>4, ViewOfOne
<1>6. CASE CollectDelete(b)
  <2>1. CASE desc[Current(b)].deleted
    BY <2>1, <1>6, <1>0, ViewSame DEF CollectDelete, disk
  <2>2. CASE ~desc[Current(b)].deleted
    <3>1. Current(b) \in Refs
      BY <1>0, <1>6 DEF Current, CollectDelete, StoreInv, DiskInv, StepsAreSound
    <3>2. Deleted(desc[Current(b)], FALSE) \in BundleDescriptor
      BY <3>1, <1>0, DeletedType
    <3> QED BY <3>1, <3>2, <2>2, <1>6, ViewOfCall DEF CollectDelete, disk, BundleDescriptor
  <2> QED BY <2>1, <2>2
<1>7. ASSUME NEW g \in Gens, deleteBundle(<<b, g>>)
      PROVE  [View!ViewNext]_(View!viewVars)
  <2>1. phase' = phase /\ bundles' = [bundles EXCEPT ![b] = 0] /\ file' = file /\ desc' = desc
        /\ <<b, g>> \in delq
    BY <1>7 DEF deleteBundle
  <2>2. desc[<<b, g>>].deleted /\ bundles[b] = g
    BY <2>1 DEF StoreInv, DescriptorInv, DeletesOwnDescriptor
  <2>3. ASSUME NEW p \in Bundles \ {b} PROVE ViewOf(p)' = ViewOf(p)
    BY <2>1, <1>0 DEF ViewOf, Current, LoadSucceeds
  <2>4. ViewOf(b) = "deleted" /\ ViewOf(b)' = "absent"
    BY <2>1, <2>2, <1>0, StoreAssumption DEF ViewOf, Current
  <2> QED BY <2>1, <2>3, <2>4, ViewOfOne
<1> QED
  BY <1>2, <1>3, <1>4, <1>5, <1>6, <1>7 DEF Insertion, Deletion, Collection

\* So are the start and the end of a process.
LEMMA ViewProcess ==
    ASSUME StoreInv, GarbageCollect \/ InitialiseStore \/ ShutdownStore \/ Halt
    PROVE  [View!ViewNext]_(View!viewVars)
<1>0. desc \in [Refs -> BundleDescriptor] /\ bundles \in [Bundles -> Gens \cup {0}]
  BY DEF StoreInv, TypeOK
<1>1. CASE GarbageCollect
  BY <1>1, <1>0, ViewSame DEF GarbageCollect, memory, disk
<1>2. CASE InitialiseStore
  <2>1. phase = "down" /\ phase' = "up" /\ \A b \in Bundles : bundles[b] = 0
    BY <1>2 DEF InitialiseStore, StoreInv, DiskInv, DownIsEmpty
  <2>2. ASSUME NEW b \in Bundles
        PROVE  ViewOf(b) = "absent" /\ ViewOf(b)' \in {"absent", "live", "broken"}
    <3>1. ViewOf(b) = "absent"
      BY <2>1 DEF ViewOf
    <3>2. CASE bundles'[b] = 0
      BY <3>1, <3>2 DEF ViewOf
    <3>3. CASE bundles'[b] # 0
      <4>1. bundles'[b] = 1 /\ db[b] # NoRecord
        BY <3>3, <1>2 DEF InitialiseStore
      <4>2. <<b, 1>> \in Refs
        BY StoreAssumption
      <4>3. ~desc'[<<b, 1>>].deleted
        BY <4>1, <4>2, <1>2 DEF InitialiseStore, NewBundleDescriptor
      <4>4. Current(b)' = <<b, 1>>
        BY <4>1 DEF Current
      <4> QED BY <3>1, <3>3, <4>3, <4>4 DEF ViewOf
    <3> QED BY <3>2, <3>3
  <2>3. View!ViewStart
    BY <2>1, <2>2 DEF View!ViewStart
  <2> QED BY <2>3 DEF View!ViewNext
<1>3. CASE ShutdownStore
  <2>1. ASSUME NEW b \in Bundles PROVE ViewOf(b)' = ViewOf(b)
    BY <1>3 DEF ShutdownStore, memory, disk, ViewOf, Current, LoadSucceeds
  <2>2. View!ViewClose
    BY <2>1, <1>3 DEF ShutdownStore, View!ViewClose
  <2> QED BY <2>2 DEF View!ViewNext
<1>4. CASE Halt
  <2>1. ASSUME NEW b \in Bundles PROVE ViewOf(b)' = "absent"
    BY <1>4 DEF Halt, ViewOf
  <2>2. View!ViewHalt
    BY <2>1, <1>4 DEF Halt, View!ViewHalt
  <2> QED BY <2>2 DEF View!ViewNext
<1> QED BY <1>1, <1>2, <1>3, <1>4

\* What the users of the store see of it is what StoreView promises: a bundle
\* lives, is deleted and disappears, in this order, until the process ends.
THEOREM StoreImplementsView == StoreSpec => ImplementsView
<1>1. StoreInit => View!ViewInit
  BY DEF StoreInit, View!ViewInit, ViewOf
<1>2. StoreInv /\ [StoreNext]_storeVars => [View!ViewNext]_(View!viewVars)
  <2> SUFFICES ASSUME StoreInv, [StoreNext]_storeVars
               PROVE  [View!ViewNext]_(View!viewVars)
    OBVIOUS
  <2>1. bundles \in [Bundles -> Gens \cup {0}]
    BY DEF StoreInv, TypeOK
  <2>2. CASE UNCHANGED storeVars
    BY <2>1, <2>2, ViewSame DEF storeVars
  <2> QED BY <2>2, ViewDescriptorCall, ViewHolder, ViewProcess DEF StoreNext
<1> QED BY <1>1, <1>2, StoreInvariant, PTL DEF StoreSpec, ImplementsView, View!ViewSpec
=============================================================================
