------------------------------ MODULE Fragmentation ------------------------------
(***************************************************************************)
(* pkg/bpv7/fragmentation.go: a bundle is cut into fragments for a maximum   *)
(* transmission unit, the fragments get lost, overtake and duplicate each    *)
(* other, and whoever collects them sorts, checks and merges them.           *)
(*                                                                           *)
(* A payload is a range of positions of the original payload: start is where *)
(* a fragment's data really begins, off where its primary block says it      *)
(* does.  Encodings are reduced to their lengths.  One iteration of the loop *)
(* of Fragment is one step.                                                  *)
(***************************************************************************)
EXTENDS Integers, Sequences, FiniteSets, SequencesExt

CONSTANTS
    Length,       \* of the payload of the original bundle
    Extensions,   \* its extension blocks
    Replicated,   \* those of them with the block control flag ReplicateBlock
    PrimaryLen,   \* PrimaryLen[i, n]: a primary block's length at offset i of n
    BlocksLen,    \* BlocksLen[s]: the length of a set of extension blocks
    PayloadLen,   \* PayloadLen[m]: a payload block's length without its data, for MTU m
    MTUs,         \* the transmission units of the links
    MaxCuts,      \* bound: calls of Fragment
    MaxReceived   \* bound: fragments that arrive

ASSUME FragmentationAssumption ==
    /\ Length \in Nat /\ MaxCuts \in Nat /\ MaxReceived \in Nat
    /\ MTUs \subseteq Nat /\ PayloadLen \in [MTUs -> Nat]
    /\ Replicated \subseteq Extensions
    /\ PrimaryLen \in [(0 .. Length) \X (0 .. Length) -> Nat]
    /\ BlocksLen \in [SUBSET Extensions -> Nat]

VARIABLES
    cuts,    \* the number of calls of Fragment
    job,     \* the call that runs, {} if none
    out,     \* the bundles the calls have returned
    slice    \* the collected bundles in the order sort.Slice puts them

fragVars == <<cuts, job, out, slice>>

\* hop: how many times the payload has been cut; cut: the call that did it last.
BundleType ==
    [start : 0 .. Length, off : 0 .. Length, len : 0 .. Length, total : 0 .. Length,
     fragment : BOOLEAN, blocks : SUBSET Extensions, hop : 0 .. MaxCuts, cut : 0 .. MaxCuts]

Original == [start |-> 0, off |-> 0, len |-> Length, total |-> 0, fragment |-> FALSE,
             blocks |-> Extensions, hop |-> 0, cut |-> 0]

FragTypeOK ==
    /\ cuts \in 0 .. MaxCuts
    /\ job \subseteq [src : BundleType, mtu : MTUs, i : Nat, bs : SUBSET BundleType]
    /\ Cardinality(job) <= 1
    /\ out \subseteq BundleType
    /\ slice \in Seq(BundleType)

FragInit ==
    /\ cuts = 0
    /\ job = {}
    /\ out = {}
    /\ slice = <<>>

-----------------------------------------------------------------------------
(* Fragment *)

\* A call, for the original or by a later node for a fragment, of a bundle whose
\* flags do not forbid it.
Fragment(src, mtu) ==
    /\ job = {} /\ cuts < MaxCuts
    /\ job' = {[src |-> src, mtu |-> mtu, i |-> 0, bs |-> {}]}
    /\ cuts' = cuts + 1
    /\ UNCHANGED <<out, slice>>

\* fragmentExtensionBlocksLen: the first fragment carries every block, ...
Carried(j) == IF j.i = 0 THEN j.src.blocks ELSE j.src.blocks \cap Replicated

\* ... and the array's two bytes, the primary block and the payload block come on top.
overhead(j) ==
    2 + PrimaryLen[<<j.i, j.src.len>>] + BlocksLen[Carried(j)] + PayloadLen[j.mtu]

\* An iteration: the offset and the total length are those of the payload that is
\* cut, also if this is a fragment's.
CutFragment(j) ==
    LET size == j.mtu - overhead(j)
        end == IF j.i + size < j.src.len THEN j.i + size ELSE j.src.len
        frag == [start |-> j.src.start + j.i, off |-> j.i, len |-> end - j.i,
                 total |-> j.src.len, fragment |-> TRUE, blocks |-> Carried(j),
                 hop |-> j.src.hop + 1, cut |-> cuts]
    IN  /\ j.i < j.src.len /\ overhead(j) < j.mtu
        /\ job' = {[src |-> j.src, mtu |-> j.mtu, i |-> j.i + size, bs |-> j.bs \cup {frag}]}
        /\ UNCHANGED <<cuts, out, slice>>

\* The overhead exceeds the MTU, or the fragment is not valid because the
\* bundle's lifetime has passed: an error, and no fragments.
CutFails(j) ==
    /\ j.i < j.src.len
    /\ job' = {}
    /\ UNCHANGED <<cuts, out, slice>>

\* The loop is over; a single fragment is replaced by the bundle itself.
CutReturns(j) ==
    /\ j.i >= j.src.len
    /\ job' = {}
    /\ out' = out \cup (IF Cardinality(j.bs) = 1 THEN {j.src} ELSE j.bs)
    /\ UNCHANGED <<cuts, slice>>

-----------------------------------------------------------------------------
(* Reassembly *)

\* A bundle arrives, maybe again.  sort.Slice orders by offset and leaves equal
\* offsets in any order.
Receive(b) ==
    /\ Len(slice) < MaxReceived
    /\ \E k \in 1 .. Len(slice) + 1 :
           /\ \A i \in 1 .. k - 1 : slice[i].off <= b.off
           /\ \A i \in k .. Len(slice) : b.off <= slice[i].off
           /\ slice' = InsertAt(slice, k, b)
    /\ UNCHANGED <<cuts, job, out>>

\* lastIndex after k fragments, in prepareReassembly and mergeFragmentPayload.
End(b) == b.off + b.len
lastIndex(s, k) == IF k = 0 THEN 0 ELSE End(s[k])

\* Faulty prepareReassembly: fragments that overlap are refused.
prepareReassemblyStrict(s) ==
    /\ s # <<>>
    /\ \A k \in DOMAIN s : s[k].fragment /\ s[k].off = lastIndex(s, k - 1)
    /\ s[1].total = lastIndex(s, Len(s))

prepareReassembly(s) ==
    /\ s # <<>>
    /\ \A k \in DOMAIN s : s[k].fragment /\ s[k].off <= lastIndex(s, k - 1)
    /\ s[1].total = lastIndex(s, Len(s))

\* Faulty known: lastIndex adds up the lengths.
knownSums(s, k) ==
    FoldLeft(LAMBDA sum, b : sum + b.len, 0, SubSeq(s, 1, k - 1)) - s[k].off

\* How much of the k-th fragment is there already; a slice expression past the
\* fragment's end panics.
known(s, k) == lastIndex(s, k - 1) - s[k].off
mergePanics(s) == \E k \in DOMAIN s : known(s, k) > s[k].len

\* Faulty mergeFragmentPayload: overlaps are repeated.
mergeFragmentPayloadRepeats(s) ==
    FoldLeft(LAMBDA data, k : data \o [i \in 1 .. s[k].len |-> s[k].start + i],
             <<>>, [k \in 1 .. Len(s) |-> k])

\* The positions of the merged payload: data[k] is what k iterations append.
mergeFragmentPayload(s) ==
    LET data[k \in 0 .. Len(s)] ==
            IF k = 0 THEN <<>>
            ELSE data[k - 1] \o [i \in 1 .. s[k].len - known(s, k) |->
                                     s[k].start + known(s, k) + i]
    IN  data[Len(s)]

\* ReassembleFragments takes the primary block and the blocks of the first one.
ReassembledBlocks(s) == s[1].blocks

-----------------------------------------------------------------------------
(* Specification *)

FragNext ==
    \/ \E src \in {Original} \cup out, mtu \in MTUs : Fragment(src, mtu)
    \/ \E j \in job : CutFragment(j) \/ CutFails(j) \/ CutReturns(j)
    \/ \E b \in out : Receive(b)

FragSpec == FragInit /\ [][FragNext]_fragVars

-----------------------------------------------------------------------------
(* Properties *)

\* The collected fragments were all cut from the original, ...
FirstHand == \A k \in DOMAIN slice : slice[k].hop = 1

\* ... by one call.
OneCut == FirstHand /\ \A k \in DOMAIN slice : slice[k].cut = slice[1].cut

\* Fragments of one call never make the merge panic, whatever is lost, repeated or
\* reordered.
OneCutMerges == OneCut /\ prepareReassembly(slice) => ~mergePanics(slice)

\* Whatever is accepted and merged is the original: all of its payload, in order
\* and once, and all of its blocks, also if fragments of several calls for
\* different links overlap.
ReassembledIsOriginal ==
    FirstHand /\ prepareReassembly(slice) /\ ~mergePanics(slice) =>
        /\ mergeFragmentPayload(slice) = [i \in 1 .. Length |-> i]
        /\ ReassembledBlocks(slice) = Extensions

\* Once all fragments of one call have arrived, duplicates or not, they are
\* accepted.
CompleteIsAccepted ==
    OneCut /\ slice # <<>> /\ {b \in out : b.cut = slice[1].cut} \subseteq ToSet(slice) =>
        prepareReassembly(slice)

-----------------------------------------------------------------------------
(* The inductive invariant behind the safety properties *)

\* Fragments that tile the first n bytes of a payload: none is empty, no two
\* overlap, each begins at 0 or where another one ends, and one ends at n.
Tiles(fs, n) ==
    /\ \A f \in fs : f.len > 0 /\ End(f) <= n
    /\ \A f, g \in fs : f = g \/ End(f) <= g.off \/ End(g) <= f.off
    /\ \A f \in fs : f.off = 0 \/ \E g \in fs : End(g) = f.off
    /\ n > 0 => \E f \in fs : End(f) = n

\* A bundle is the original or a fragment; one cut from the original says where
\* its data begin, and the first of them carries every block.
BundleInv(b) ==
    /\ b.start + b.len <= Length
    /\ b.hop <= b.cut /\ b.cut <= cuts
    /\ b.hop = 0 => b = Original
    /\ b.hop > 0 => b.fragment
    /\ b.hop = 1 => /\ b.start = b.off /\ b.total = Length
                    /\ b.off = 0 => b.blocks = Extensions

\* The call that runs has tiled what it has read of its payload, under a number
\* that no bundle returned so far has.
JobInv(j) ==
    /\ j.src \in {Original} \cup out
    /\ \A b \in {j.src} \cup out : b.cut < cuts
    /\ \A f \in j.bs : BundleInv(f) /\ f.cut = cuts /\ f.hop = j.src.hop + 1
    /\ Tiles(j.bs, IF j.i < j.src.len THEN j.i ELSE j.src.len)

\* The fragments of a call for the original, once returned, tile its payload.
CutInv(b) ==
    LET family == {f \in out : f.cut = b.cut}
    IN  b.hop = 1 => Tiles(family, Length) /\ \A f \in family : f.hop = 1

SliceInv ==
    /\ \A k \in DOMAIN slice : slice[k] \in out
    /\ \A k, l \in DOMAIN slice : k <= l => slice[k].off <= slice[l].off

FragInv ==
    /\ FragTypeOK
    /\ \A j \in job : JobInv(j)
    /\ \A b \in out : BundleInv(b) /\ CutInv(b)
    /\ SliceInv
=============================================================================
