------------------------------- MODULE StoreView -------------------------------
(***************************************************************************)
(* What the components around the bundle store can observe of it through    *)
(* GetStoreSingleton, GetBundleDescriptor, Deleted and Load: the life of a   *)
(* bundle, from its insertion over its deletion to its disappearance.       *)
(* BundleStore implements this specification; Agents uses it in place of    *)
(* the store.                                                               *)
(***************************************************************************)
CONSTANT Bundles

VARIABLES
    serving,      \* GetStoreSingleton returns the store
    view          \* per bundle: "absent", not in the map; "live", Load finds its
                  \* file; "broken", it does not and fails; "deleted", in the map,
                  \* but its descriptor is deleted and GetBundleDescriptor
                  \* returns an error

viewVars == <<serving, view>>

Views == {"absent", "live", "broken", "deleted"}

ViewInit == serving = FALSE /\ view = [b \in Bundles |-> "absent"]

\* An insertion that the end of the store overtakes still enters the map.
ViewInsert(b) ==
    /\ view[b] = "absent"
    /\ view' = [view EXCEPT ![b] = "live"]
    /\ UNCHANGED serving

ViewDelete(b) ==
    /\ serving /\ view[b] \in {"live", "broken"}
    /\ view' = [view EXCEPT ![b] = "deleted"]
    /\ UNCHANGED serving

ViewRemove(b) ==
    /\ view[b] = "deleted"
    /\ view' = [view EXCEPT ![b] = "absent"]
    /\ UNCHANGED serving

\* What a new process finds is decided by the disk.
ViewStart ==
    /\ ~serving /\ view = [b \in Bundles |-> "absent"]
    /\ serving' = TRUE
    /\ view' \in [Bundles -> {"absent", "live", "broken"}]

ViewClose ==
    /\ serving
    /\ serving' = FALSE
    /\ UNCHANGED view

ViewHalt ==
    /\ serving' = FALSE
    /\ view' = [b \in Bundles |-> "absent"]

ViewStep == \E b \in Bundles : ViewInsert(b) \/ ViewDelete(b) \/ ViewRemove(b)

ViewNext == ViewStep \/ ViewStart \/ ViewClose \/ ViewHalt

ViewSpec == ViewInit /\ [][ViewNext]_viewVars
=============================================================================
