------------------------------ MODULE ResourceMap ------------------------------
(***************************************************************************)
(* What a bundle promises its application: a map from keys to resources    *)
(* that changes only where a call says so, and a file that gives back what *)
(* was saved.  BundleStore is shown to implement it.                       *)
(***************************************************************************)
EXTENDS FiniteSets

CONSTANTS
    Keys, Resources,    \* what the calls name
    Kept(_),            \* the part of a resource that a bundle of this kind holds
    Durable(_),         \* the part of a held resource that a file holds
    Siblings(_),        \* the keys that share stored data with a key
    Reserved            \* keys the format uses for itself

VARIABLES
    contents,   \* the resources, by key
    saved,      \* the contents that loading the file may give, if it succeeds
    loose,      \* keys whose last replacement failed half-way ...
    savedLoose  \*   ... and those when the file was saved

vars == <<contents, saved, loose, savedLoose>>

Held(map, k) == k \in DOMAIN map

\* From map to map2 only the keys in ks may differ.
ChangesOnly(map, map2, ks) ==
    /\ DOMAIN map \ ks = DOMAIN map2 \ ks
    /\ \A k \in DOMAIN map \ ks : map2[k] = map[k]

-----------------------------------------------------------------------------
Init ==
    /\ contents = [k \in {} |-> 0]
    /\ loose = {} /\ savedLoose = {}

Add(k, r) ==
    /\ ~Held(contents, k)
    /\ UNCHANGED <<loose, savedLoose>>
    /\ DOMAIN contents' = DOMAIN contents \cup {k}
    /\ contents'[k] = Kept(r)
    /\ ChangesOnly(contents, contents', {k} \cup Siblings(k))
    /\ UNCHANGED saved

\* A replacement keeps the type the resource was added with.
Replace(k, r) ==
    /\ Held(contents, k)
    /\ loose' = loose \ {k}
    /\ UNCHANGED savedLoose
    /\ DOMAIN contents' = DOMAIN contents
    /\ contents'[k] = [Kept(r) EXCEPT !.type = contents[k].type]
    /\ ChangesOnly(contents, contents', {k} \cup Siblings(k))
    /\ UNCHANGED saved

\* A replacement that fails may spoil the resource it was to replace, no other.
FailToReplace(k) ==
    /\ Held(contents, k)
    /\ loose' = loose \cup {k}
    /\ UNCHANGED savedLoose
    /\ DOMAIN contents' = DOMAIN contents
    /\ ChangesOnly(contents, contents', {k})
    /\ UNCHANGED saved

\* Saving is not seen in memory. If no resource uses a reserved key, the file
\* then gives back every resource, one whose replacement failed excepted.
Save ==
    /\ UNCHANGED loose
    /\ savedLoose' = loose
    /\ ChangesOnly(contents, contents', Reserved)
    /\ \/ \E k \in Reserved : Held(contents, k)
       \/ \E map \in saved' :
            /\ saved' = {map}
            /\ DOMAIN map = DOMAIN contents
            /\ \A k \in DOMAIN contents \ loose : map[k] = Durable(contents[k])

\* A save that fails leaves the old file, or a part of a file.
FailToSave ==
    /\ UNCHANGED <<loose, savedLoose>>
    /\ ChangesOnly(contents, contents', Reserved)
    /\ saved' \in {saved, {}}

\* A load that fails is not seen.
Load ==
    /\ loose' = savedLoose
    /\ UNCHANGED savedLoose
    /\ contents' \in saved
    /\ UNCHANGED saved

\* The application moves the bundle away.
MoveOut ==
    /\ loose' = {}
    /\ UNCHANGED savedLoose
    /\ contents' = [k \in {} |-> 0]
    /\ UNCHANGED saved

Next ==
    \/ \E k \in Keys, r \in Resources : Add(k, r) \/ Replace(k, r)
    \/ \E k \in Keys : FailToReplace(k)
    \/ Save \/ FailToSave \/ Load \/ MoveOut

Spec == Init /\ [][Next]_vars
=============================================================================
