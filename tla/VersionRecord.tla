----------------------------- MODULE VersionRecord -----------------------------
(***************************************************************************)
(* What LibraryVersion promises a reader of the library and the owner of   *)
(* the originals: each original is in one place and moves between its      *)
(* arrival, a run's hands and one version; a version appears in one step,  *)
(* after its source record and with its original; nothing disappears.      *)
(***************************************************************************)
CONSTANTS
    Items, Versions,
    ItemOf,      \* the item a version is of
    Takes        \* the versions that take their item's original

VARIABLES
    described,   \* items whose source record is there
    published,   \* versions in the record
    lifted,      \* versions a run holds the original for
    homed        \* versions that hold the original

vars == <<described, published, lifted, homed>>

\* Nobody holds the item's original: it is where it arrived.
AtArrival(i) == \A v \in lifted \cup homed : ItemOf[v] # i

Init ==
    /\ described = {} /\ published = {}
    /\ lifted = {} /\ homed = {}

Describe(i) ==
    /\ i \notin described
    /\ described' = described \cup {i}
    /\ UNCHANGED <<published, lifted, homed>>

Lift(v) ==
    /\ v \in Takes \ published /\ AtArrival(ItemOf[v])
    /\ lifted' = lifted \cup {v}
    /\ UNCHANGED <<described, published, homed>>

PutBack(v) ==
    /\ v \in lifted
    /\ lifted' = lifted \ {v}
    /\ UNCHANGED <<described, published, homed>>

Publish(v) ==
    /\ v \notin published /\ ItemOf[v] \in described
    /\ v \in Takes => v \in lifted
    /\ published' = published \cup {v}
    /\ homed' = homed \cup (Takes \cap {v})
    /\ lifted' = lifted \ {v}
    /\ UNCHANGED described

Next ==
    \/ \E i \in Items : Describe(i)
    \/ \E v \in Versions : Lift(v) \/ PutBack(v) \/ Publish(v)

Spec == Init /\ [][Next]_vars
=============================================================================
