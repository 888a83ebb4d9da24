---------------------------- MODULE AddressSpace ----------------------------
(***************************************************************************)
(* What a page-table builder promises its caller: a dictionary from page   *)
(* addresses to leaf descriptors.  A map call that succeeds has set the    *)
(* entry of its own address to its own leaf, one that fails has set none;  *)
(* in both cases no other entry was touched in the meantime, and running   *)
(* out of pages is the only failure.  New tables are empty.                *)
(***************************************************************************)
CONSTANTS
    Addresses,   \* the virtual pages
    Leaves,      \* leaf descriptors
    NoLeaf       \* the descriptor 0: the page is not mapped

VARIABLES
    space,       \* address -> its leaf
    pending,     \* the call under way: none or one [va, leaf]
    answer       \* the result of the last call

vars == <<pending, answer, space>>

Empty == [a \in Addresses |-> NoLeaf]

Init == space = Empty /\ pending = {} /\ answer = "none"

New == pending' = {} /\ answer' = "none" /\ space' = Empty

Begin(a, leaf) ==
    /\ pending = {}
    /\ pending' = {[va |-> a, leaf |-> leaf]} /\ answer' = "none"
    /\ UNCHANGED space

Succeed ==
    /\ pending' = {} /\ answer' = "OK"
    /\ \E q \in pending : space' = [space EXCEPT ![q.va] = q.leaf]

RunOut ==
    /\ pending # {}
    /\ pending' = {} /\ answer' = "OUT_OF_RESOURCES"
    /\ UNCHANGED space

Next ==
    \/ New \/ Succeed \/ RunOut
    \/ \E q \in pending' : /\ q.va \in Addresses /\ q.leaf \in Leaves \cup {NoLeaf}
                            /\ Begin(q.va, q.leaf)

Spec == Init /\ [][Next]_vars
=============================================================================
