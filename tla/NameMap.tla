------------------------------ MODULE NameMap ------------------------------
(***************************************************************************)
(* What the functions on directory entries promise: a directory is a map   *)
(* from names to inodes.                                                   *)
(***************************************************************************)
CONSTANTS Name, Inode, NullInodeReference

VARIABLE entries  \* the inode of each name, null for a name that is not there

Present(n) == entries[n] # NullInodeReference

Init == entries = [n \in Name |-> NullInodeReference]

Add(n, i)    == ~ Present(n) /\ entries' = [entries EXCEPT ![n] = i]
Delete(n)    == Present(n) /\ entries' = [entries EXCEPT ![n] = NullInodeReference]
Rename(n, m) == /\ Present(n) /\ ~ Present(m)
                /\ entries' = [entries EXCEPT ![m] = entries[n],
                                              ![n] = NullInodeReference]

(* No operation leaves the map as it is. *)
Next == /\ entries' # entries
        /\ \E n \in Name : \/ \E i \in Inode : Add(n, i)
                           \/ Delete(n)
                           \/ \E m \in Name : Rename(n, m)

Spec == Init /\ [][Next]_entries
=============================================================================
