----------------------------- MODULE InodePool -----------------------------
(***************************************************************************)
(* What the dealer of free inodes promises: every inode is free, in use,   *)
(* in the hands of the caller that just obtained it, or hidden; hidden     *)
(* inodes wait in a bounded queue and come out in the order they went in.  *)
(***************************************************************************)
EXTENDS Sequences, Naturals

CONSTANTS Inode,     \* inode numbers
          RootInode, \* the inode of the root directory, in use from the start
          Capacity   \* how many inodes may be hidden at a time

VARIABLES free,  \* inodes that may be allocated
          live,  \* inodes of existing files
          taken, \* inodes a caller has allocated or unqueued and not disposed of
          queue  \* the hidden inodes, oldest first

vars == <<free, live, taken, queue>>

Init == /\ free = Inode \ {RootInode}
        /\ live = {RootInode}
        /\ taken = {}
        /\ queue = <<>>

Alloc == \E in \in free : /\ free' = free \ {in}
                          /\ taken' = taken \cup {in}
                          /\ UNCHANGED <<live, queue>>

Use == \E in \in taken : /\ taken' = taken \ {in}
                         /\ live' = live \cup {in}
                         /\ UNCHANGED <<free, queue>>

Hide == \E in \in live : /\ Len(queue) < Capacity
                         /\ live' = live \ {in}
                         /\ queue' = Append(queue, in)
                         /\ UNCHANGED <<free, taken>>

Unqueue == /\ queue # <<>>
           /\ taken' = taken \cup {Head(queue)}
           /\ queue' = Tail(queue)
           /\ UNCHANGED <<free, live>>

Free == \E in \in taken : /\ taken' = taken \ {in}
                          /\ free' = free \cup {in}
                          /\ UNCHANGED <<live, queue>>

Next == Alloc \/ Use \/ Hide \/ Unqueue \/ Free

Spec == Init /\ [][Next]_vars
=============================================================================
