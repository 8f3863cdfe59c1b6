----------------------------- MODULE FileStore -----------------------------
(***************************************************************************)
(* What soNewInode and soRemoveInode promise to the users of files.  A     *)
(* file removed goes to the trash with its content, which nothing touches  *)
(* until the file is lost.  The trash holds the last `Capacity' files      *)
(* removed; a file is lost, the oldest first, when one more is removed, or *)
(* when a file is created and no inode is free.                            *)
(***************************************************************************)
EXTENDS Sequences, Naturals

CONSTANTS Inode,     \* inode numbers
          RootInode, \* the root directory, never removed
          Capacity,  \* files the trash holds
          Content,   \* what may be in a file
          Empty      \* the content of a new file

VARIABLES free,    \* inodes of no file
          trash,   \* inodes of the removed files, oldest first
          content  \* content[in]: what is in the file of inode in

vars == <<free, trash, content>>

Init == /\ free = Inode \ {RootInode}
        /\ trash = <<>>
        /\ content = [in \in Inode |-> Empty]

Trashed == {trash[i] : i \in 1 .. Len(trash)}
Live    == Inode \ (free \cup Trashed)

Create == /\ \E in \in free : free' = free \ {in}
          /\ UNCHANGED <<trash, content>>

CreateFromTrash == /\ free = {} /\ trash # <<>>
                   /\ content' = [content EXCEPT ![Head(trash)] = Empty]
                   /\ trash' = Tail(trash)
                   /\ UNCHANGED free

Remove == \E in \in Live \ {RootInode} :
            /\ Len(trash) < Capacity
            /\ trash' = Append(trash, in)
            /\ UNCHANGED <<free, content>>

RemoveLosingOldest == \E in \in Live \ {RootInode} :
                        /\ Len(trash) = Capacity
                        /\ trash' = Append(Tail(trash), in)
                        /\ free' = free \cup {Head(trash)}
                        /\ content' = [content EXCEPT ![Head(trash)] = Empty]

Change == \E in \in Live, c \in Content : /\ content' = [content EXCEPT ![in] = c]
                                          /\ UNCHANGED <<free, trash>>

Next == Create \/ CreateFromTrash \/ Remove \/ RemoveLosingOldest \/ Change

Spec == Init /\ [][Next]_vars
=============================================================================
