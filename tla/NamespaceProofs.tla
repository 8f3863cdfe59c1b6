--------------------------- MODULE NamespaceProofs ---------------------------
(***************************************************************************)
(* Proofs about the tree of names, for every number of inodes, of names,   *)
(* of links and of slots of the table of open inodes, and both versions of *)
(* soNewInode.                                                             *)
(*                                                                         *)
(* The invariant is the conjunction of what the runs check, restated place *)
(* by place: an entry of a directory is a pair of a directory and a name,  *)
(* and each call changes one or two of them.  It is inductive only as a    *)
(* whole: a file is freed with its last name because its count is right,   *)
(* the count of a directory is right because each directory has one name,  *)
(* and a call finds no directory that has lost its name because it comes   *)
(* to it by names.                                                         *)
(***************************************************************************)
EXTENDS Namespace, FiniteSetTheorems, TLAPS

Kind == {"free", "blank", "file", "dir"}

Types == /\ type \in [Inode -> Kind]
         /\ names \in [Inode -> [Name -> Inode \cup {NullInodeReference}]]
         /\ dotdot \in [Inode -> Inode \cup {NullInodeReference}]
         /\ lnkcnt \in [Inode -> Nat]
         /\ held \subseteq Inode

Named(i) == \E d \in Inode, n \in Name : names[d][n] = i

(* An inode that is in use and not lost is counted. *)
Counted(i) ==
  type[i] # "free" /\ (i = Root \/ Named(i)) =>
    lnkcnt[i] >= Links(i) /\ (i \notin over => lnkcnt[i] = Links(i))

(* A directory has one name, in the directory of its "..", and the root    *)
(* has none.                                                               *)
OneName ==
  \A d, e \in Inode, n, m \in Name :
    names[d][n] \in Dirs =>
      /\ names[d][n] # Root
      /\ dotdot[names[d][n]] = d
      /\ names[e][m] = names[d][n] => e = d /\ m = n

(* The sets of directories that their names do not leave. *)
Shut(X) == \A d \in X, n \in Name : names[d][n] \in Dirs => names[d][n] \in X

Tree ==
  \A X \in SUBSET Inode : Root \in X /\ Lost \subseteq X /\ Shut(X) => Dirs \subseteq X

IInv == /\ Types
        /\ type[Root] = "dir"
        /\ NamesReferToInodes
        /\ \A i \in Inode : Counted(i)
        /\ OneName
        /\ Tree

-----------------------------------------------------------------------------
(* The invariant says what the runs check. *)
NamedByPlaces == \A i : Named(i) <=> Places(i) # {}

LEMMA NamedHere == NamedByPlaces
<1> SUFFICES ASSUME NEW i PROVE Named(i) <=> Places(i) # {}
  BY DEF NamedByPlaces
<1>1. ASSUME NEW d \in Inode, NEW n \in Name, names[d][n] = i PROVE Places(i) # {}
  <2>1. <<d, n>> \in Inode \X Name /\ <<d, n>>[1] = d /\ <<d, n>>[2] = n
    OBVIOUS
  <2>2. <<d, n>> \in Places(i)
    BY <1>1, <2>1 DEF Places
  <2> QED
    BY <2>2
<1>2. ASSUME NEW p \in Places(i) PROVE Named(i)
  <2>1. p[1] \in Inode /\ p[2] \in Name /\ names[p[1]][p[2]] = i
    BY DEF Places
  <2> QED
    BY <2>1 DEF Named
<1> QED
  BY <1>1, <1>2 DEF Named

LEMMA LostAre ==
  Lost = {i \in Inode \ {Root} : type[i] # "free" /\ ~ Named(i)}
BY NamedHere DEF Lost, NamedByPlaces

LEMMA Shuts ==
  ASSUME NEW X \in SUBSET Inode
  PROVE  Within(X) \subseteq X <=> Shut(X)
BY DEF Within, Shut

LEMMA LinksCountedIs == IInv => LinksAreCounted
<1> SUFFICES ASSUME IInv, NEW i \in Inode \ Lost, type[i] # "free"
             PROVE  lnkcnt[i] >= Links(i) /\ (i \notin over => lnkcnt[i] = Links(i))
  BY DEF LinksAreCounted
<1>1. i = Root \/ Named(i)
  BY LostAre
<1>2. Counted(i)
  BY DEF IInv
<1> QED
  BY <1>1, <1>2 DEF Counted

LEMMA TreeIs == IInv => DirectoriesAreATree
<1> SUFFICES ASSUME IInv PROVE DirectoriesAreATree
  OBVIOUS
<1>1. ASSUME NEW i \in Dirs
      PROVE  Cardinality(Places(i)) <= (IF i = Root THEN 0 ELSE 1)
  <2>1. \A p, q \in Places(i) : p = q /\ i # Root
    BY DEF Places, IInv, OneName, Dirs
  <2>2. CASE Places(i) = {}
    BY <2>2, FS_EmptySet
  <2>3. ASSUME NEW p \in Places(i)
        PROVE  Cardinality(Places(i)) = 1 /\ i # Root
    <3>1. Places(i) = {p}
      BY <2>1
    <3> QED
      BY <2>1, <3>1, FS_Singleton
  <2> QED
    BY <2>2, <2>3
<1>2. ASSUME NEW i \in Dirs, NEW p \in Inode \X Name, p \in Places(i)
      PROVE  dotdot[i] = p[1]
  BY <1>2 DEF Places, IInv, OneName
<1>3. Dirs \subseteq Under({Root} \cup Lost)
  <2> SUFFICES ASSUME NEW X \in SUBSET Inode, {Root} \cup Lost \subseteq X, Within(X) \subseteq X
               PROVE  Dirs \subseteq X
    BY DEF Under, Dirs
  <2>1. Shut(X)
    BY Shuts
  <2> QED
    BY <2>1 DEF IInv, Tree
<1> QED
  BY <1>1, <1>2, <1>3 DEF DirectoriesAreATree

-----------------------------------------------------------------------------
(* A path goes through directories that are the root or have a name. *)
LEMMA Reachable ==
  ASSUME IInv, NEW d \in soTraversePath
  PROVE  d \in Inode /\ type[d] = "dir" /\ (d = Root \/ Named(d))
<1> DEFINE X == {j \in Inode : type[j] = "dir" /\ (j = Root \/ Named(j))}
<1>1. Root \in X
  BY RootAssumption DEF IInv
<1>2. \A Y \in SUBSET X : Within(Y) \subseteq X
  BY DEF Within, Dirs, Named
<1>3. X \in SUBSET Inode /\ {c \in X : CanOpen({c})} \in SUBSET X
  OBVIOUS
<1>4. Within({c \in X : CanOpen({c})}) \subseteq X
  BY <1>2, <1>3
<1>5. d \in Inode /\ d \in X
  <2> HIDE DEF X
  <2> QED
    BY <1>1, <1>3, <1>4 DEF soTraversePath
<1> QED
  BY <1>5

(* The sets that are counted, when they gain or lose an element. *)
LEMMA CountsFinite ==
  \A i : /\ IsFiniteSet(Places(i)) /\ Cardinality(Places(i)) \in Nat
         /\ IsFiniteSet(Subdirs(i)) /\ Cardinality(Subdirs(i)) \in Nat
<1>1. IsFiniteSet(Inode \X Name)
  BY FiniteAssumption, FS_Product
<1>2. \A i : Places(i) \subseteq Inode \X Name /\ Subdirs(i) \subseteq Name
  BY DEF Places, Subdirs
<1>3. \A i : IsFiniteSet(Places(i)) /\ IsFiniteSet(Subdirs(i))
  BY <1>1, <1>2, FiniteAssumption, FS_Subset
<1> QED
  BY <1>3, FS_CardinalityType

FinitePlaces == \A i : IsFiniteSet(Places(i)) /\ IsFiniteSet(Subdirs(i))

LEMMA FinitePlacesThere == FinitePlaces'
<1>1. FinitePlaces
  BY CountsFinite DEF FinitePlaces
<1> QED
  BY <1>1, PTL

LEMMA OneMore ==
  ASSUME NEW S, IsFiniteSet(S), NEW x, x \notin S
  PROVE  Cardinality(S \cup {x}) = Cardinality(S) + 1
BY FS_AddElement

LEMMA OneLess ==
  ASSUME NEW S, IsFiniteSet(S), NEW x \in S
  PROVE  Cardinality(S \ {x}) = Cardinality(S) - 1
BY FS_RemoveElement

(* What the counts of an inode depend on. *)
LEMMA CountedSame ==
  ASSUME NEW i \in Inode, Counted(i), type'[i] = type[i], lnkcnt'[i] = lnkcnt[i],
         Places(i)' = Places(i), Subdirs(i)' = Subdirs(i), i \in over => i \in over'
  PROVE  Counted(i)'
<1>1. Named(i)' <=> Named(i)
  <2>1. NamedByPlaces /\ NamedByPlaces'
    BY NamedHere, PTL
  <2> QED
    BY <2>1 DEF NamedByPlaces
<1>2. Links(i)' = Links(i)
  BY DEF Links
<1> QED
  BY <1>1, <1>2 DEF Counted

-----------------------------------------------------------------------------
(* What a change of one entry, or of two, does to the places of the names. *)
Puts(d, n, i) ==
  \A a \in Inode, k \in Name : names'[a][k] = IF a = d /\ k = n THEN i ELSE names[a][k]

Moved(d, n, e, m, i) ==
  \A a \in Inode, k \in Name :
    names'[a][k] = IF a = e /\ k = m THEN i
                   ELSE IF a = d /\ k = n THEN NullInodeReference ELSE names[a][k]

LEMMA PlacesPut ==
  ASSUME NEW d \in Inode, NEW n \in Name, NEW i \in Inode,
         names[d][n] = NullInodeReference, Puts(d, n, i)
  PROVE  /\ Cardinality(Places(i)') = Cardinality(Places(i)) + 1
         /\ \A j \in Inode \ {i} : Places(j)' = Places(j)
<1>1. /\ <<d, n>> \in Inode \X Name
      /\ \A p \in Inode \X Name : /\ p[1] \in Inode /\ p[2] \in Name
                                  /\ p = <<d, n>> <=> p[1] = d /\ p[2] = n
  OBVIOUS
<1>2. i # NullInodeReference /\ NullInodeReference \notin Inode
  BY RootAssumption
<1>3. Places(i)' = Places(i) \cup {<<d, n>>} /\ <<d, n>> \notin Places(i)
  BY <1>1, <1>2 DEF Places, Puts
<1>4. \A j \in Inode \ {i} : Places(j)' = Places(j)
  BY <1>1, <1>2 DEF Places, Puts
<1> QED
  BY <1>3, <1>4, CountsFinite, OneMore

LEMMA PlacesTaken ==
  ASSUME NEW d \in Inode, NEW n \in Name, NEW i \in Inode,
         names[d][n] = i, Puts(d, n, NullInodeReference)
  PROVE  /\ Cardinality(Places(i)') = Cardinality(Places(i)) - 1
         /\ Cardinality(Places(i)) >= 1
         /\ \A j \in Inode \ {i} : Places(j)' = Places(j)
<1>1. /\ <<d, n>> \in Inode \X Name
      /\ \A p \in Inode \X Name : /\ p[1] \in Inode /\ p[2] \in Name
                                  /\ p = <<d, n>> <=> p[1] = d /\ p[2] = n
  OBVIOUS
<1>2. i # NullInodeReference /\ NullInodeReference \notin Inode
  BY RootAssumption
<1>3. Places(i)' = Places(i) \ {<<d, n>>} /\ <<d, n>> \in Places(i)
  BY <1>1, <1>2 DEF Places, Puts
<1>4. \A j \in Inode \ {i} : Places(j)' = Places(j)
  BY <1>1, <1>2 DEF Places, Puts
<1>5. Cardinality(Places(i)') = Cardinality(Places(i)) - 1
  BY <1>3, CountsFinite, OneLess
<1>6. Cardinality(Places(i)') \in Nat
  <2>1. IsFiniteSet(Places(i)')
    BY <1>3, CountsFinite, FS_Subset
  <2> QED
    BY <2>1, FS_CardinalityType
<1>7. Cardinality(Places(i)) \in Nat
  BY CountsFinite
<1> QED
  BY <1>4, <1>5, <1>6, <1>7

LEMMA PlacesMoved ==
  ASSUME NEW d \in Inode, NEW n \in Name, NEW e \in Inode, NEW m \in Name, NEW i \in Inode,
         names[d][n] = i, names[e][m] = NullInodeReference, Moved(d, n, e, m, i)
  PROVE  /\ Cardinality(Places(i)') = Cardinality(Places(i))
         /\ \A j \in Inode \ {i} : Places(j)' = Places(j)
<1>1. /\ <<d, n>> \in Inode \X Name /\ <<e, m>> \in Inode \X Name
      /\ \A p \in Inode \X Name : /\ p[1] \in Inode /\ p[2] \in Name
                                  /\ p = <<d, n>> <=> p[1] = d /\ p[2] = n
                                  /\ p = <<e, m>> <=> p[1] = e /\ p[2] = m
  OBVIOUS
<1>2. i # NullInodeReference /\ NullInodeReference \notin Inode
  BY RootAssumption
<1>3. ~ (d = e /\ n = m)
  BY <1>2
<1>4. Places(i)' = (Places(i) \ {<<d, n>>}) \cup {<<e, m>>}
  BY <1>1, <1>2, <1>3 DEF Places, Moved
<1>5. <<d, n>> \in Places(i) /\ <<e, m>> \notin Places(i)
  BY <1>1, <1>2 DEF Places
<1>6. \A j \in Inode \ {i} : Places(j)' = Places(j)
  BY <1>1, <1>2 DEF Places, Moved
<1>7. IsFiniteSet(Places(i) \ {<<d, n>>}) /\ Cardinality(Places(i)) \in Nat
  BY CountsFinite, FS_Subset
<1>8. Cardinality(Places(i) \ {<<d, n>>}) = Cardinality(Places(i)) - 1
  BY <1>5, CountsFinite, OneLess
<1>9. Cardinality(Places(i)') = Cardinality(Places(i) \ {<<d, n>>}) + 1
  BY <1>4, <1>5, <1>7, OneMore
<1> QED
  BY <1>6, <1>7, <1>8, <1>9

-----------------------------------------------------------------------------
(* The steps that change no name and no count. *)
LEMMA QuietKeeps ==
  ASSUME IInv, UNCHANGED <<type, names, dotdot, lnkcnt, over>>, held' \subseteq Inode
  PROVE  IInv'
<1>1. /\ Types' /\ NamesReferToInodes' /\ OneName' /\ type'[Root] = "dir"
  BY DEF IInv, Types, NamesReferToInodes, OneName, Dirs
<1>2. \A i \in Inode : Counted(i)'
  BY DEF IInv, Counted, Named, Links, Places, Subdirs, Dirs
<1>3. Tree'
  BY DEF IInv, Tree, Lost, Places, Dirs, Shut
<1> QED
  BY <1>1, <1>2, <1>3 DEF IInv

(* The entries, in the invariant. *)
LEMMA EntryKinds ==
  ASSUME IInv
  PROVE  \A d \in Inode, n \in Name :
           /\ names[d][n] \in Inode \cup {NullInodeReference}
           /\ names[d][n] # NullInodeReference =>
                type[d] = "dir" /\ type[names[d][n]] \in {"file", "dir"}
BY DEF IInv, Types, NamesReferToInodes

(* A free inode has no name and no names. *)
LEMMA FreeUnnamed ==
  ASSUME IInv, NEW i \in Inode, type[i] \notin {"file", "dir"}
  PROVE  /\ ~ Named(i)
         /\ \A n \in Name : names[i][n] = NullInodeReference
         /\ Places(i) = {}
<1>1. i # NullInodeReference
  BY RootAssumption
<1>2. ~ Named(i) /\ \A n \in Name : names[i][n] = NullInodeReference
  BY <1>1, EntryKinds DEF Named
<1> QED
  BY <1>2, NamedHere DEF NamedByPlaces

(* A call that takes an inode and gives it no name: it is lost, and nobody *)
(* else is concerned.                                                      *)
LEMMA TakenUnnamed ==
  ASSUME IInv, NEW i \in Inode, type[i] = "free", NEW t \in Kind \ {"free"},
         type' = [type EXCEPT ![i] = t], names' = names,
         lnkcnt' \in [Inode -> Nat], \A j \in Inode \ {i} : lnkcnt'[j] = lnkcnt[j],
         dotdot' \in [Inode -> Inode \cup {NullInodeReference}],
         \A j \in Inode \ {i} : dotdot'[j] = dotdot[j],
         held' \subseteq Inode, over' = over
  PROVE  IInv'
<1>1. /\ ~ Named(i) /\ Places(i) = {} /\ i # Root
      /\ \A n \in Name : names[i][n] = NullInodeReference
  BY FreeUnnamed DEF IInv
<1>2. \A j \in Inode : type'[j] = IF j = i THEN t ELSE type[j]
  BY DEF IInv, Types
<1>3. Dirs \subseteq Dirs' /\ Dirs' \subseteq Dirs \cup {i} /\ i \notin Dirs
  BY <1>2 DEF Dirs
<1>4. \A d \in Inode, n \in Name : names[d][n] # i
  BY <1>1 DEF Named
<1>5. Types'
  BY DEF IInv, Types
<1>6. NamesReferToInodes'
  BY <1>2, <1>4, EntryKinds DEF NamesReferToInodes
<1>7. OneName'
  BY <1>3, <1>4 DEF IInv, OneName, Dirs
<1>8. ASSUME NEW j \in Inode PROVE Counted(j)'
  <2>1. CASE j = i
    <3>1. ~ Named(i)'
      BY <1>1 DEF Named
    <3> QED
      BY <1>1, <2>1, <3>1 DEF Counted
  <2>2. CASE j # i
    <3>1. Places(j)' = Places(j) /\ Subdirs(j)' = Subdirs(j)
      BY <1>3, <1>4 DEF Places, Subdirs
    <3> QED
      BY <1>2, <2>2, <3>1, CountedSame DEF IInv
  <2> QED
    BY <2>1, <2>2
<1>9. Tree'
  <2> SUFFICES ASSUME NEW X \in SUBSET Inode, Root \in X, Lost' \subseteq X, Shut(X)'
               PROVE  Dirs' \subseteq X
    BY DEF Tree
  <2>1. Lost' = Lost \cup {i}
    BY <1>1, <1>2 DEF Lost, Places
  <2>2. Shut(X)
    BY <1>3 DEF Shut
  <2> QED
    BY <1>3, <2>1, <2>2 DEF IInv, Tree
<1> QED
  BY <1>1, <1>2, <1>5, <1>6, <1>7, <1>8, <1>9 DEF IInv

(* A creation that gives the new inode its name. *)
LEMMA TakenNamed ==
  ASSUME IInv, NEW d \in soTraversePath, NEW n \in Name, NEW i \in Inode,
         type[i] = "free", names[d][n] = NullInodeReference,
         NEW t \in {"file", "dir"},
         type' = [type EXCEPT ![i] = t], names' = With(d, n, i),
         lnkcnt' = IF t = "file" THEN [lnkcnt EXCEPT ![i] = 1]
                   ELSE [lnkcnt EXCEPT ![i] = 2, ![d] = @ + 1],
         dotdot' = IF t = "file" THEN dotdot ELSE [dotdot EXCEPT ![i] = d],
         held' \subseteq Inode, over' = over
  PROVE  IInv'
<1>1. /\ ~ Named(i) /\ Places(i) = {} /\ i # Root
      /\ \A k \in Name : names[i][k] = NullInodeReference
  BY FreeUnnamed DEF IInv
<1>2. d \in Inode /\ type[d] = "dir" /\ (d = Root \/ Named(d)) /\ d # i
  BY Reachable
<1>3. \A j \in Inode : type'[j] = IF j = i THEN t ELSE type[j]
  BY DEF IInv, Types
<1>4. Puts(d, n, i)
  BY <1>2 DEF With, Puts, IInv, Types
<1>5. Dirs \subseteq Dirs' /\ Dirs' \subseteq Dirs \cup {i} /\ i \notin Dirs
      /\ (i \in Dirs' <=> t = "dir") /\ NullInodeReference \notin Dirs'
  BY <1>3, RootAssumption DEF Dirs
<1>6. \A a \in Inode, k \in Name : names[a][k] # i
  BY <1>1 DEF Named
<1>7. Types'
  BY <1>2 DEF IInv, Types, With, Kind
<1>8. NamesReferToInodes'
  <2> SUFFICES ASSUME NEW a \in Inode, NEW k \in Name, names'[a][k] # NullInodeReference
               PROVE  type'[a] = "dir" /\ type'[names'[a][k]] \in {"file", "dir"}
    BY DEF NamesReferToInodes
  <2>1. CASE a = d /\ k = n
    BY <1>2, <1>3, <1>4, <2>1 DEF Puts
  <2>2. CASE ~ (a = d /\ k = n)
    <3>1. names'[a][k] = names[a][k]
      BY <1>4, <2>2 DEF Puts
    <3>2. type[a] = "dir" /\ type[names[a][k]] \in {"file", "dir"} /\ names[a][k] \in Inode
      BY <3>1, EntryKinds
    <3> QED
      BY <1>3, <3>1, <3>2
  <2> QED
    BY <2>1, <2>2
<1>9. \A j \in Inode \ {i} : dotdot'[j] = dotdot[j]
  BY DEF IInv, Types
<1>10. t = "dir" => dotdot'[i] = d
  BY DEF IInv, Types
<1>11. OneName'
  <2> SUFFICES ASSUME NEW a \in Inode, NEW b \in Inode, NEW k \in Name, NEW l \in Name,
                      names'[a][k] \in Dirs'
               PROVE  /\ names'[a][k] # Root
                      /\ dotdot'[names'[a][k]] = a
                      /\ names'[b][l] = names'[a][k] => b = a /\ l = k
    BY DEF OneName
  <2>1. CASE a = d /\ k = n
    BY <1>1, <1>4, <1>5, <1>6, <1>10, <2>1 DEF Puts
  <2>2. CASE ~ (a = d /\ k = n)
    <3>1. names'[a][k] = names[a][k] /\ names[a][k] # i /\ names[a][k] \in Dirs
      BY <1>4, <1>5, <1>6, <2>2 DEF Puts
    <3>2. names'[b][l] = names'[a][k] => names[b][l] = names[a][k]
      BY <1>4, <3>1 DEF Puts
    <3> QED
      BY <1>9, <3>1, <3>2 DEF IInv, OneName, Dirs
  <2> QED
    BY <2>1, <2>2
<1>12. /\ Cardinality(Places(i)') = Cardinality(Places(i)) + 1
       /\ \A j \in Inode \ {i} : Places(j)' = Places(j)
  BY <1>2, <1>4, PlacesPut
<1>13. Cardinality(Places(i)') = 1
  BY <1>1, <1>12, FS_EmptySet
<1>14. \A j \in Inode \ {d} : Subdirs(j)' = Subdirs(j)
  BY <1>4, <1>5, <1>6 DEF Subdirs, Puts
<1>15. Subdirs(i) = {}
  BY <1>1, <1>5 DEF Subdirs
<1>16. /\ t = "dir" => Cardinality(Subdirs(d)') = Cardinality(Subdirs(d)) + 1
       /\ t = "file" => Subdirs(d)' = Subdirs(d)
  <2>1. t = "dir" => Subdirs(d)' = Subdirs(d) \cup {n} /\ n \notin Subdirs(d)
    BY <1>2, <1>4, <1>5, <1>6 DEF Subdirs, Puts
  <2>2. t = "file" => Subdirs(d)' = Subdirs(d)
    BY <1>2, <1>4, <1>5, <1>6 DEF Subdirs, Puts
  <2> QED
    BY <2>1, <2>2, CountsFinite, OneMore
<1>17. ASSUME NEW j \in Inode PROVE Counted(j)'
  <2>1. CASE j = i
    <3>1. lnkcnt'[i] = IF t = "file" THEN 1 ELSE 2
      BY <1>2 DEF IInv, Types
    <3>2. Links(i)' = IF t = "file" THEN 1 ELSE 2
      BY <1>2, <1>3, <1>13, <1>14, <1>15, FS_EmptySet DEF Links
    <3> QED
      BY <2>1, <3>1, <3>2 DEF Counted
  <2>2. CASE j # i /\ (j # d \/ t = "file")
    <3>1. lnkcnt'[j] = lnkcnt[j]
      BY <1>2, <2>2 DEF IInv, Types
    <3> QED
      BY <1>3, <1>12, <1>14, <1>16, <2>2, <3>1, CountedSame DEF IInv
  <2>3. CASE j = d /\ t = "dir"
    <3>1. lnkcnt'[d] = lnkcnt[d] + 1 /\ lnkcnt[d] \in Nat
      BY <1>2, <2>3 DEF IInv, Types
    <3>2. Links(d)' = Links(d) + 1 /\ Links(d) \in Nat
      BY <1>2, <1>3, <1>16, <2>3, CountsFinite DEF Links
    <3>3. lnkcnt[d] >= Links(d) /\ (d \notin over => lnkcnt[d] = Links(d))
      BY <1>2 DEF IInv, Counted
    <3>4. lnkcnt'[d] >= Links(d)' /\ (d \notin over => lnkcnt'[d] = Links(d)')
      BY <3>1, <3>2, <3>3
    <3> QED
      BY <2>3, <3>4 DEF Counted
  <2> QED
    BY <2>1, <2>2, <2>3
<1>18. Tree'
  <2> SUFFICES ASSUME NEW X \in SUBSET Inode, Root \in X, Lost' \subseteq X, Shut(X)'
               PROVE  Dirs' \subseteq X
    BY DEF Tree
  <2>1. Lost \subseteq Lost'
    BY <1>1, <1>3, <1>12 DEF Lost
  <2>2. Shut(X)
    BY <1>4, <1>5, RootAssumption DEF Shut, Puts
  <2>3. Dirs \subseteq X
    BY <2>1, <2>2 DEF IInv, Tree
  <2>4. t = "dir" => i \in X
    <3>1. d \in X
      BY <1>2, <2>3 DEF Dirs
    <3>2. names'[d][n] = i
      BY <1>2, <1>4 DEF Puts
    <3> QED
      BY <1>5, <3>1, <3>2 DEF Shut
  <2> QED
    BY <1>5, <2>3, <2>4
<1> QED
  BY <1>1, <1>3, <1>7, <1>8, <1>11, <1>17, <1>18 DEF IInv

LEMMA LinkKeeps ==
  ASSUME IInv, NEW d \in Inode, NEW n \in Name, NEW e \in Inode, NEW m \in Name,
         NEW full \in BOOLEAN, Link(d, n, e, m, full)
  PROVE  IInv'
<1>0. PICK i : i = names[d][n]
  OBVIOUS
<1>1. /\ i # NullInodeReference /\ type[i] = "file" /\ names[e][m] = NullInodeReference
      /\ e \in soTraversePath
      /\ names' = With(e, m, i) /\ lnkcnt' = [lnkcnt EXCEPT ![i] = @ + 1]
      /\ UNCHANGED <<type, dotdot, held, over>>
  BY <1>0 DEF Link
<1>2. i \in Inode
  BY <1>0, <1>1, EntryKinds
<1>3. names[d][n] = i
  BY <1>0
<1>4. type[e] = "dir" /\ e # i
  BY <1>1, Reachable
<1>5. Puts(e, m, i)
  BY <1>1 DEF With, Puts, IInv, Types
<1>6. Dirs' = Dirs /\ i \notin Dirs /\ i # Root
  BY <1>1 DEF Dirs, IInv
<1>7. Types'
  BY <1>1, <1>2 DEF IInv, Types, With
<1>8. NamesReferToInodes'
  BY <1>1, <1>4, <1>5, EntryKinds DEF NamesReferToInodes, Puts
<1>9. OneName'
  BY <1>1, <1>5, <1>6 DEF IInv, OneName, Puts
<1>10. /\ Cardinality(Places(i)') = Cardinality(Places(i)) + 1
       /\ \A j \in Inode \ {i} : Places(j)' = Places(j)
  BY <1>1, <1>2, <1>5, PlacesPut
<1>11. \A j \in Inode : Subdirs(j)' = Subdirs(j)
  <2>1. NullInodeReference \notin Dirs
    BY RootAssumption DEF Dirs
  <2> QED
    BY <1>1, <1>5, <1>6, <2>1 DEF Subdirs, Puts
<1>12. ASSUME NEW j \in Inode PROVE Counted(j)'
  <2>1. CASE j # i
    <3>1. lnkcnt'[j] = lnkcnt[j]
      BY <1>1, <1>2, <2>1 DEF IInv, Types
    <3> QED
      BY <1>1, <1>10, <1>11, <2>1, <3>1, CountedSame DEF IInv
  <2>2. CASE j = i
    <3>1. lnkcnt'[i] = lnkcnt[i] + 1 /\ lnkcnt[i] \in Nat
      BY <1>1, <1>2 DEF IInv, Types
    <3>2. Links(i)' = Links(i) + 1 /\ Links(i) \in Nat
      BY <1>1, <1>10, CountsFinite DEF Links
    <3>3. lnkcnt[i] >= Links(i) /\ (i \notin over => lnkcnt[i] = Links(i))
      BY <1>1, <1>2, <1>3 DEF IInv, Counted, Named
    <3>4. lnkcnt'[i] >= Links(i)' /\ (i \notin over' => lnkcnt'[i] = Links(i)')
      BY <1>1, <3>1, <3>2, <3>3
    <3> QED
      BY <2>2, <3>4 DEF Counted
  <2> QED
    BY <2>1, <2>2
<1>13. Tree'
  <2> SUFFICES ASSUME NEW X \in SUBSET Inode, Root \in X, Lost' \subseteq X, Shut(X)'
               PROVE  Dirs' \subseteq X
    BY DEF Tree
  <2>1. Lost \subseteq Lost'
    <3>1. \A j \in Lost : j # i
      BY <1>2, <1>3, LostAre DEF Named
    <3> QED
      BY <1>1, <1>10, <3>1 DEF Lost
  <2>2. Shut(X)
    <3>1. NullInodeReference \notin Dirs
      BY RootAssumption DEF Dirs
    <3> QED
      BY <1>1, <1>5, <1>6, <3>1 DEF Shut, Puts
  <2> QED
    BY <1>6, <2>1, <2>2 DEF IInv, Tree
<1> QED
  BY <1>1, <1>7, <1>8, <1>9, <1>12, <1>13 DEF IInv

LEMMA UnlinkKeeps ==
  ASSUME IInv, NEW d \in Inode, NEW n \in Name, Unlink(d, n)
  PROVE  IInv'
<1>0. PICK i : i = names[d][n]
  OBVIOUS
<1>1. /\ i # NullInodeReference /\ type[i] = "file"
      /\ names' = Without(d, n)
      /\ lnkcnt[i] # 0 =>
           /\ lnkcnt' = [lnkcnt EXCEPT ![i] = @ - 1]
           /\ type' = IF lnkcnt[i] = 1 THEN [type EXCEPT ![i] = "free"] ELSE type
           /\ over' = IF lnkcnt[i] = 1 THEN over \ {i} ELSE over
      /\ UNCHANGED <<dotdot, held>>
  BY <1>0 DEF Unlink, UnlinkRemoves, Freed
<1>2. i \in Inode
  BY <1>0, <1>1, EntryKinds
<1>3. names[d][n] = i
  BY <1>0
<1>4. Puts(d, n, NullInodeReference)
  BY <1>1 DEF Without, Puts, IInv, Types
<1>5. /\ Cardinality(Places(i)') = Cardinality(Places(i)) - 1
      /\ Cardinality(Places(i)) >= 1 /\ Cardinality(Places(i)) \in Nat
      /\ \A j \in Inode \ {i} : Places(j)' = Places(j)
  BY <1>2, <1>3, <1>4, PlacesTaken, CountsFinite
<1>6. /\ lnkcnt[i] \in Nat /\ lnkcnt[i] >= Cardinality(Places(i))
      /\ i \notin over => lnkcnt[i] = Cardinality(Places(i))
  BY <1>1, <1>2, <1>3 DEF IInv, Types, Counted, Named, Links
<1>7. lnkcnt[i] # 0
  BY <1>5, <1>6
<1>8. \A j \in Inode : /\ j # i => type'[j] = type[j]
                       /\ type'[i] = IF lnkcnt[i] = 1 THEN "free" ELSE "file"
  BY <1>1, <1>2, <1>7 DEF IInv, Types
<1>9. Dirs' = Dirs /\ i \notin Dirs /\ i # Root /\ NullInodeReference \notin Dirs
  BY <1>1, <1>2, <1>8, RootAssumption DEF Dirs, IInv
<1>10. Types'
  <2>1. type' \in [Inode -> Kind]
    BY <1>1, <1>7 DEF IInv, Types, Kind
  <2>2. names' \in [Inode -> [Name -> Inode \cup {NullInodeReference}]]
    BY <1>1 DEF IInv, Types, Without
  <2>3. lnkcnt[i] - 1 \in Nat
    BY <1>6, <1>7
  <2>4. lnkcnt' \in [Inode -> Nat]
    BY <1>1, <1>7, <2>3 DEF IInv, Types
  <2> QED
    BY <1>1, <2>1, <2>2, <2>4 DEF IInv, Types
<1>11. lnkcnt[i] = 1 => \A a \in Inode, k \in Name : names'[a][k] # i
  <2> SUFFICES ASSUME lnkcnt[i] = 1 PROVE ~ Named(i)'
    BY DEF Named
  <2>1. Cardinality(Places(i)') = 0
    BY <1>5, <1>6
  <2>2. IsFiniteSet(Places(i)')
    BY FinitePlacesThere DEF FinitePlaces
  <2>3. Places(i)' = {}
    BY <2>1, <2>2, FS_EmptySet
  <2>4. NamedByPlaces'
    BY NamedHere, PTL
  <2> QED
    BY <2>3, <2>4 DEF NamedByPlaces
<1>12. NamesReferToInodes'
  <2> SUFFICES ASSUME NEW a \in Inode, NEW k \in Name, names'[a][k] # NullInodeReference
               PROVE  type'[a] = "dir" /\ type'[names'[a][k]] \in {"file", "dir"}
    BY DEF NamesReferToInodes
  <2>1. names'[a][k] = names[a][k]
    BY <1>4 DEF Puts
  <2>2. type[a] = "dir" /\ type[names[a][k]] \in {"file", "dir"} /\ names[a][k] \in Inode
    BY <2>1, EntryKinds
  <2>3. a # i
    BY <1>1, <2>2
  <2>4. names[a][k] = i => lnkcnt[i] # 1
    BY <1>11, <2>1
  <2> QED
    BY <1>8, <2>1, <2>2, <2>3, <2>4
<1>13. OneName'
  BY <1>1, <1>4, <1>9 DEF IInv, OneName, Puts
<1>14. \A j \in Inode : Subdirs(j)' = Subdirs(j)
  BY <1>3, <1>4, <1>9 DEF Subdirs, Puts
<1>15. ASSUME NEW j \in Inode PROVE Counted(j)'
  <2>1. CASE j # i
    <3>1. lnkcnt'[j] = lnkcnt[j] /\ (j \in over => j \in over')
      BY <1>1, <1>2, <1>7, <2>1 DEF IInv, Types
    <3> QED
      BY <1>5, <1>8, <1>14, <2>1, <3>1, CountedSame DEF IInv
  <2>2. CASE j = i
    <3>1. CASE lnkcnt[i] = 1
      BY <1>8, <2>2, <3>1 DEF Counted
    <3>2. CASE lnkcnt[i] # 1
      <4>1. lnkcnt'[i] = lnkcnt[i] - 1 /\ over' = over
        BY <1>1, <1>2, <1>7, <3>2 DEF IInv, Types
      <4>2. Links(i)' = Cardinality(Places(i)) - 1
        BY <1>5, <1>8, <3>2 DEF Links
      <4>3. lnkcnt'[i] >= Links(i)' /\ (i \notin over' => lnkcnt'[i] = Links(i)')
        BY <1>5, <1>6, <4>1, <4>2
      <4> QED
        BY <2>2, <4>3 DEF Counted
    <3> QED
      BY <3>1, <3>2
  <2> QED
    BY <2>1, <2>2
<1>16. Tree'
  <2> SUFFICES ASSUME NEW X \in SUBSET Inode, Root \in X, Lost' \subseteq X, Shut(X)'
               PROVE  Dirs' \subseteq X
    BY DEF Tree
  <2>1. Lost \subseteq Lost'
    <3>1. \A j \in Lost : j # i
      BY <1>2, <1>3, LostAre DEF Named
    <3> QED
      BY <1>5, <1>8, <3>1 DEF Lost
  <2>2. Shut(X)
    BY <1>3, <1>4, <1>9 DEF Shut, Puts
  <2> QED
    BY <1>9, <2>1, <2>2 DEF IInv, Tree
<1>17. type'[Root] = "dir"
  BY <1>8, <1>9, RootAssumption DEF IInv
<1> QED
  BY <1>10, <1>12, <1>13, <1>15, <1>16, <1>17 DEF IInv

LEMMA RmdirKeeps ==
  ASSUME IInv, NEW d \in Inode, NEW n \in Name, Rmdir(d, n)
  PROVE  IInv'
<1>0. PICK i : i = names[d][n]
  OBVIOUS
<1>1. /\ i # NullInodeReference /\ type[i] = "dir" /\ d \in soTraversePath
      /\ names[i] = NoNames
      /\ names' = Without(d, n) /\ held' = held
      /\ ~ RmdirStops(d, i) =>
           /\ lnkcnt' = [lnkcnt EXCEPT ![d] = @ - 1, ![i] = 0]
           /\ dotdot' = [dotdot EXCEPT ![i] = NullInodeReference]
           /\ type' = [type EXCEPT ![i] = "free"]
           /\ over' = over \ {i}
  BY <1>0 DEF Rmdir, Freed
<1>2. i \in Inode /\ i \in Dirs
  BY <1>0, <1>1, EntryKinds DEF Dirs
<1>3. names[d][n] = i
  BY <1>0
<1>4. d \in Inode /\ type[d] = "dir" /\ (d = Root \/ Named(d))
  BY <1>1, Reachable
<1>5. d # i /\ \A k \in Name : names[i][k] = NullInodeReference
  BY <1>1, <1>3 DEF NoNames
<1>6. /\ i # Root
      /\ \A a \in Inode, k \in Name : names[a][k] = i => a = d /\ k = n
  BY <1>2, <1>3 DEF IInv, OneName
<1>7. /\ lnkcnt[d] \in Nat /\ lnkcnt[i] \in Nat
      /\ lnkcnt[d] >= Links(d) /\ (d \notin over => lnkcnt[d] = Links(d))
      /\ lnkcnt[i] >= Links(i)
      /\ Links(d) \in Nat /\ Links(d) >= 2 /\ Links(i) >= 2 /\ Links(i) \in Nat
  <2>1. /\ lnkcnt[d] >= Links(d) /\ (d \notin over => lnkcnt[d] = Links(d))
        /\ lnkcnt[i] >= Links(i)
    BY <1>1, <1>2, <1>3, <1>4 DEF IInv, Counted, Named
  <2>2. Links(d) = 2 + Cardinality(Subdirs(d)) /\ Links(i) = 2 + Cardinality(Subdirs(i))
    BY <1>1, <1>4 DEF Links
  <2>3. lnkcnt[d] \in Nat /\ lnkcnt[i] \in Nat
    BY <1>2, <1>4 DEF IInv, Types
  <2> QED
    BY <2>1, <2>2, <2>3, CountsFinite
<1>8. ~ RmdirStops(d, i)
  BY <1>7 DEF RmdirStops
<1>9. /\ \A j \in Inode \ {i} : type'[j] = type[j] /\ dotdot'[j] = dotdot[j]
      /\ \A j \in Inode \ {i, d} : lnkcnt'[j] = lnkcnt[j]
      /\ type'[i] = "free" /\ lnkcnt'[d] = lnkcnt[d] - 1
  BY <1>1, <1>2, <1>4, <1>5, <1>8 DEF IInv, Types
<1>10. Puts(d, n, NullInodeReference)
  BY <1>1 DEF Without, Puts, IInv, Types
<1>11. \A a \in Inode, k \in Name :
         names'[a][k] # NullInodeReference => names'[a][k] = names[a][k] /\ names[a][k] # i
  BY <1>2, <1>6, <1>10, RootAssumption DEF Puts
<1>12. Dirs' = Dirs \ {i} /\ NullInodeReference \notin Dirs
  BY <1>2, <1>9, RootAssumption DEF Dirs
<1>13. Types'
  <2>1. type' \in [Inode -> Kind] /\ dotdot' \in [Inode -> Inode \cup {NullInodeReference}]
    BY <1>1, <1>8 DEF IInv, Types, Kind
  <2>2. names' \in [Inode -> [Name -> Inode \cup {NullInodeReference}]]
    BY <1>1 DEF IInv, Types, Without
  <2>3. lnkcnt[d] - 1 \in Nat
    BY <1>7
  <2>4. lnkcnt' \in [Inode -> Nat]
    BY <1>1, <1>8, <2>3 DEF IInv, Types
  <2> QED
    BY <1>1, <2>1, <2>2, <2>4 DEF IInv, Types
<1>14. NamesReferToInodes'
  <2> SUFFICES ASSUME NEW a \in Inode, NEW k \in Name, names'[a][k] # NullInodeReference
               PROVE  type'[a] = "dir" /\ type'[names'[a][k]] \in {"file", "dir"}
    BY DEF NamesReferToInodes
  <2>1. names'[a][k] = names[a][k] /\ names[a][k] # i
    BY <1>11
  <2>2. type[a] = "dir" /\ type[names[a][k]] \in {"file", "dir"} /\ names[a][k] \in Inode
    BY <2>1, EntryKinds
  <2>3. a # i
    BY <1>5, <2>1
  <2> QED
    BY <1>9, <2>1, <2>2, <2>3
<1>15. OneName'
  <2> SUFFICES ASSUME NEW a \in Inode, NEW b \in Inode, NEW k \in Name, NEW l \in Name,
                      names'[a][k] \in Dirs'
               PROVE  /\ names'[a][k] # Root
                      /\ dotdot'[names'[a][k]] = a
                      /\ names'[b][l] = names'[a][k] => b = a /\ l = k
    BY DEF OneName
  <2>1. names'[a][k] = names[a][k] /\ names[a][k] # i /\ names[a][k] \in Dirs
    <3>1. names'[a][k] \in Dirs /\ names'[a][k] # NullInodeReference
      BY <1>12
    <3> QED
      BY <1>11, <3>1
  <2>2. names'[b][l] = names'[a][k] => names[b][l] = names[a][k]
    BY <1>11, <1>12, <2>1
  <2> QED
    BY <1>9, <2>1, <2>2 DEF IInv, OneName, Dirs
<1>16. \A j \in Inode \ {i} : Places(j)' = Places(j)
  BY <1>2, <1>3, <1>4, <1>10, PlacesTaken
<1>17. \A j \in Inode \ {d} : Subdirs(j)' = Subdirs(j)
  BY <1>6, <1>10, <1>12 DEF Subdirs, Puts
<1>18. Cardinality(Subdirs(d)') = Cardinality(Subdirs(d)) - 1
  <2>1. Subdirs(d)' = Subdirs(d) \ {n} /\ n \in Subdirs(d)
    BY <1>2, <1>3, <1>4, <1>6, <1>10, <1>12 DEF Subdirs, Puts
  <2> QED
    BY <2>1, CountsFinite, OneLess
<1>19. ASSUME NEW j \in Inode PROVE Counted(j)'
  <2>1. CASE j = i
    BY <1>9, <2>1 DEF Counted
  <2>2. CASE j = d
    <3>1. Links(d)' = Links(d) - 1
      BY <1>4, <1>5, <1>9, <1>18, CountsFinite DEF Links
    <3>2. d \in over' <=> d \in over
      BY <1>1, <1>5, <1>8
    <3>3. lnkcnt'[d] >= Links(d)' /\ (d \notin over' => lnkcnt'[d] = Links(d)')
      BY <1>7, <1>9, <3>1, <3>2
    <3> QED
      BY <2>2, <3>3 DEF Counted
  <2>3. CASE j # i /\ j # d
    <3>1. j \in over => j \in over'
      BY <1>1, <1>8, <2>3
    <3> QED
      BY <1>9, <1>16, <1>17, <2>3, <3>1, CountedSame DEF IInv
  <2> QED
    BY <2>1, <2>2, <2>3
<1>20. Tree'
  <2> SUFFICES ASSUME NEW X \in SUBSET Inode, Root \in X, Lost' \subseteq X, Shut(X)'
               PROVE  Dirs' \subseteq X
    BY DEF Tree
  <2> DEFINE Y == X \cup {i}
  <2>1. Lost \subseteq Y
    BY <1>9, <1>16 DEF Lost
  <2>2. Shut(Y)
    <3> SUFFICES ASSUME NEW a \in Y, NEW k \in Name, names[a][k] \in Dirs, names[a][k] # i
                 PROVE  names[a][k] \in X
      BY DEF Shut
    <3>1. a # i /\ a \in X /\ a \in Inode
      BY <1>5, <1>12
    <3>2. names'[a][k] = names[a][k]
      BY <1>3, <1>10, <3>1 DEF Puts
    <3> QED
      BY <1>12, <3>1, <3>2 DEF Shut
  <2>3. Y \in SUBSET Inode /\ Root \in Y
    BY <1>2
  <2> HIDE DEF Y
  <2>4. Dirs \subseteq Y
    BY <2>1, <2>2, <2>3 DEF IInv, Tree
  <2> QED
    BY <1>12, <2>4 DEF Y
<1>21. type'[Root] = "dir"
  BY <1>6, <1>9, RootAssumption DEF IInv
<1> QED
  BY <1>13, <1>14, <1>15, <1>19, <1>20, <1>21 DEF IInv

(* No directory is in itself: what is in it would not be in the tree. *)
LEMMA NoLoop ==
  ASSUME IInv, NEW d \in Inode, NEW n \in Name, names[d][n] \in Dirs
  PROVE  names[d][n] # d
<1> SUFFICES ASSUME names[d][n] = d PROVE FALSE
  OBVIOUS
<1> DEFINE X == Inode \ {d}
<1>1. d # Root /\ \A a \in Inode, k \in Name : names[a][k] = d => a = d
  BY DEF IInv, OneName
<1>2. Root \in X /\ Lost \subseteq X
  BY <1>1, RootAssumption, LostAre DEF Named
<1>3. Shut(X)
  BY <1>1 DEF Shut, Dirs
<1>4. Dirs \subseteq X
  <2> HIDE DEF X
  <2>1. X \in SUBSET Inode
    BY DEF X
  <2> QED
    BY <1>2, <1>3, <2>1 DEF IInv, Tree
<1> QED
  BY <1>4

(* The set under a directory has it, and is not left by its names. *)
LEMMA UnderShut ==
  ASSUME NEW i \in Inode
  PROVE  Under({i}) \in SUBSET Inode /\ i \in Under({i}) /\ Shut(Under({i}))
<1>1. Under({i}) \in SUBSET Inode /\ i \in Under({i})
  BY DEF Under
<1>2. ASSUME NEW a \in Under({i}), NEW k \in Name, names[a][k] \in Dirs
      PROVE  names[a][k] \in Under({i})
  <2>1. ASSUME NEW X \in SUBSET Inode, i \in X, Within(X) \subseteq X
        PROVE  names[a][k] \in X
    <3>1. a \in X
      BY <1>2, <2>1 DEF Under
    <3>2. Shut(X)
      BY <2>1, Shuts
    <3> QED
      BY <1>2, <3>1, <3>2 DEF Shut
  <2>2. names[a][k] \in Inode
    BY <1>2 DEF Dirs
  <2> QED
    BY <2>1, <2>2 DEF Under
<1> QED
  BY <1>1, <1>2 DEF Shut

-----------------------------------------------------------------------------
(* soRename, by what is renamed.  A file: if its new name finds no block   *)
(* its count is too high.                                                  *)
LEMMA FileRenamed ==
  ASSUME IInv, NEW d \in Inode, NEW n \in Name, NEW e \in soTraversePath, NEW m \in Name,
         NEW i, names[d][n] = i, i # NullInodeReference, type[i] = "file",
         names[e][m] = NullInodeReference,
         NEW full \in BOOLEAN,
         IF full THEN Puts(d, n, NullInodeReference) ELSE Moved(d, n, e, m, i),
         names' \in [Inode -> [Name -> Inode \cup {NullInodeReference}]],
         UNCHANGED <<type, dotdot, lnkcnt>>, held' \subseteq Inode,
         over' = IF full THEN over \cup {i} ELSE over
  PROVE  IInv'
<1>1. i \in Inode /\ i \notin Dirs /\ i # Root /\ NullInodeReference \notin Inode
  BY EntryKinds, RootAssumption DEF Dirs, IInv
<1>2. e \in Inode /\ type[e] = "dir"
  BY Reachable
<1>3. Dirs' = Dirs /\ NullInodeReference \notin Dirs
  BY <1>1 DEF Dirs
<1>4. \A a \in Inode, k \in Name :
        \/ names'[a][k] = names[a][k]
        \/ {names'[a][k], names[a][k]} \subseteq {i, NullInodeReference}
  BY DEF Puts, Moved
<1>5. /\ \A a \in Inode, k \in Name : names'[a][k] \in Dirs <=> names[a][k] \in Dirs
      /\ \A a \in Inode, k \in Name : names[a][k] \in Dirs => names'[a][k] = names[a][k]
  BY <1>1, <1>3, <1>4
<1>6. Types' /\ type'[Root] = "dir"
  BY DEF IInv, Types
<1>7. NamesReferToInodes'
  <2> SUFFICES ASSUME NEW a \in Inode, NEW k \in Name, names'[a][k] # NullInodeReference
               PROVE  type[a] = "dir" /\ type[names'[a][k]] \in {"file", "dir"}
    BY DEF NamesReferToInodes
  <2>1. CASE names'[a][k] = names[a][k]
    BY <2>1, EntryKinds
  <2>2. CASE a = e /\ k = m /\ names'[a][k] = i
    BY <1>2, <2>2
  <2> QED
    BY <2>1, <2>2 DEF Puts, Moved
<1>8. OneName'
  BY <1>3, <1>5 DEF IInv, OneName
<1>9. \A j \in Inode : Subdirs(j)' = Subdirs(j)
  BY <1>3, <1>5 DEF Subdirs
<1>10. /\ \A j \in Inode \ {i} : Places(j)' = Places(j)
       /\ Cardinality(Places(i)') = Cardinality(Places(i)) - (IF full THEN 1 ELSE 0)
       /\ Cardinality(Places(i)) \in Nat
  <2>1. CASE full
    BY <1>1, <2>1, PlacesTaken, CountsFinite
  <2>2. CASE ~ full
    BY <1>1, <1>2, <2>2, PlacesMoved, CountsFinite
  <2> QED
    BY <2>1, <2>2
<1>11. ASSUME NEW j \in Inode PROVE Counted(j)'
  <2>1. CASE j # i
    BY <1>9, <1>10, <2>1, CountedSame DEF IInv
  <2>2. CASE j = i
    <3>1. lnkcnt[i] >= Links(i) /\ (i \notin over => lnkcnt[i] = Links(i)) /\ lnkcnt[i] \in Nat
      BY <1>1 DEF IInv, Counted, Named, Types
    <3>2. Links(i)' = Links(i) - (IF full THEN 1 ELSE 0) /\ Links(i) \in Nat
      BY <1>10 DEF Links
    <3>3. lnkcnt'[i] >= Links(i)' /\ (i \notin over' => lnkcnt'[i] = Links(i)')
      BY <3>1, <3>2
    <3> QED
      BY <2>2, <3>3 DEF Counted
  <2> QED
    BY <2>1, <2>2
<1>12. Tree'
  <2> SUFFICES ASSUME NEW X \in SUBSET Inode, Root \in X, Lost' \subseteq X, Shut(X)'
               PROVE  Dirs \subseteq X
    BY <1>3 DEF Tree
  <2>1. Lost \subseteq Lost'
    <3>1. \A j \in Lost : j # i
      BY LostAre DEF Named
    <3> QED
      BY <1>10, <3>1 DEF Lost
  <2>2. Shut(X)
    BY <1>3, <1>5 DEF Shut
  <2> QED
    BY <2>1, <2>2 DEF IInv, Tree
<1> QED
  BY <1>6, <1>7, <1>8, <1>11, <1>12 DEF IInv

(* A directory whose new name finds no block is lost with what is in it.   *)
LEMMA DirLost ==
  ASSUME IInv, NEW d \in soTraversePath, NEW n \in Name, NEW e,
         NEW i, names[d][n] = i, i # NullInodeReference, type[i] = "dir",
         Puts(d, n, NullInodeReference),
         names' \in [Inode -> [Name -> Inode \cup {NullInodeReference}]],
         UNCHANGED type, held' \subseteq Inode,
         d # e => dotdot' = [dotdot EXCEPT ![i] = e] /\ lnkcnt' = [lnkcnt EXCEPT ![d] = @ - 1]
                  /\ over' = over /\ e \in Inode,
         d = e => dotdot' = dotdot /\ lnkcnt' = lnkcnt /\ over' = over \cup {d}
  PROVE  IInv'
<1>1. d \in Inode /\ type[d] = "dir" /\ (d = Root \/ Named(d))
  BY Reachable
<1>2. i \in Inode /\ i \in Dirs /\ NullInodeReference \notin Inode /\ NullInodeReference \notin Dirs
  BY <1>1, EntryKinds, RootAssumption DEF Dirs
<1>3. /\ i # Root /\ i # d
      /\ \A a \in Inode, k \in Name : names[a][k] = i => a = d /\ k = n
  BY <1>1, <1>2, NoLoop DEF IInv, OneName
<1>4. Dirs' = Dirs
  BY DEF Dirs
<1>5. \A a \in Inode, k \in Name :
         names'[a][k] # NullInodeReference => names'[a][k] = names[a][k] /\ names[a][k] # i
  BY <1>2, <1>3 DEF Puts
<1>6. /\ lnkcnt[d] \in Nat /\ Links(d) \in Nat
      /\ lnkcnt[d] >= Links(d) /\ (d \notin over => lnkcnt[d] = Links(d))
      /\ Links(d) >= 2
  <2>1. Links(d) = 2 + Cardinality(Subdirs(d))
    BY <1>1 DEF Links
  <2>2. lnkcnt[d] \in Nat
    BY <1>1 DEF IInv, Types
  <2>3. lnkcnt[d] >= Links(d) /\ (d \notin over => lnkcnt[d] = Links(d))
    BY <1>1 DEF IInv, Counted
  <2> QED
    BY <2>1, <2>2, <2>3, CountsFinite
<1>7. /\ \A j \in Inode \ {i} : dotdot'[j] = dotdot[j]
      /\ \A j \in Inode \ {d} : lnkcnt'[j] = lnkcnt[j] /\ (j \in over <=> j \in over')
      /\ lnkcnt'[d] = IF d = e THEN lnkcnt[d] ELSE lnkcnt[d] - 1
      /\ d = e => d \in over'
      /\ d # e => (d \in over <=> d \in over')
  BY <1>1, <1>2 DEF IInv, Types
<1>8. Types' /\ type'[Root] = "dir"
  <2>1. lnkcnt[d] - 1 \in Nat
    BY <1>6
  <2>2. lnkcnt' \in [Inode -> Nat]
    BY <2>1 DEF IInv, Types
  <2>3. dotdot' \in [Inode -> Inode \cup {NullInodeReference}]
    BY DEF IInv, Types
  <2> QED
    BY <2>2, <2>3 DEF IInv, Types
<1>9. NamesReferToInodes'
  BY <1>5, EntryKinds DEF NamesReferToInodes
<1>10. OneName'
  <2> SUFFICES ASSUME NEW a \in Inode, NEW b \in Inode, NEW k \in Name, NEW l \in Name,
                      names'[a][k] \in Dirs
               PROVE  /\ names'[a][k] # Root
                      /\ dotdot'[names'[a][k]] = a
                      /\ names'[b][l] = names'[a][k] => b = a /\ l = k
    BY <1>4 DEF OneName
  <2>1. names'[a][k] # NullInodeReference
    BY <1>2
  <2>2. names'[a][k] = names[a][k] /\ names[a][k] # i /\ names[a][k] \in Dirs
    BY <1>5, <2>1
  <2>3. names'[b][l] = names'[a][k] => names[b][l] = names[a][k]
    BY <1>5, <2>1, <2>2
  <2> QED
    BY <1>7, <2>2, <2>3 DEF IInv, OneName, Dirs
<1>11. \A j \in Inode \ {i} : Places(j)' = Places(j)
  BY <1>1, <1>2, PlacesTaken
<1>12. \A j \in Inode \ {d} : Subdirs(j)' = Subdirs(j)
  BY <1>4 DEF Subdirs, Puts
<1>13. Cardinality(Subdirs(d)') = Cardinality(Subdirs(d)) - 1
  <2>1. Subdirs(d)' = Subdirs(d) \ {n} /\ n \in Subdirs(d)
    BY <1>1, <1>2, <1>4 DEF Subdirs, Puts
  <2> QED
    BY <2>1, CountsFinite, OneLess
<1>14. ~ Named(i)'
  BY <1>2, <1>5 DEF Named
<1>15. ASSUME NEW j \in Inode PROVE Counted(j)'
  <2>1. CASE j = i
    BY <1>3, <1>14, <2>1 DEF Counted
  <2>2. CASE j = d
    <3>1. Links(d)' = Links(d) - 1
      BY <1>1, <1>13, CountsFinite DEF Links
    <3>2. lnkcnt'[d] >= Links(d)' /\ (d \notin over' => lnkcnt'[d] = Links(d)')
      BY <1>6, <1>7, <3>1
    <3> QED
      BY <2>2, <3>2 DEF Counted
  <2>3. CASE j # i /\ j # d
    BY <1>7, <1>11, <1>12, <2>3, CountedSame DEF IInv
  <2> QED
    BY <2>1, <2>2, <2>3
<1>16. Tree'
  <2> SUFFICES ASSUME NEW X \in SUBSET Inode, Root \in X, Lost' \subseteq X, Shut(X)'
               PROVE  Dirs \subseteq X
    BY <1>4 DEF Tree
  <2>1. Lost \subseteq Lost'
    <3>1. \A j \in Lost : j # i
      BY <1>1, LostAre DEF Named
    <3> QED
      BY <1>11, <3>1 DEF Lost
  <2>2. i \in X
    <3>1. NamedByPlaces'
      BY NamedHere, PTL
    <3>2. Places(i)' = {}
      BY <1>14, <3>1 DEF NamedByPlaces
    <3> QED
      BY <1>2, <1>3, <3>2 DEF Lost, Dirs
  <2>3. Shut(X)
    <3> SUFFICES ASSUME NEW a \in X, NEW k \in Name, names[a][k] \in Dirs, names[a][k] # i
                 PROVE  names[a][k] \in X
      BY <2>2 DEF Shut
    <3>1. names'[a][k] = names[a][k]
      BY DEF Puts
    <3> QED
      BY <1>4, <3>1 DEF Shut
  <2> QED
    BY <2>1, <2>3 DEF IInv, Tree
<1> QED
  BY <1>8, <1>9, <1>10, <1>15, <1>16 DEF IInv

(* A directory is not moved under itself, so what was under the old place  *)
(* is under the new one.                                                   *)
LEMMA DirRenamed ==
  ASSUME IInv, NEW d \in soTraversePath, NEW n \in Name,
         NEW e \in soTraversePath, NEW m \in Name,
         NEW i, names[d][n] = i, i # NullInodeReference, type[i] = "dir",
         names[e][m] = NullInodeReference, Moved(d, n, e, m, i), e \notin Under({i}),
         names' \in [Inode -> [Name -> Inode \cup {NullInodeReference}]],
         UNCHANGED <<type, over>>, held' \subseteq Inode,
         d # e => /\ dotdot' = [dotdot EXCEPT ![i] = e]
                  /\ lnkcnt' = [lnkcnt EXCEPT ![d] = @ - 1, ![e] = @ + 1],
         d = e => dotdot' = dotdot /\ lnkcnt' = lnkcnt
  PROVE  IInv'
<1>1. /\ d \in Inode /\ type[d] = "dir" /\ (d = Root \/ Named(d))
      /\ e \in Inode /\ type[e] = "dir" /\ (e = Root \/ Named(e))
  BY Reachable
<1>2. i \in Inode /\ i \in Dirs /\ NullInodeReference \notin Inode /\ NullInodeReference \notin Dirs
  BY <1>1, EntryKinds, RootAssumption DEF Dirs
<1>3. /\ i # Root /\ i # d /\ dotdot[i] = d
      /\ \A a \in Inode, k \in Name : names[a][k] = i => a = d /\ k = n
  BY <1>1, <1>2, NoLoop DEF IInv, OneName
<1>4. Under({i}) \in SUBSET Inode /\ i \in Under({i}) /\ Shut(Under({i})) /\ i # e
  BY <1>2, UnderShut
<1>5. Dirs' = Dirs
  BY DEF Dirs
<1>6. \A a \in Inode, k \in Name :
        /\ names'[a][k] = i <=> a = e /\ k = m
        /\ names'[a][k] \notin {i, NullInodeReference} => names'[a][k] = names[a][k]
  BY <1>2, <1>3 DEF Moved
<1>7. /\ \A f \in {d, e} : /\ lnkcnt[f] \in Nat /\ Links(f) \in Nat /\ Links(f) >= 2
                           /\ Links(f) = 2 + Cardinality(Subdirs(f))
                           /\ lnkcnt[f] >= Links(f) /\ (f \notin over => lnkcnt[f] = Links(f))
  <2> SUFFICES ASSUME NEW f \in {d, e}
               PROVE  /\ lnkcnt[f] \in Nat /\ Links(f) \in Nat /\ Links(f) >= 2
                      /\ Links(f) = 2 + Cardinality(Subdirs(f))
                      /\ lnkcnt[f] >= Links(f) /\ (f \notin over => lnkcnt[f] = Links(f))
    OBVIOUS
  <2>1. Links(f) = 2 + Cardinality(Subdirs(f))
    BY <1>1 DEF Links
  <2>2. lnkcnt[f] \in Nat
    BY <1>1 DEF IInv, Types
  <2>3. lnkcnt[f] >= Links(f) /\ (f \notin over => lnkcnt[f] = Links(f))
    BY <1>1 DEF IInv, Counted
  <2> QED
    BY <2>1, <2>2, <2>3, CountsFinite
<1>8. /\ \A j \in Inode \ {i} : dotdot'[j] = dotdot[j]
      /\ dotdot'[i] = e
      /\ \A j \in Inode \ {d, e} : lnkcnt'[j] = lnkcnt[j]
      /\ lnkcnt'[d] = IF d = e THEN lnkcnt[d] ELSE lnkcnt[d] - 1
      /\ lnkcnt'[e] = IF d = e THEN lnkcnt[e] ELSE lnkcnt[e] + 1
  BY <1>1, <1>2, <1>3 DEF IInv, Types
<1>9. Types' /\ type'[Root] = "dir"
  <2>1. lnkcnt[d] - 1 \in Nat
    BY <1>7
  <2>2. lnkcnt' \in [Inode -> Nat]
    <3>0. lnkcnt \in [Inode -> Nat]
      BY DEF IInv, Types
    <3>1. CASE d = e
      BY <3>0, <3>1
    <3>2. CASE d # e
      <4>1. lnkcnt[e] \in Nat /\ lnkcnt[e] + 1 \in Nat
        BY <1>1, <3>0
      <4>2. lnkcnt' = [[lnkcnt EXCEPT ![d] = lnkcnt[d] - 1] EXCEPT ![e] = lnkcnt[e] + 1]
        BY <1>1, <3>0, <3>2
      <4> QED
        BY <1>1, <2>1, <3>0, <4>1, <4>2
    <3> QED
      BY <3>1, <3>2
  <2>3. dotdot' \in [Inode -> Inode \cup {NullInodeReference}]
    BY <1>1 DEF IInv, Types
  <2> QED
    BY <2>2, <2>3 DEF IInv, Types
<1>10. NamesReferToInodes'
  <2> SUFFICES ASSUME NEW a \in Inode, NEW k \in Name, names'[a][k] # NullInodeReference
               PROVE  type[a] = "dir" /\ type[names'[a][k]] \in {"file", "dir"}
    BY DEF NamesReferToInodes
  <2>1. CASE names'[a][k] = i
    BY <1>1, <1>6, <2>1
  <2>2. CASE names'[a][k] # i
    BY <1>6, <2>2, EntryKinds
  <2> QED
    BY <2>1, <2>2
<1>11. OneName'
  <2> SUFFICES ASSUME NEW a \in Inode, NEW b \in Inode, NEW k \in Name, NEW l \in Name,
                      names'[a][k] \in Dirs
               PROVE  /\ names'[a][k] # Root
                      /\ dotdot'[names'[a][k]] = a
                      /\ names'[b][l] = names'[a][k] => b = a /\ l = k
    BY <1>5 DEF OneName
  <2>1. CASE names'[a][k] = i
    BY <1>3, <1>6, <1>8, <2>1
  <2>2. CASE names'[a][k] # i
    <3>1. names'[a][k] # NullInodeReference
      BY <1>2
    <3>2. names'[a][k] = names[a][k] /\ names[a][k] # i /\ names[a][k] \in Dirs
      BY <1>6, <2>2, <3>1
    <3>3. names'[b][l] = names'[a][k] => names[b][l] = names[a][k]
      BY <1>6, <2>2, <3>1, <3>2
    <3> QED
      BY <1>8, <3>2, <3>3 DEF IInv, OneName, Dirs
  <2> QED
    BY <2>1, <2>2
<1>12. /\ \A j \in Inode \ {i} : Places(j)' = Places(j)
       /\ Cardinality(Places(i)') = Cardinality(Places(i))
  BY <1>1, <1>2, PlacesMoved
<1>13. \A j \in Inode \ {d, e} : Subdirs(j)' = Subdirs(j)
  BY <1>5 DEF Subdirs, Moved
<1>14. /\ d # e => /\ Cardinality(Subdirs(d)') = Cardinality(Subdirs(d)) - 1
                   /\ Cardinality(Subdirs(e)') = Cardinality(Subdirs(e)) + 1
       /\ d = e => Cardinality(Subdirs(d)') = Cardinality(Subdirs(d))
  <2>1. n \in Subdirs(d) /\ m \notin Subdirs(e)
    BY <1>1, <1>2 DEF Subdirs
  <2>2. CASE d # e
    <3>1. Subdirs(d)' = Subdirs(d) \ {n}
      BY <1>1, <1>2, <1>5, <2>2 DEF Subdirs, Moved
    <3>2. Subdirs(e)' = Subdirs(e) \cup {m}
      BY <1>1, <1>2, <1>5, <2>2 DEF Subdirs, Moved
    <3>3. Cardinality(Subdirs(d)') = Cardinality(Subdirs(d)) - 1
      BY <2>1, <3>1, CountsFinite, OneLess
    <3>4. Cardinality(Subdirs(e)') = Cardinality(Subdirs(e)) + 1
      BY <2>1, <3>2, CountsFinite, OneMore
    <3> QED
      BY <2>2, <3>3, <3>4
  <2>3. CASE d = e
    <3>1. Subdirs(d)' = (Subdirs(d) \ {n}) \cup {m} /\ m \notin Subdirs(d) \ {n}
      BY <1>1, <1>2, <1>5, <2>1, <2>3 DEF Subdirs, Moved
    <3>2. IsFiniteSet(Subdirs(d) \ {n}) /\ Cardinality(Subdirs(d)) \in Nat
      BY CountsFinite, FS_Subset
    <3>3. Cardinality(Subdirs(d) \ {n}) = Cardinality(Subdirs(d)) - 1
      BY <2>1, CountsFinite, OneLess
    <3>4. Cardinality(Subdirs(d)') = Cardinality(Subdirs(d) \ {n}) + 1
      BY <3>1, <3>2, OneMore
    <3> QED
      BY <2>3, <3>2, <3>3, <3>4
  <2> QED
    BY <2>2, <2>3
<1>15. ASSUME NEW j \in Inode PROVE Counted(j)'
  <2>1. CASE j = i
    <3>1. lnkcnt'[i] = lnkcnt[i] /\ Subdirs(i)' = Subdirs(i)
      BY <1>2, <1>3, <1>4, <1>8, <1>13
    <3>2. Links(i)' = Links(i)
      BY <3>1 DEF Links
    <3>3. lnkcnt[i] >= Links(i) /\ (i \notin over => lnkcnt[i] = Links(i))
      BY <1>1, <1>2 DEF IInv, Counted, Named
    <3>4. lnkcnt'[i] >= Links(i)' /\ (i \notin over' => lnkcnt'[i] = Links(i)')
      BY <3>1, <3>2, <3>3
    <3> QED
      BY <2>1, <3>4 DEF Counted
  <2>2. CASE j \in {d, e}
    <3>1. Links(d)' = 2 + Cardinality(Subdirs(d)') /\ Links(e)' = 2 + Cardinality(Subdirs(e)')
      BY <1>1 DEF Links
    <3>2. ASSUME NEW f \in {d, e}
          PROVE  lnkcnt'[f] >= Links(f)' /\ (f \notin over' => lnkcnt'[f] = Links(f)')
      <4>1. Cardinality(Subdirs(d)) \in Nat /\ Cardinality(Subdirs(e)) \in Nat
        BY CountsFinite
      <4>2. CASE f = d
        BY <1>7, <1>8, <1>14, <3>1, <4>1, <4>2
      <4>3. CASE f = e
        BY <1>7, <1>8, <1>14, <3>1, <4>1, <4>3
      <4> QED
        BY <4>2, <4>3
    <3> QED
      BY <2>2, <3>2 DEF Counted
  <2>3. CASE j # i /\ j \notin {d, e}
    BY <1>8, <1>12, <1>13, <2>3, CountedSame DEF IInv
  <2> QED
    BY <2>1, <2>2, <2>3
<1>16. Tree'
  <2> SUFFICES ASSUME NEW X \in SUBSET Inode, Root \in X, Lost' \subseteq X, Shut(X)'
               PROVE  Dirs \subseteq X
    BY <1>5 DEF Tree
  <2>1. Lost \subseteq Lost'
    <3>1. \A j \in Lost : j # i
      BY <1>1, LostAre DEF Named
    <3> QED
      BY <1>12, <3>1 DEF Lost
  <2>2. \A a \in X, k \in Name : names[a][k] \in Dirs /\ names[a][k] # i => names[a][k] \in X
    <3> SUFFICES ASSUME NEW a \in X, NEW k \in Name, names[a][k] \in Dirs, names[a][k] # i
                 PROVE  names[a][k] \in X
      OBVIOUS
    <3>1. ~ (a = d /\ k = n) /\ ~ (a = e /\ k = m)
      BY <1>2
    <3>2. names'[a][k] = names[a][k]
      BY <3>1 DEF Moved
    <3> QED
      BY <1>5, <3>2 DEF Shut
  <2> DEFINE Y == X \cup Under({i})
  <2>3. Shut(Y)
    BY <1>4, <2>2 DEF Shut
  <2>4. Y \in SUBSET Inode /\ Root \in Y /\ Lost \subseteq Y
    BY <1>4, <2>1
  <2>5. e \in Y
    <3> HIDE DEF Y
    <3> QED
      BY <1>1, <2>3, <2>4 DEF IInv, Tree, Dirs
  <2>6. e \in X
    BY <2>5
  <2>7. i \in X
    <3>1. names'[e][m] = i
      BY <1>1, <1>6
    <3> QED
      BY <1>2, <1>5, <2>6, <3>1 DEF Shut
  <2>8. Shut(X)
    BY <2>2, <2>7 DEF Shut
  <2> QED
    BY <2>1, <2>8 DEF IInv, Tree
<1> QED
  BY <1>9, <1>10, <1>11, <1>15, <1>16 DEF IInv

-----------------------------------------------------------------------------
LEMMA RenameKeeps ==
  ASSUME IInv, NEW d \in Inode, NEW n \in Name, NEW e \in Inode, NEW m \in Name,
         NEW full \in BOOLEAN, Rename(d, n, e, m, full)
  PROVE  IInv'
<1>0. PICK i : i = names[d][n]
  OBVIOUS
<1>1. /\ i # NullInodeReference /\ names[e][m] = NullInodeReference
      /\ {d, e} \subseteq soTraversePath
      /\ e \notin Under({i} \cap Dirs)
      /\ UNCHANGED type
      /\ held'   = RenameHolds(d, e, i, full)
      /\ over'   = IF full /\ ~ Moves(d, e, i)
                   THEN over \cup {IF type[i] = "dir" THEN d ELSE i} ELSE over
      /\ names'  = RenamedNames(d, n, e, m, i, full)
      /\ dotdot' = RenamedDotdot(d, e, i)
      /\ lnkcnt' = RenamedCounts(d, e, i, full)
  BY <1>0 DEF Rename
<1>2. i \in Inode /\ type[i] \in {"file", "dir"}
  BY <1>0, <1>1, EntryKinds
<1>3. held' \subseteq Inode
  BY <1>1, <1>2 DEF RenameHolds, IInv, Types
<1>4. names' \in [Inode -> [Name -> Inode \cup {NullInodeReference}]]
  <2>1. Without(d, n) \in [Inode -> [Name -> Inode \cup {NullInodeReference}]]
    BY DEF IInv, Types, Without
  <2> QED
    BY <1>1, <1>2, <2>1 DEF RenamedNames
<1>5. full => Puts(d, n, NullInodeReference)
  BY <1>1 DEF RenamedNames, Without, Puts, IInv, Types
<1>6. ~ full => Moved(d, n, e, m, i)
  <2>1. Without(d, n) \in [Inode -> [Name -> Inode \cup {NullInodeReference}]]
    BY DEF IInv, Types, Without
  <2>2. \A a \in Inode, k \in Name :
          Without(d, n)[a][k] = IF a = d /\ k = n THEN NullInodeReference ELSE names[a][k]
    BY DEF IInv, Types, Without
  <2> QED
    BY <1>1, <2>1, <2>2 DEF RenamedNames, Moved
<1>7. CASE type[i] = "file"
  <2>1. /\ UNCHANGED <<type, dotdot, lnkcnt>>
        /\ over' = IF full THEN over \cup {i} ELSE over
    BY <1>1, <1>7 DEF RenamedDotdot, RenamedCounts, Moves
  <2> QED
    BY <1>0, <1>1, <1>3, <1>4, <1>5, <1>6, <1>7, <2>1, FileRenamed
<1>8. CASE type[i] = "dir" /\ full
  <2>1. /\ d # e => /\ dotdot' = [dotdot EXCEPT ![i] = e]
                    /\ lnkcnt' = [lnkcnt EXCEPT ![d] = @ - 1]
                    /\ over' = over /\ e \in Inode
        /\ d = e => dotdot' = dotdot /\ lnkcnt' = lnkcnt /\ over' = over \cup {d}
    BY <1>1, <1>8 DEF RenamedDotdot, RenamedCounts, Moves
  <2> QED
    BY <1>0, <1>1, <1>3, <1>4, <1>5, <1>8, <2>1, DirLost
<1>9. CASE type[i] = "dir" /\ ~ full
  <2>1. /\ d # e => /\ dotdot' = [dotdot EXCEPT ![i] = e]
                    /\ lnkcnt' = [lnkcnt EXCEPT ![d] = @ - 1, ![e] = @ + 1]
        /\ d = e => dotdot' = dotdot /\ lnkcnt' = lnkcnt
        /\ over' = over
    BY <1>1, <1>9 DEF RenamedDotdot, RenamedCounts, Moves
  <2>2. {i} \cap Dirs = {i}
    BY <1>2, <1>9 DEF Dirs
  <2>3. e \notin Under({i})
    BY <1>1, <2>2
  <2> QED
    BY <1>0, <1>1, <1>3, <1>4, <1>6, <1>9, <2>1, <2>3, DirRenamed
<1> QED
  BY <1>2, <1>7, <1>8, <1>9

-----------------------------------------------------------------------------
LEMMA InitIInv == Init => IInv
<1> SUFFICES ASSUME Init PROVE IInv
  OBVIOUS
<1> USE RootAssumption
<1>1. /\ \A j \in Inode : type[j] = IF j = Root THEN "dir" ELSE "free"
      /\ \A j \in Inode, n \in Name : names[j][n] = NullInodeReference
      /\ lnkcnt[Root] = 2
  BY DEF Init, NoNames
<1>2. Types /\ type[Root] = "dir"
  <2>1. type \in [Inode -> Kind]
    BY DEF Init, Kind
  <2>2. names \in [Inode -> [Name -> Inode \cup {NullInodeReference}]]
    BY DEF Init, NoNames
  <2>3. dotdot \in [Inode -> Inode \cup {NullInodeReference}]
    BY DEF Init
  <2>4. lnkcnt \in [Inode -> Nat]
    BY DEF Init
  <2> QED
    BY <1>1, <2>1, <2>2, <2>3, <2>4 DEF Init, Types
<1>3. NamesReferToInodes /\ OneName /\ Dirs = {Root}
  BY <1>1 DEF NamesReferToInodes, OneName, Dirs
<1>4. \A i \in Inode : Counted(i)
  <2>1. Subdirs(Root) = {}
    BY <1>1, <1>3 DEF Subdirs
  <2>2. Links(Root) = 2
    BY <1>1, <2>1, FS_EmptySet DEF Links
  <2> QED
    BY <1>1, <2>2 DEF Counted
<1>5. Tree
  BY <1>3 DEF Tree
<1> QED
  BY <1>2, <1>3, <1>4, <1>5 DEF IInv

(* A creation takes a free inode, for a name that is not there. *)
LEMMA CreatesHere ==
  ASSUME IInv, NEW d \in Inode, NEW n \in Name, NEW i \in Inode, Creates(d, n, i)
  PROVE  /\ d \in soTraversePath /\ type[i] = "free" /\ names[d][n] = NullInodeReference
         /\ NewInodeHolds(i) \subseteq Inode
BY DEF Creates, NewInodeHolds, grpNewInodeHolds, binNewInodeHolds, IInv, Types

LEMMA MknodKeeps ==
  ASSUME IInv, NEW d \in Inode, NEW n \in Name, NEW i \in Inode,
         NEW full \in BOOLEAN, Mknod(d, n, i, full)
  PROVE  IInv'
<1>1. /\ Creates(d, n, i)
      /\ held' = NewInodeHolds(i) /\ type' = [type EXCEPT ![i] = "file"]
      /\ names' = IF full THEN names ELSE With(d, n, i)
      /\ lnkcnt' = [lnkcnt EXCEPT ![i] = IF full THEN 0 ELSE 1]
      /\ dotdot' = dotdot /\ over' = over
  BY DEF Mknod
<1>2. /\ d \in soTraversePath /\ type[i] = "free" /\ names[d][n] = NullInodeReference
      /\ held' \subseteq Inode
  BY <1>1, CreatesHere
<1>3. CASE full
  <2>1. /\ lnkcnt' \in [Inode -> Nat] /\ \A j \in Inode \ {i} : lnkcnt'[j] = lnkcnt[j]
        /\ dotdot' \in [Inode -> Inode \cup {NullInodeReference}]
    BY <1>1, <1>3 DEF IInv, Types
  <2> QED
    BY <1>1, <1>2, <1>3, <2>1, TakenUnnamed DEF Kind
<1>4. CASE ~ full
  <2>1. names' = With(d, n, i) /\ lnkcnt' = [lnkcnt EXCEPT ![i] = 1]
    BY <1>1, <1>4
  <2>2. "file" \in {"file", "dir"}
    OBVIOUS
  <2> QED
    BY <1>1, <1>2, <2>1, <2>2, TakenNamed
<1> QED
  BY <1>3, <1>4

LEMMA MkdirKeeps ==
  ASSUME IInv, NEW d \in Inode, NEW n \in Name, NEW i \in Inode,
         NEW full \in BOOLEAN, Mkdir(d, n, i, full)
  PROVE  IInv'
<1>1. /\ Creates(d, n, i)
      /\ held' = NewInodeHolds(i) /\ type' = [type EXCEPT ![i] = "dir"]
      /\ dotdot' = [dotdot EXCEPT ![i] = d] \/ (full /\ dotdot' = dotdot)
      /\ names' = IF full THEN names ELSE With(d, n, i)
      /\ lnkcnt' = IF full THEN lnkcnt ELSE [lnkcnt EXCEPT ![i] = 2, ![d] = @ + 1]
      /\ over' = over
  BY DEF Mkdir
<1>2. /\ d \in soTraversePath /\ type[i] = "free" /\ names[d][n] = NullInodeReference
      /\ held' \subseteq Inode
  BY <1>1, CreatesHere
<1>3. CASE full
  <2>1. /\ lnkcnt' \in [Inode -> Nat] /\ \A j \in Inode \ {i} : lnkcnt'[j] = lnkcnt[j]
        /\ dotdot' \in [Inode -> Inode \cup {NullInodeReference}]
        /\ \A j \in Inode \ {i} : dotdot'[j] = dotdot[j]
    BY <1>1, <1>3 DEF IInv, Types
  <2> QED
    BY <1>1, <1>2, <1>3, <2>1, TakenUnnamed DEF Kind
<1>4. CASE ~ full
  <2>1. /\ names' = With(d, n, i) /\ lnkcnt' = [lnkcnt EXCEPT ![i] = 2, ![d] = @ + 1]
        /\ dotdot' = [dotdot EXCEPT ![i] = d]
    BY <1>1, <1>4
  <2>2. "dir" \in {"file", "dir"} /\ "dir" # "file"
    OBVIOUS
  <2> QED
    BY <1>1, <1>2, <2>1, <2>2, TakenNamed
<1> QED
  BY <1>3, <1>4

LEMMA CallKeeps ==
  ASSUME IInv, NEW full \in BOOLEAN, Call(full)
  PROVE  IInv'
<1>1. ASSUME NEW d \in Inode, NEW n \in Name, NEW i \in Inode, NoSlot(d, n, i)
      PROVE  IInv'
  <2>1. /\ Creates(d, n, i) /\ type' = [type EXCEPT ![i] = "blank"]
        /\ UNCHANGED <<names, dotdot, lnkcnt, held, over>>
    BY <1>1 DEF NoSlot
  <2>2. type[i] = "free"
    BY <1>1, <2>1, CreatesHere
  <2> QED
    BY <2>1, <2>2, TakenUnnamed DEF Kind, IInv, Types
<1>2. ASSUME NEW d \in Inode, NEW n \in Name, NEW e \in Inode, NEW m \in Name,
             RenameExists(d, n, e, m)
      PROVE  IInv'
  <2>0. PICK i : i = names[d][n]
    OBVIOUS
  <2>1. /\ UNCHANGED <<type, names, dotdot, lnkcnt, over>>
        /\ held' = held \cup {d, e, i} /\ i # NullInodeReference
    BY <1>2, <2>0 DEF RenameExists
  <2>2. i \in Inode
    BY <2>0, <2>1, EntryKinds
  <2> QED
    BY <2>1, <2>2, QuietKeeps DEF IInv, Types
<1> QED
  BY <1>1, <1>2, MknodKeeps, MkdirKeeps, LinkKeeps, RenameKeeps, UnlinkKeeps, RmdirKeeps
     DEF Call

LEMMA NextIInv == IInv /\ [Next]_vars => IInv'
<1> SUFFICES ASSUME IInv, [Next]_vars PROVE IInv'
  OBVIOUS
<1>1. ASSUME NEW d \in Inode, Lookup(d) PROVE IInv'
  BY <1>1, QuietKeeps DEF Lookup, IInv, Types
<1>2. CASE Remount
  BY <1>2, QuietKeeps DEF Remount
<1>3. CASE UNCHANGED vars
  BY <1>3, QuietKeeps DEF vars, IInv, Types
<1> QED
  BY <1>1, <1>2, <1>3, CallKeeps DEF Next

(* The inductive invariant holds of every state. *)
THEOREM SpecIInv == Spec => []IInv
BY InitIInv, NextIInv, PTL DEF Spec

(* No name refers to an inode that is free or was never filled in: freeing *)
(* a file whose count has come down to nothing frees no file that has a    *)
(* name.                                                                   *)
THEOREM SpecNamesReferToInodes == Spec => []NamesReferToInodes
<1>1. IInv => NamesReferToInodes
  BY DEF IInv
<1> QED
  BY <1>1, SpecIInv, PTL

(* The count of a file is the number of its names, and that of a directory *)
(* two and one for each directory in it; after a soRename that was short   *)
(* of a block it may be more, never less.                                  *)
THEOREM SpecLinksAreCounted == Spec => []LinksAreCounted
BY LinksCountedIs, SpecIInv, PTL

(* The directories are a tree at every moment, whatever soRename has       *)
(* moved and whatever failed half-way: one name each, a ".." that agrees   *)
(* with it, and no circle that nothing leads to.                           *)
THEOREM SpecDirectoriesAreATree == Spec => []DirectoriesAreATree
BY TreeIs, SpecIInv, PTL

-----------------------------------------------------------------------------
(* What can be lost: an inode stays out of Lost when its names do.         *)
LostUnnamed == Lost = {i \in Inode \ {Root} : type[i] # "free" /\ ~ Named(i)}

LEMMA LostThere == LostUnnamed'
<1>1. LostUnnamed
  BY LostAre DEF LostUnnamed
<1> QED
  BY <1>1, PTL

LEMMA LostBefore ==
  ASSUME NEW X, \A j \in Inode \ {Root} : (type'[j] # "free" /\ type[j] = "free") => Named(j)',
         \A j \in Inode \ X : (Named(j) /\ type'[j] # "free") => Named(j)'
  PROVE  Lost' \subseteq Lost \cup X
<1>1. LostUnnamed /\ LostUnnamed'
  <2>1. LostUnnamed
    BY LostAre DEF LostUnnamed
  <2> QED
    BY <2>1, LostThere
<1>2. ASSUME NEW j \in Inode \ {Root}, type'[j] # "free", ~ Named(j)'
      PROVE  j \in X \/ (type[j] # "free" /\ ~ Named(j))
  BY <1>2
<1>3. ASSUME NEW j \in Lost' PROVE j \in Lost \cup X
  <2>1. j \in Inode \ {Root} /\ type'[j] # "free" /\ ~ Named(j)'
    BY <1>1 DEF LostUnnamed
  <2> QED
    BY <1>1, <1>2, <2>1 DEF LostUnnamed
<1> QED
  BY <1>3

LEMMA AtMostOneMore ==
  ASSUME NEW S, IsFiniteSet(S), NEW x
  PROVE  /\ IsFiniteSet(S \cup {x}) /\ Cardinality(S \cup {x}) \in Nat
         /\ Cardinality(S \cup {x}) <= Cardinality(S) + 1
<1>1. Cardinality(S) \in Nat /\ IsFiniteSet(S \cup {x}) /\ Cardinality(S \cup {x}) \in Nat
  BY FS_AddElement, FS_CardinalityType
<1>2. Cardinality(S \cup {x}) = Cardinality(S) \/ Cardinality(S \cup {x}) = Cardinality(S) + 1
  BY FS_AddElement
<1> QED
  BY <1>1, <1>2

LEMMA SlotsAreFound ==
  ASSUME IInv, SlotsLeft, NEW d \in Inode, NEW i \in Inode
  PROVE  CanOpen({d, i})
<1>1. IsFiniteSet(held) /\ Cardinality(held) \in Nat
  BY FiniteAssumption, FS_Subset, FS_CardinalityType DEF IInv, Types
<1>2. PICK S : S = held \cup {d}
  OBVIOUS
<1>3. /\ IsFiniteSet(S) /\ Cardinality(S) \in Nat
      /\ Cardinality(S) <= Cardinality(held) + 1
  BY <1>1, <1>2, AtMostOneMore
<1>4. Cardinality(S \cup {i}) <= Cardinality(S) + 1 /\ Cardinality(S \cup {i}) \in Nat
  BY <1>3, AtMostOneMore
<1>5. held \cup {d, i} = S \cup {i}
  BY <1>2
<1>6. Cardinality(S \cup {i}) <= TableSize
  BY <1>1, <1>3, <1>4, SizesAssumption DEF SlotsLeft
<1> QED
  BY <1>5, <1>6 DEF CanOpen

LEMMA CreationLosesNothing ==
  ASSUME IInv, NEW d \in Inode, NEW n \in Name, NEW i \in Inode,
         Mknod(d, n, i, FALSE) \/ Mkdir(d, n, i, FALSE)
  PROVE  Lost' \subseteq Lost \cup over
<1>1. /\ names' = With(d, n, i) /\ names[d][n] = NullInodeReference
      /\ \A j \in Inode \ {i} : type'[j] = type[j]
  BY DEF Mknod, Mkdir, Creates, IInv, Types
<1>2. /\ names'[d][n] = i
      /\ \A a \in Inode, k \in Name :
           names[a][k] # NullInodeReference => names'[a][k] = names[a][k]
  BY <1>1 DEF With, IInv, Types
<1>3. \A j \in Inode : Named(j) => Named(j)'
  BY <1>2, RootAssumption DEF Named
<1>4. Named(i)'
  BY <1>2 DEF Named
<1> QED
  BY <1>1, <1>3, <1>4, LostBefore

LEMMA LinkLosesNothing ==
  ASSUME IInv, NEW d \in Inode, NEW n \in Name, NEW e \in Inode, NEW m \in Name,
         Link(d, n, e, m, FALSE)
  PROVE  Lost' \subseteq Lost \cup over
<1>0. PICK i : i = names[d][n]
  OBVIOUS
<1>1. names' = With(e, m, i) /\ names[e][m] = NullInodeReference /\ type' = type
  BY <1>0 DEF Link
<1>2. \A a \in Inode, k \in Name :
        names[a][k] # NullInodeReference => names'[a][k] = names[a][k]
  BY <1>1 DEF With, IInv, Types
<1>3. \A j \in Inode : Named(j) => Named(j)'
  BY <1>2, RootAssumption DEF Named
<1> QED
  BY <1>1, <1>3, LostBefore

LEMMA RenameLosesNothing ==
  ASSUME IInv, NEW d \in Inode, NEW n \in Name, NEW e \in Inode, NEW m \in Name,
         Rename(d, n, e, m, FALSE)
  PROVE  Lost' \subseteq Lost \cup over
<1>0. PICK i : i = names[d][n]
  OBVIOUS
<1>1. /\ names' = RenamedNames(d, n, e, m, i, FALSE)
      /\ names[e][m] = NullInodeReference /\ type' = type
  BY <1>0 DEF Rename
<1>2. /\ names'[e][m] = i
      /\ \A a \in Inode, k \in Name :
           ~ (a = d /\ k = n) /\ ~ (a = e /\ k = m) => names'[a][k] = names[a][k]
  BY <1>1 DEF RenamedNames, Without, IInv, Types
<1>3. \A j \in Inode : Named(j) => Named(j)'
  <2> SUFFICES ASSUME NEW j \in Inode, NEW a \in Inode, NEW k \in Name, names[a][k] = j
               PROVE  Named(j)'
    BY DEF Named
  <2>1. CASE a = d /\ k = n
    BY <1>0, <1>2, <2>1 DEF Named
  <2>2. CASE ~ (a = d /\ k = n)
    <3>1. ~ (a = e /\ k = m)
      BY <1>1, RootAssumption
    <3> QED
      BY <1>2, <2>2, <3>1 DEF Named
  <2> QED
    BY <2>1, <2>2
<1> QED
  BY <1>1, <1>3, LostBefore

(* soUnlink leaves a file without a name only where the count was too high *)
(* for it to be the last one.                                              *)
LEMMA UnlinkLosesNothing ==
  ASSUME IInv, NEW d \in Inode, NEW n \in Name, Unlink(d, n)
  PROVE  Lost' \subseteq Lost \cup over
<1>0. PICK i : i = names[d][n]
  OBVIOUS
<1>1. /\ i # NullInodeReference /\ type[i] = "file" /\ names' = Without(d, n)
      /\ lnkcnt[i] = 0 => type' = type
      /\ lnkcnt[i] # 0 => type' = IF lnkcnt[i] = 1 THEN [type EXCEPT ![i] = "free"] ELSE type
  BY <1>0 DEF Unlink, UnlinkRemoves, Freed
<1>2. i \in Inode
  BY <1>0, <1>1, EntryKinds
<1>3. \A j \in Inode : type'[j] # "free" => type'[j] = type[j]
  BY <1>1 DEF IInv, Types
<1>4. \A a \in Inode, k \in Name : ~ (a = d /\ k = n) => names'[a][k] = names[a][k]
  BY <1>1 DEF Without, IInv, Types
<1>5. \A j \in Inode \ {i} : Named(j) => Named(j)'
  BY <1>0, <1>4 DEF Named
<1>6. ASSUME type'[i] # "free", ~ Named(i)' PROVE i \in over
  <2>1. \A a \in Inode, k \in Name : names[a][k] = i => a = d /\ k = n
    BY <1>4, <1>6 DEF Named
  <2>2. Places(i) = {<<d, n>>}
    BY <1>0, <2>1 DEF Places
  <2>3. Links(i) = 1
    BY <1>1, <2>2, FS_Singleton DEF Links
  <2>4. Counted(i) /\ Named(i) /\ lnkcnt[i] \in Nat
    BY <1>0, <1>2 DEF IInv, Types, Named
  <2>5. lnkcnt[i] >= 1 /\ (i \notin over => lnkcnt[i] = 1)
    BY <1>1, <2>3, <2>4 DEF Counted
  <2>6. lnkcnt[i] # 1
    BY <1>1, <1>2, <1>6 DEF IInv, Types
  <2> QED
    BY <2>5, <2>6
<1> QED
  BY <1>3, <1>5, <1>6, LostBefore

(* The counts are never too low, so that no soRmdir stops half-way.        *)
LEMMA RmdirLosesNothing ==
  ASSUME IInv, NEW d \in Inode, NEW n \in Name, Rmdir(d, n)
  PROVE  Lost' \subseteq Lost \cup over
<1>0. PICK i : i = names[d][n]
  OBVIOUS
<1>1. /\ i # NullInodeReference /\ type[i] = "dir" /\ names' = Without(d, n)
      /\ d \in soTraversePath
      /\ ~ RmdirStops(d, i) => type' = [type EXCEPT ![i] = "free"]
  BY <1>0 DEF Rmdir, Freed
<1>2. i \in Inode /\ Named(i)
  BY <1>0, <1>1, EntryKinds DEF Named
<1>3. type[d] = "dir" /\ (d = Root \/ Named(d))
  BY <1>1, Reachable
<1>4. ~ RmdirStops(d, i)
  <2>1. ASSUME NEW j \in {d, i} PROVE lnkcnt[j] \in Nat /\ lnkcnt[j] >= 2
    <3>1. type[j] = "dir" /\ Counted(j) /\ lnkcnt[j] \in Nat /\ (j = Root \/ Named(j))
      BY <1>1, <1>2, <1>3 DEF IInv, Types
    <3>2. lnkcnt[j] >= 2 + Cardinality(Subdirs(j))
      BY <3>1 DEF Counted, Links
    <3> QED
      BY <3>1, <3>2, CountsFinite
  <2> QED
    BY <2>1 DEF RmdirStops
<1>5. \A j \in Inode : type'[j] = IF j = i THEN "free" ELSE type[j]
  BY <1>1, <1>4 DEF IInv, Types
<1>6. \A a \in Inode, k \in Name : ~ (a = d /\ k = n) => names'[a][k] = names[a][k]
  BY <1>1 DEF Without, IInv, Types
<1>7. \A j \in Inode \ {i} : Named(j) => Named(j)'
  BY <1>0, <1>6 DEF Named
<1> QED
  BY <1>5, <1>7, LostBefore

LEMMA CallLosesNothing ==
  ASSUME IInv, SlotsLeft, Call(FALSE)
  PROVE  Lost' \subseteq Lost \cup over
<1>1. ASSUME NEW d \in Inode, NEW n \in Name, NEW i \in Inode, NoSlot(d, n, i)
      PROVE  FALSE
  BY <1>1, SlotsAreFound DEF NoSlot
<1>2. ASSUME NEW d \in Inode, NEW n \in Name, NEW e \in Inode, NEW m \in Name,
             RenameExists(d, n, e, m)
      PROVE  Lost' \subseteq Lost \cup over
  <2>1. UNCHANGED <<type, names>>
    BY <1>2 DEF RenameExists
  <2> QED
    BY <2>1, LostBefore DEF Named
<1> QED
  BY <1>1, <1>2, CreationLosesNothing, LinkLosesNothing, RenameLosesNothing,
     UnlinkLosesNothing, RmdirLosesNothing
     DEF Call

(* A call that finds the blocks and the slots it needs leaves nothing in   *)
(* use without a name, but for what a failed soRename had left with a      *)
(* count too high.                                                         *)
THEOREM SpecNothingLost == Spec => NothingLost
<1>1. IInv /\ [Next]_vars =>
        [Lost' \subseteq Lost \cup over \/ ~ SlotsLeft \/ ~ Call(FALSE)]_vars
  BY CallLosesNothing
<1> QED
  BY <1>1, SpecIInv, PTL DEF Spec, NothingLost


-----------------------------------------------------------------------------
(* The directories as maps from names to inodes: each call does to the     *)
(* entries of a directory what one operation of the map does, or nothing.  *)
MapsStep == \A a \in Inode : NameMapStep(a)

LEMMA AddIsMapStep ==
  ASSUME IInv, NEW d \in Inode, NEW n \in Name, NEW i \in Inode,
         names[d][n] = NullInodeReference, names' = With(d, n, i)
  PROVE  MapsStep
<1> SUFFICES ASSUME NEW a \in Inode PROVE NameMapStep(a)
  BY DEF MapsStep
<1>1. ASSUME a # d PROVE names'[a] = names[a]
  BY <1>1 DEF With, IInv, Types
<1>2. ASSUME a = d PROVE NameMapStep(a)
  <2>1. names'[a] = [names[a] EXCEPT ![n] = i] /\ names'[a][n] = i
    BY <1>2 DEF With, IInv, Types
  <2>2. names'[a] # names[a]
    BY <1>2, <2>1, RootAssumption
  <2> QED
    BY <1>2, <2>1, <2>2 DEF NameMapStep, Entries!Next, Entries!Add, Entries!Present
<1> QED
  BY <1>1, <1>2 DEF NameMapStep

LEMMA DeleteIsMapStep ==
  ASSUME IInv, NEW d \in Inode, NEW n \in Name,
         names[d][n] # NullInodeReference, names' = Without(d, n)
  PROVE  MapsStep
<1> SUFFICES ASSUME NEW a \in Inode PROVE NameMapStep(a)
  BY DEF MapsStep
<1>1. ASSUME a # d PROVE names'[a] = names[a]
  BY <1>1 DEF Without, IInv, Types
<1>2. ASSUME a = d PROVE NameMapStep(a)
  <2>1. /\ names'[a] = [names[a] EXCEPT ![n] = NullInodeReference]
        /\ names'[a][n] = NullInodeReference
    BY <1>2 DEF Without, IInv, Types
  <2>2. names'[a] # names[a]
    BY <1>2, <2>1
  <2> QED
    BY <1>2, <2>1, <2>2 DEF NameMapStep, Entries!Next, Entries!Delete, Entries!Present
<1> QED
  BY <1>1, <1>2 DEF NameMapStep

(* Within one directory soRename is the map's Rename; between two it is a  *)
(* Delete in one and an Add in the other, and only the Delete when there   *)
(* is no block for the new name.                                           *)
LEMMA RenameIsMapStep ==
  ASSUME IInv, NEW d \in Inode, NEW n \in Name, NEW e \in Inode, NEW m \in Name,
         NEW full \in BOOLEAN, Rename(d, n, e, m, full)
  PROVE  MapsStep
<1>0. PICK i : i = names[d][n]
  OBVIOUS
<1>1. /\ i # NullInodeReference /\ i \in Inode /\ names[e][m] = NullInodeReference
      /\ names' = RenamedNames(d, n, e, m, i, full)
  BY <1>0 DEF Rename, IInv, Types
<1>2. CASE full
  BY <1>0, <1>1, <1>2, DeleteIsMapStep DEF RenamedNames
<1>3. CASE ~ full
  <2> SUFFICES ASSUME NEW a \in Inode PROVE NameMapStep(a)
    BY DEF MapsStep
  <2>1. names' = [Without(d, n) EXCEPT ![e][m] = i]
    BY <1>1, <1>3 DEF RenamedNames
  <2>2. Without(d, n) \in [Inode -> [Name -> Inode \cup {NullInodeReference}]]
    BY DEF Without, IInv, Types
  <2>3. CASE a # d /\ a # e
    <3>1. names'[a] = names[a]
      BY <2>1, <2>2, <2>3 DEF Without, IInv, Types
    <3> QED
      BY <3>1 DEF NameMapStep
  <2>4. CASE a = d /\ a # e
    <3>1. names'[a] = [names[a] EXCEPT ![n] = NullInodeReference]
      BY <2>1, <2>2, <2>4 DEF Without, IInv, Types
    <3>2. names'[a] # names[a]
      BY <1>0, <1>1, <2>4, <3>1 DEF IInv, Types
    <3> QED
      BY <1>0, <1>1, <2>4, <3>1, <3>2
      DEF NameMapStep, Entries!Next, Entries!Delete, Entries!Present
  <2>5. CASE a # d /\ a = e
    <3>1. names'[a] = [names[a] EXCEPT ![m] = i]
      BY <2>1, <2>2, <2>5 DEF Without, IInv, Types
    <3>2. names'[a] # names[a]
      BY <1>1, <2>5, <3>1 DEF IInv, Types
    <3> QED
      BY <1>1, <2>5, <3>1, <3>2
      DEF NameMapStep, Entries!Next, Entries!Add, Entries!Present
  <2>6. CASE a = d /\ a = e
    <3>1. m # n
      BY <1>0, <1>1, <2>6
    <3>2. Without(d, n)[a] = [names[a] EXCEPT ![n] = NullInodeReference]
      BY <2>6 DEF Without, IInv, Types
    <3>3. names'[a] = [Without(d, n)[a] EXCEPT ![m] = i]
      BY <2>1, <2>2, <2>6
    <3>4. names[a] \in [Name -> Inode \cup {NullInodeReference}]
      BY DEF IInv, Types
    <3>5. names'[a] = [names[a] EXCEPT ![m] = names[a][n], ![n] = NullInodeReference]
      BY <1>0, <2>6, <3>1, <3>2, <3>3, <3>4
    <3>6. names'[a] # names[a]
      BY <1>0, <1>1, <2>6, <3>1, <3>4, <3>5
    <3> QED
      BY <1>0, <1>1, <2>6, <3>5, <3>6
      DEF NameMapStep, Entries!Next, Entries!Rename, Entries!Present
  <2> QED
    BY <2>3, <2>4, <2>5, <2>6
<1> QED
  BY <1>2, <1>3

LEMMA NextIsMapStep ==
  ASSUME IInv, [Next]_vars
  PROVE  [MapsStep]_names
<1>1. ASSUME UNCHANGED names PROVE [MapsStep]_names
  BY <1>1
<1>2. ASSUME NEW full \in BOOLEAN, NEW d \in Inode, NEW n \in Name, NEW i \in Inode,
             NoSlot(d, n, i) \/ Mknod(d, n, i, full) \/ Mkdir(d, n, i, full)
      PROVE  [MapsStep]_names
  <2>1. names[d][n] = NullInodeReference /\ (UNCHANGED names \/ names' = With(d, n, i))
    BY <1>2 DEF NoSlot, Mknod, Mkdir, Creates
  <2> QED
    BY <1>1, <2>1, AddIsMapStep
<1>3. ASSUME NEW full \in BOOLEAN, NEW d \in Inode, NEW n \in Name,
             NEW e \in Inode, NEW m \in Name, Link(d, n, e, m, full)
      PROVE  [MapsStep]_names
  <2>1. /\ names[d][n] \in Inode /\ names[e][m] = NullInodeReference
        /\ names' = With(e, m, names[d][n])
    BY <1>3 DEF Link, IInv, Types
  <2> QED
    BY <2>1, AddIsMapStep
<1>4. ASSUME NEW full \in BOOLEAN, NEW d \in Inode, NEW n \in Name,
             NEW e \in Inode, NEW m \in Name,
             Rename(d, n, e, m, full) \/ RenameExists(d, n, e, m)
      PROVE  [MapsStep]_names
  <2>1. RenameExists(d, n, e, m) => UNCHANGED names
    BY DEF RenameExists
  <2> QED
    BY <1>1, <1>4, <2>1, RenameIsMapStep
<1>5. ASSUME NEW d \in Inode, NEW n \in Name, Unlink(d, n) \/ Rmdir(d, n)
      PROVE  [MapsStep]_names
  <2>1. names[d][n] # NullInodeReference /\ names' = Without(d, n)
    BY <1>5 DEF Unlink, Rmdir
  <2> QED
    BY <2>1, DeleteIsMapStep
<1>6. ASSUME NEW d \in Inode, Lookup(d) \/ Remount PROVE [MapsStep]_names
  BY <1>1, <1>6 DEF Lookup, Remount
<1>7. ASSUME NEW full \in BOOLEAN, Call(full) PROVE [MapsStep]_names
  BY <1>2, <1>3, <1>4, <1>5, <1>7 DEF Call
<1> QED
  BY <1>1, <1>6, <1>7, RootAssumption DEF Next, vars

(* Whatever calls are made and fail, each directory is the map from names  *)
(* to inodes that the functions on directory entries implement.            *)
THEOREM SpecDirectoriesAreNameMaps == Spec => DirectoriesAreNameMaps
<1>1. Init => NameMapInit
  BY DEF Init, NoNames, NameMapInit, Entries!Init
<1>2. IInv /\ [Next]_vars => [\A d \in Inode : NameMapStep(d)]_names
  BY NextIsMapStep DEF MapsStep
<1> QED
  BY <1>1, <1>2, SpecIInv, PTL DEF Spec, DirectoriesAreNameMaps
=============================================================================
