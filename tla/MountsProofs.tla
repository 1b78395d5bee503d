---------------------------- MODULE MountsProofs ----------------------------
(***************************************************************************)
(* Proofs about the mount table, for any devices, components, frames and   *)
(* open files.  The invariant is the conjunction of what the table and the *)
(* volumes say, which needs the table's types, and of what the open files  *)
(* say; the second needs the first, because a file is counted on the       *)
(* device its path resolves to.                                            *)
(*                                                                         *)
(* That a path resolves to what a walk finds needs a second invariant on   *)
(* top of it, about the trees: a volume holds the directory of each of its *)
(* directories, and the entry that a mount point names in its own          *)
(* directory is there (TreeInv).  The rest is about paths: two paths have  *)
(* the same place on one device only if they are the same path, so a mount *)
(* hides the entry of its own point and of no other path.                  *)
(***************************************************************************)
EXTENDS Mounts, FiniteSetTheorems, SequenceTheorems, WellFoundedInduction, TLAPS

\* Lengths and prefixes: all that is used of paths.
LEMMA PathLength == \A p \in Path : Len(p) \in Nat
  BY DEF Path, SeqOf

\* What is in front of a path is no longer than it.
LEMMA WithinLength == \A p, q \in Path : IsWithin(p, q) => Len(p) <= Len(q)
  BY DEF IsWithin, IsPrefix

\* The root is in front of every path.
LEMMA RootCovers == \A p \in Path : IsWithin(Root, p)
  BY DEF IsWithin, IsPrefix, Root, Path, SeqOf
(***************************************************************************)
(* Among the mounts that match a path one has the longest point: the       *)
(* lengths they leave over are natural numbers, and one of them is least.  *)
(***************************************************************************)
LEMMA LongestExists ==
    ASSUME NEW path \in Path, NEW ms \in SUBSET [point: Path, dev: Dev], ms # {},
           \A m \in ms : IsWithin(m.point, path)
    PROVE  /\ Longest(ms) \in ms
           /\ \A o \in ms : Len(o.point) <= Len(Longest(ms).point)
<1> DEFINE rest(m) == Len(path) - Len(m.point)
<1> DEFINE T == {rest(m) : m \in ms}
<1>1. \A m \in ms : /\ m.point \in Path /\ Len(m.point) \in Nat
                     /\ Len(path) \in Nat /\ Len(m.point) <= Len(path)
  BY PathLength, WithinLength
<1>2. \A m \in ms : rest(m) \in Nat
  BY <1>1
<1>3. T \subseteq Nat /\ T # {}
  BY <1>2
<1>4. PICK x \in T : \A y \in T : ~(<<y, x>> \in OpToRel(<, Nat))
  BY <1>3, WFMin, NatLessThanWellFounded
<1>5. \A y \in T : ~(y < x)
  BY <1>3, <1>4 DEF OpToRel
<1>6. PICK m \in ms : x = rest(m)
  BY <1>4
<1>7. \A o \in ms : ~(rest(o) < rest(m))
  BY <1>5, <1>6
<1>8. \A o \in ms : Len(o.point) <= Len(m.point)
  BY <1>1, <1>6, <1>7
<1> QED BY <1>6, <1>8 DEF Longest

\* What the invariant needs to know of the types.
Types ==
    /\ table \subseteq [point: Path, dev: Dev]
    /\ files \in [File -> Dev \cup {NoDev}]
    /\ openOn \in [Dev -> Nat]

(***************************************************************************)
(* A path resolves to a mounted device (mounts.rs:45-49).                  *)
(***************************************************************************)
LEMMA ResolvesToMounted ==
    ASSUME Types, TableMatchesVolumes, NEW path \in Path
    PROVE  Resolve(table, path).dev \in vols /\ Resolve(table, path).dev \in Dev
<1> DEFINE ms == Candidates(table, path)
<1>1. ms \subseteq [point: Path, dev: Dev] /\ \A m \in ms : IsWithin(m.point, path) /\ m \in table
  BY DEF Types, Candidates
<1>2. ms # {}
  BY RootCovers DEF TableMatchesVolumes, Candidates
<1>3. Longest(ms) \in ms
  BY <1>1, <1>2, LongestExists
<1>4. Longest(ms) \in table
  BY <1>1, <1>3
<1> QED BY <1>4 DEF Resolve, Covering, Types, TableMatchesVolumes

\* The invariant of the table, the volumes and the open files.
MountInv == Types /\ TableMatchesVolumes /\ OpenFilesPinVolumes

\* At boot: one mount, one volume, nothing open.
LEMMA MountInit == Init => MountInv
<1> SUFFICES ASSUME Init PROVE MountInv
  OBVIOUS
<1>1. Types
  <2>1. Root \in Path
    <3>1. << >> \in [1 .. 0 -> Name]
      OBVIOUS
    <3>2. 0 \in 0 .. MaxPath
      BY MountsAssumption DEF MountsAssumption
    <3> QED BY <3>1, <3>2 DEF Root, Path, SeqOf
  <2> QED BY <2>1, MountsAssumption DEF MountsAssumption, Init, Types
<1>2. TableMatchesVolumes
  BY DEF Init, TableMatchesVolumes
<1>3. OpenFilesPinVolumes
  <2>1. \A d \in Dev : {f \in File : files[f] = d} = {}
    BY MountsAssumption DEF MountsAssumption, Init
  <2>2. \A d \in Dev : openOn[d] = 0
    BY DEF Init
  <2>3. \A f \in File : files[f] = NoDev
    BY DEF Init
  <2> QED BY <2>1, <2>2, <2>3, FS_EmptySet DEF OpenFilesPinVolumes
<1> QED BY <1>1, <1>2, <1>3 DEF MountInv

\* A mount adds a point and a device that the table does not have.
LEMMA MountStep ==
    ASSUME MountInv, NEW d \in Dev, NEW p \in Path, Mount(d, p)
    PROVE  MountInv'
<1> DEFINE m == [point |-> p, dev |-> d]
<1>1. /\ table' = table \cup {m} /\ vols' = vols \cup {d}
      /\ UNCHANGED <<files, openOn>>
  BY DEF Mount
<1>2. \A o \in table : o.dev # d /\ o.point # p
  <2>1. \A o \in table : o.dev # d
    BY DEF Mount, PointOf
  <2>2. \A o \in table : ~IsWithin(p, o.point)
    BY DEF Mount, CoversAMount
  <2>3. IsWithin(p, p)
    BY PathLength DEF IsWithin, IsPrefix
  <2> QED BY <2>1, <2>2, <2>3
<1>3. Types'
  BY <1>1 DEF MountInv, Types
<1>4. TableMatchesVolumes'
  BY <1>1, <1>2 DEF MountInv, TableMatchesVolumes
<1>5. OpenFilesPinVolumes'
  BY <1>1 DEF MountInv, OpenFilesPinVolumes
<1> QED BY <1>3, <1>4, <1>5 DEF MountInv

(***************************************************************************)
(* The count of a device is zero only when no file is open on it, so the   *)
(* check umount makes of OPEN_ON is a check of the files.                  *)
(***************************************************************************)
LEMMA UmountStep ==
    ASSUME MountInv, NEW p \in Path, Umount(p)
    PROVE  MountInv'
<1>1. PICK m \in table :
        /\ m.point = p /\ ~InUse(p, m.dev)
        /\ table' = table \ {m} /\ vols' = vols \ {m.dev}
  BY DEF Umount
<1>2. p # Root /\ UNCHANGED <<files, openOn>>
  BY DEF Umount
<1>3. \A f \in File : files[f] # m.dev
  <2>1. m.dev \in Dev
    BY DEF MountInv, Types
  <2>2. openOn[m.dev] = 0
    BY <1>1, <2>1 DEF InUse, MountInv, Types
  <2>3. Cardinality({f \in File : files[f] = m.dev}) = 0
    BY <2>1, <2>2 DEF MountInv, OpenFilesPinVolumes
  <2>4. IsFiniteSet({f \in File : files[f] = m.dev})
    BY FS_Subset, MountsAssumption DEF MountsAssumption
  <2> QED BY <2>3, <2>4, FS_EmptySet
<1>4. Types'
  BY <1>1, <1>2 DEF MountInv, Types
<1>5. TableMatchesVolumes'
  BY <1>1, <1>2 DEF MountInv, TableMatchesVolumes
<1>6. OpenFilesPinVolumes'
  BY <1>1, <1>2, <1>3 DEF MountInv, OpenFilesPinVolumes
<1> QED BY <1>4, <1>5, <1>6 DEF MountInv

(***************************************************************************)
(* How opening and closing a file changes the set of files on a device.    *)
(***************************************************************************)
LEMMA OpenStep ==
    ASSUME MountInv, NEW f \in File, NEW p \in Path, Open(f, p)
    PROVE  MountInv'
<1> DEFINE dev == Resolve(table, p).dev
<1> DEFINE on(g, d) == {x \in File : g[x] = d}
<1>1. dev \in vols /\ dev \in Dev
  BY ResolvesToMounted DEF MountInv
<1>2. /\ files[f] = NoDev
      /\ files' = [files EXCEPT ![f] = dev]
      /\ openOn' = [openOn EXCEPT ![dev] = @ + 1]
      /\ UNCHANGED <<table, vols>>
  BY DEF Open
<1> HIDE DEF dev
<1>3. files \in [File -> Dev \cup {NoDev}] /\ openOn \in [Dev -> Nat]
  BY DEF MountInv, Types
<1>4. on(files', dev) = on(files, dev) \cup {f} /\ f \notin on(files, dev)
  BY <1>1, <1>2, <1>3, MountsAssumption DEF MountsAssumption
<1>5. \A d \in Dev \ {dev} : on(files', d) = on(files, d)
  BY <1>2, <1>3, MountsAssumption DEF MountsAssumption
<1>6. \A d \in Dev : IsFiniteSet(on(files, d)) /\ openOn[d] = Cardinality(on(files, d))
  BY FS_Subset, MountsAssumption DEF MountsAssumption, MountInv, OpenFilesPinVolumes
<1>7. Cardinality(on(files', dev)) = Cardinality(on(files, dev)) + 1
  BY <1>1, <1>4, <1>6, FS_AddElement
<1>8. \A d \in Dev : openOn'[d] = Cardinality(on(files', d))
  BY <1>1, <1>2, <1>3, <1>5, <1>6, <1>7
<1>9. \A x \in File : files'[x] # NoDev => files'[x] \in vols'
  BY <1>1, <1>2, <1>3 DEF MountInv, OpenFilesPinVolumes
<1>10. Types'
  BY <1>1, <1>2, <1>3 DEF MountInv, Types
<1> QED BY <1>2, <1>8, <1>9, <1>10 DEF MountInv, OpenFilesPinVolumes, TableMatchesVolumes

\* A close takes one file off the count of its device.
LEMMA CloseStep ==
    ASSUME MountInv, NEW f \in File, Close(f)
    PROVE  MountInv'
<1> DEFINE dev == files[f]
<1> DEFINE on(g, d) == {x \in File : g[x] = d}
<1>1. files \in [File -> Dev \cup {NoDev}] /\ openOn \in [Dev -> Nat]
  BY DEF MountInv, Types
<1>2. /\ dev \in Dev
      /\ files' = [files EXCEPT ![f] = NoDev]
      /\ openOn' = [openOn EXCEPT ![dev] = @ - 1]
      /\ UNCHANGED <<table, vols>>
  BY <1>1 DEF Close
<1>3. on(files', dev) = on(files, dev) \ {f} /\ f \in on(files, dev)
  BY <1>1, <1>2, MountsAssumption DEF MountsAssumption
<1>4. \A d \in Dev \ {dev} : on(files', d) = on(files, d)
  BY <1>1, <1>2, MountsAssumption DEF MountsAssumption
<1>5. \A d \in Dev : IsFiniteSet(on(files, d)) /\ openOn[d] = Cardinality(on(files, d))
  BY FS_Subset, MountsAssumption DEF MountsAssumption, MountInv, OpenFilesPinVolumes
<1> HIDE DEF dev
<1>6. Cardinality(on(files', dev)) = Cardinality(on(files, dev)) - 1
  BY <1>2, <1>3, <1>5, FS_RemoveElement
<1>7. \A d \in Dev : openOn'[d] = Cardinality(on(files', d))
  BY <1>1, <1>2, <1>4, <1>5, <1>6
<1>8. IsFiniteSet(on(files', dev)) /\ Cardinality(on(files', dev)) \in Nat
  BY FS_Subset, FS_CardinalityType, MountsAssumption DEF MountsAssumption
<1>9. openOn' \in [Dev -> Nat]
  BY <1>1, <1>2, <1>7, <1>8
<1>10. \A x \in File : files'[x] # NoDev => files'[x] \in vols'
  BY <1>1, <1>2 DEF MountInv, OpenFilesPinVolumes
<1>11. Types'
  BY <1>1, <1>2, <1>9 DEF MountInv, Types
<1> QED BY <1>2, <1>7, <1>10, <1>11 DEF MountInv, OpenFilesPinVolumes, TableMatchesVolumes

\* Every step keeps the invariant: one case per action.
LEMMA MountInvStep == MountInv /\ [Next]_vars => MountInv'
<1> SUFFICES ASSUME MountInv, [Next]_vars PROVE MountInv'
  OBVIOUS
<1>1. ASSUME UNCHANGED <<table, vols, files, openOn>> PROVE MountInv'
  BY <1>1 DEF MountInv, Types, TableMatchesVolumes, OpenFilesPinVolumes
<1>2. ASSUME NEW p \in Path, \E d \in Dev : Mount(d, p) PROVE MountInv'
  BY <1>2, MountStep
<1>3. ASSUME NEW p \in Path, Umount(p) PROVE MountInv'
  BY <1>3, UmountStep
<1>4. ASSUME NEW p \in Path, Mkdir(p) \/ Rmdir(p) \/ Chdir(p) PROVE MountInv'
  BY <1>1, <1>4 DEF Mkdir, Rmdir, Chdir
<1>5. ASSUME NEW p \in Path, NEW q \in Path, Rename(p, q) PROVE MountInv'
  BY <1>1, <1>5 DEF Rename
<1>6. ASSUME NEW p \in Path, \E f \in File : Open(f, p) PROVE MountInv'
  BY <1>6, OpenStep
<1>7. CASE PushFrame \/ PopFrame
  BY <1>1, <1>7 DEF PushFrame, PopFrame
<1>8. CASE \E f \in File : Close(f)
  BY <1>8, CloseStep
<1>9. CASE UNCHANGED vars
  BY <1>1, <1>9 DEF vars
<1> QED BY <1>2, <1>3, <1>4, <1>5, <1>6, <1>7, <1>8, <1>9 DEF Next

\* The table, the volumes and the open files agree in every state.
THEOREM MountInvariant == Spec => []MountInv
  BY MountInit, MountInvStep, PTL DEF Spec

(***************************************************************************)
(* No path ever resolves to a device that is not mounted, and the table    *)
(* and the open volumes agree (mounts.rs:45-49, 90-99).                    *)
(***************************************************************************)
THEOREM TableSound == Spec => []TableMatchesVolumes
<1>1. MountInv => TableMatchesVolumes
  BY DEF MountInv
<1> QED BY <1>1, MountInvariant, PTL

(***************************************************************************)
(* A volume with an open file on it is never unmounted, and OPEN_ON counts *)
(* its files exactly (mounts.rs:104-113, files.rs:116-143).                *)
(***************************************************************************)
THEOREM FilesPin == Spec => []OpenFilesPinVolumes
<1>1. MountInv => OpenFilesPinVolumes
  BY DEF MountInv
<1> QED BY <1>1, MountInvariant, PTL

(***************************************************************************)
(* No unmount changes what a frame's working directory names: the mount    *)
(* that goes does not match any of them, so the candidates stay the same   *)
(* (mounts.rs:111).                                                        *)
(***************************************************************************)
THEOREM WorkingDirsStay == Spec => UmountKeepsWorkingDirs
<1> DEFINE Same == \A m \in table \ table' : \A i \in DOMAIN frames :
                     Resolve(table', frames[i]) = Resolve(table, frames[i])
<1>1. [Next]_vars => [Same]_vars
  <2> SUFFICES ASSUME Next PROVE Same
    OBVIOUS
  <2>1. CASE \E p \in Path : Umount(p)
    <3>1. PICK p \in Path : Umount(p)
      BY <2>1
    <3>2. PICK m \in table : m.point = p /\ ~InUse(p, m.dev) /\ table' = table \ {m}
      BY <3>1 DEF Umount
    <3>3. ASSUME NEW i \in DOMAIN frames PROVE Candidates(table', frames[i]) = Candidates(table, frames[i])
      BY <3>2, <3>3 DEF Candidates, InUse
    <3> QED BY <3>3 DEF Resolve, Covering
  <2>2. CASE \E p \in Path : \E d \in Dev : Mount(d, p)
    <3>1. table \ table' = {}
      BY <2>2 DEF Mount
    <3> QED BY <3>1
  <2>3. CASE ~\E p \in Path : Umount(p) \/ \E d \in Dev : Mount(d, p)
    <3>1. UNCHANGED table
      BY <2>3 DEF Next, Mkdir, Rmdir, Chdir, Rename, Open, PushFrame, PopFrame, Close
    <3> QED BY <3>1
  <2> QED BY <2>1, <2>2, <2>3
<1> QED BY <1>1, PTL DEF Spec, UmountKeepsWorkingDirs

\* A path is a bounded sequence of components.
LEMMA PathIsSeq == \A p : p \in Path <=> p \in Seq(Name) /\ Len(p) <= MaxPath
<1>1. MaxPath \in Nat
  BY MountsAssumption DEF MountsAssumption
<1> SUFFICES ASSUME NEW p PROVE p \in Path <=> p \in Seq(Name) /\ Len(p) <= MaxPath
  OBVIOUS
<1>2. ASSUME p \in Path PROVE p \in Seq(Name) /\ Len(p) <= MaxPath
  <2>1. PICK m \in 0 .. MaxPath : p \in [1 .. m -> Name]
    BY <1>2 DEF Path, SeqOf
  <2>2. m \in Nat /\ m <= MaxPath
    BY <1>1, <2>1
  <2> QED BY <2>1, <2>2
<1>3. ASSUME p \in Seq(Name), Len(p) <= MaxPath PROVE p \in Path
  <2>1. Len(p) \in 0 .. MaxPath /\ p \in [1 .. Len(p) -> Name]
    BY <1>1, <1>3
  <2> QED BY <2>1 DEF Path, SeqOf
<1> QED BY <1>2, <1>3

\* A prefix agrees with the whole at each of its places.
LEMMA AtPrefix ==
    ASSUME NEW p \in Seq(Name), NEW q \in Seq(Name)
    PROVE  /\ IsPrefix(p, q) <=> /\ Len(p) <= Len(q)
                                 /\ \A i \in 1 .. Len(p) : p[i] = q[i]
<1>1. SubSeq(p, 1, Len(p)) = p
  OBVIOUS
<1>2. ASSUME Len(p) <= Len(q)
      PROVE  /\ SubSeq(q, 1, Len(p)) \in Seq(Name)
             /\ Len(SubSeq(q, 1, Len(p))) = Len(p)
             /\ \A i \in 1 .. Len(p) : SubSeq(q, 1, Len(p))[i] = q[i]
  BY <1>2
<1>3. ASSUME Len(p) <= Len(q), \A i \in 1 .. Len(p) : p[i] = q[i]
      PROVE  p = SubSeq(q, 1, Len(p))
  <2> DEFINE s == SubSeq(q, 1, Len(p))
  <2>1. s \in Seq(Name) /\ Len(s) = Len(p) /\ \A i \in 1 .. Len(p) : s[i] = p[i]
    BY <1>2, <1>3
  <2> HIDE DEF s
  <2>2. s = p
    BY <2>1, SeqEqual
  <2> QED BY <2>2 DEF s
<1>4. ASSUME Len(p) <= Len(q), p = SubSeq(q, 1, Len(p))
      PROVE  \A i \in 1 .. Len(p) : p[i] = q[i]
  BY <1>2, <1>4
<1> QED BY <1>1, <1>3, <1>4 DEF IsPrefix

\* A path without its last component.
LEMMA FrontIs ==
    ASSUME NEW p \in Seq(Name), p # << >>
    PROVE  /\ Front(p) \in Seq(Name) /\ Len(Front(p)) = Len(p) - 1
           /\ \A i \in 1 .. Len(p) - 1 : Front(p)[i] = p[i]
           /\ p[Len(p)] \in Name /\ Len(p) \in Nat \ {0}
           /\ p = Append(Front(p), p[Len(p)])
<1>1. Len(p) \in Nat \ {0} /\ Len(p) - 1 \in Nat
  OBVIOUS
<1>2. /\ Front(p) \in Seq(Name) /\ Len(Front(p)) = Len(p) - 1
      /\ \A i \in 1 .. Len(p) - 1 : Front(p)[i] = p[i]
  <2>1. PICK n \in Nat : n = Len(p) - 1 /\ n <= Len(p)
    BY <1>1
  <2>2. /\ SubSeq(p, 1, n) \in Seq(Name) /\ Len(SubSeq(p, 1, n)) = n
        /\ \A i \in 1 .. n : SubSeq(p, 1, n)[i] = p[i]
    BY <2>1
  <2> QED BY <2>1, <2>2 DEF Front
<1>3. p[Len(p)] \in Name
  BY <1>1, ElementOfSeq
<1>4. p = Append(Front(p), p[Len(p)])
  <2> DEFINE f == Front(p)
  <2> HIDE DEF f
  <2>1. f \in Seq(Name) /\ Len(f) = Len(p) - 1 /\ \A i \in 1 .. Len(p) - 1 : f[i] = p[i]
    BY <1>2 DEF f
  <2>2. /\ Append(f, p[Len(p)]) \in Seq(Name) /\ Len(Append(f, p[Len(p)])) = Len(p)
        /\ \A i \in 1 .. Len(p) : Append(f, p[Len(p)])[i] = p[i]
    BY <1>1, <1>3, <2>1, AppendProperties
  <2> DEFINE g == Append(f, p[Len(p)])
  <2> HIDE DEF g
  <2>3. g = p
    BY <2>2, SeqEqual DEF g
  <2> QED BY <2>3 DEF f, g
<1> QED BY <1>1, <1>2, <1>3, <1>4

\* What is in front of a path is itself or in front of its front.
LEMMA PrefixOfFront ==
    ASSUME NEW p \in Seq(Name), NEW q \in Seq(Name), q # << >>
    PROVE  IsPrefix(p, q) <=> (p = q \/ IsPrefix(p, Front(q)))
<1> DEFINE f == Front(q)
<1>1. /\ f \in Seq(Name) /\ Len(f) = Len(q) - 1 /\ Len(q) \in Nat \ {0}
      /\ \A i \in 1 .. Len(q) - 1 : f[i] = q[i]
  BY FrontIs
<1> HIDE DEF f
<1>2. IsPrefix(p, f) <=> Len(p) <= Len(f) /\ \A i \in 1 .. Len(p) : p[i] = f[i]
  BY <1>1, AtPrefix
<1>3. IsPrefix(p, q) <=> Len(p) <= Len(q) /\ \A i \in 1 .. Len(p) : p[i] = q[i]
  BY AtPrefix
<1>4. Len(p) \in Nat
  OBVIOUS
<1>5. ASSUME IsPrefix(p, f) PROVE IsPrefix(p, q)
  BY <1>1, <1>2, <1>3, <1>4, <1>5
<1>6. ASSUME p = q PROVE IsPrefix(p, q)
  BY <1>3, <1>6
<1>7. ASSUME IsPrefix(p, q), p # q PROVE IsPrefix(p, f)
  <2>1. CASE Len(p) = Len(q)
    BY <1>3, <1>7, <2>1, SeqEqual
  <2>2. CASE Len(p) < Len(q)
    BY <1>1, <1>2, <1>3, <1>4, <1>7, <2>2
  <2> QED BY <1>1, <1>3, <1>4, <1>7, <2>1, <2>2
<1> QED BY <1>5, <1>6, <1>7 DEF f

\* A path is what is in front of it and what comes after.
LEMMA PrefixSplit ==
    ASSUME NEW p \in Seq(Name), NEW q \in Seq(Name), IsPrefix(p, q)
    PROVE  /\ SubSeq(q, Len(p) + 1, Len(q)) \in Seq(Name)
           /\ q = p \o SubSeq(q, Len(p) + 1, Len(q))
           /\ Len(SubSeq(q, Len(p) + 1, Len(q))) = Len(q) - Len(p)
<1> DEFINE r == SubSeq(q, Len(p) + 1, Len(q))
<1>1. Len(p) <= Len(q) /\ \A i \in 1 .. Len(p) : p[i] = q[i]
  BY AtPrefix
<1>2. /\ r \in Seq(Name) /\ Len(r) = Len(q) - Len(p)
      /\ \A i \in 1 .. Len(q) - Len(p) : r[i] = q[Len(p) + i]
  BY <1>1
<1> HIDE DEF r
<1> DEFINE s == p \o r
<1>3. /\ s \in Seq(Name) /\ Len(s) = Len(p) + Len(r)
      /\ \A i \in 1 .. Len(p) + Len(r) :
            s[i] = IF i <= Len(p) THEN p[i] ELSE r[i - Len(p)]
  BY <1>2, ConcatProperties
<1> HIDE DEF s
<1>4. Len(s) = Len(q)
  BY <1>1, <1>2, <1>3
<1>5. \A i \in 1 .. Len(q) : s[i] = q[i]
  <2> TAKE i \in 1 .. Len(q)
  <2>1. CASE i <= Len(p)
    BY <1>1, <1>2, <1>3, <2>1
  <2>2. CASE i > Len(p)
    <3>1. i - Len(p) \in 1 .. Len(q) - Len(p) /\ Len(p) + (i - Len(p)) = i
          /\ i \in 1 .. Len(p) + Len(r) /\ ~(i <= Len(p))
      BY <1>1, <1>2, <2>2
    <3>2. s[i] = r[i - Len(p)]
      BY <1>3, <3>1
    <3>3. r[i - Len(p)] = q[Len(p) + (i - Len(p))]
      BY <1>2, <3>1
    <3> QED BY <3>1, <3>2, <3>3
  <2> QED BY <2>1, <2>2
<1>6. s = q
  BY <1>3, <1>4, <1>5, SeqEqual
<1> QED BY <1>2, <1>6 DEF r, s

\* A path is in front of what is joined to it.
LEMMA PrefixOfJoined ==
    ASSUME NEW p \in Seq(Name), NEW r \in Seq(Name)
    PROVE  /\ p \o r \in Seq(Name) /\ Len(p \o r) = Len(p) + Len(r)
           /\ IsPrefix(p, p \o r)
<1> DEFINE s == p \o r
<1>1. /\ s \in Seq(Name) /\ Len(s) = Len(p) + Len(r)
      /\ \A i \in 1 .. Len(p) + Len(r) :
            s[i] = IF i <= Len(p) THEN p[i] ELSE r[i - Len(p)]
  BY ConcatProperties
<1> HIDE DEF s
<1>2. Len(p) \in Nat /\ Len(r) \in Nat
  OBVIOUS
<1>3. Len(p) <= Len(s) /\ \A i \in 1 .. Len(p) : p[i] = s[i]
  BY <1>1, <1>2
<1>4. IsPrefix(p, s)
  BY <1>1, <1>3, AtPrefix
<1> QED BY <1>1, <1>4 DEF s

\* Prefixes of one path's rest are prefixes of the path.
LEMMA JoinedPrefix ==
    ASSUME NEW p \in Seq(Name), NEW r \in Seq(Name), NEW s \in Seq(Name)
    PROVE  IsPrefix(r, s) <=> IsPrefix(p \o r, p \o s)
<1> DEFINE u == p \o r
           v == p \o s
<1>1. /\ u \in Seq(Name) /\ Len(u) = Len(p) + Len(r)
      /\ \A i \in 1 .. Len(p) + Len(r) :
            u[i] = IF i <= Len(p) THEN p[i] ELSE r[i - Len(p)]
  BY ConcatProperties
<1>2. /\ v \in Seq(Name) /\ Len(v) = Len(p) + Len(s)
      /\ \A i \in 1 .. Len(p) + Len(s) :
            v[i] = IF i <= Len(p) THEN p[i] ELSE s[i - Len(p)]
  BY ConcatProperties
<1>3. Len(p) \in Nat /\ Len(r) \in Nat /\ Len(s) \in Nat
  OBVIOUS
<1> HIDE DEF u, v
<1>4. IsPrefix(r, s) <=> Len(r) <= Len(s) /\ \A i \in 1 .. Len(r) : r[i] = s[i]
  BY AtPrefix
<1>5. IsPrefix(u, v) <=> Len(u) <= Len(v) /\ \A i \in 1 .. Len(u) : u[i] = v[i]
  BY <1>1, <1>2, AtPrefix
<1>6. ASSUME IsPrefix(r, s) PROVE IsPrefix(u, v)
  <2>1. Len(r) <= Len(s) /\ \A i \in 1 .. Len(r) : r[i] = s[i]
    BY <1>4, <1>6
  <2>2. Len(u) <= Len(v)
    BY <1>1, <1>2, <1>3, <2>1
  <2>3. ASSUME NEW i \in 1 .. Len(u) PROVE u[i] = v[i]
    <3>1. /\ i \in 1 .. Len(p) + Len(r) /\ i \in 1 .. Len(p) + Len(s)
          /\ (~(i <= Len(p)) => i - Len(p) \in 1 .. Len(r))
      BY <1>1, <1>3, <2>1
    <3> QED BY <1>1, <1>2, <2>1, <3>1
  <2> QED BY <1>5, <2>2, <2>3
<1>7. ASSUME IsPrefix(u, v) PROVE IsPrefix(r, s)
  <2>1. Len(u) <= Len(v) /\ \A i \in 1 .. Len(u) : u[i] = v[i]
    BY <1>5, <1>7
  <2>2. Len(r) <= Len(s)
    BY <1>1, <1>2, <1>3, <2>1
  <2>3. ASSUME NEW i \in 1 .. Len(r) PROVE r[i] = s[i]
    <3>1. /\ i + Len(p) \in 1 .. Len(p) + Len(r) /\ i + Len(p) \in 1 .. Len(p) + Len(s)
          /\ ~(i + Len(p) <= Len(p)) /\ (i + Len(p)) - Len(p) = i
      BY <1>3, <2>2
    <3>2. u[i + Len(p)] = r[i]
      BY <1>1, <3>1
    <3>3. v[i + Len(p)] = s[i]
      BY <1>2, <3>1
    <3> QED BY <1>1, <2>1, <3>1, <3>2, <3>3
  <2> QED BY <1>4, <2>2, <2>3
<1> QED BY <1>6, <1>7 DEF u, v

\* To be in front of is reflexive and antisymmetric.
LEMMA PrefixOrder ==
    ASSUME NEW p \in Seq(Name), NEW q \in Seq(Name)
    PROVE  /\ IsPrefix(p, p)
           /\ IsPrefix(p, q) /\ IsPrefix(q, p) => p = q
<1>1. IsPrefix(p, q) <=> Len(p) <= Len(q) /\ \A i \in 1 .. Len(p) : p[i] = q[i]
  BY AtPrefix
<1>2. IsPrefix(q, p) <=> Len(q) <= Len(p) /\ \A i \in 1 .. Len(q) : q[i] = p[i]
  BY AtPrefix
<1>3. IsPrefix(p, p)
  BY AtPrefix
<1>4. ASSUME IsPrefix(p, q), IsPrefix(q, p) PROVE p = q
  <2>1. Len(p) = Len(q)
    BY <1>1, <1>2, <1>4
  <2> QED BY <1>1, <1>4, <2>1, SeqEqual
<1> QED BY <1>3, <1>4

\* A table that can be asked: the root volume is in it, and a point and a
\* device is in it once.
TableOK(t) ==
    /\ t \in SUBSET [point: Path, dev: Dev]
    /\ [point |-> Root, dev |-> RootDev] \in t
    /\ \A m, o \in t : (m.point = o.point \/ m.dev = o.dev) => m = o

\* A path is the point of the mount it resolves to and its place there.
LEMMA Spelled ==
    ASSUME NEW t, TableOK(t), NEW path \in Path
    PROVE  \E m \in t : /\ m = Covering(t, path) /\ IsPrefix(m.point, path)
                        /\ Resolve(t, path).dev = m.dev
                        /\ Resolve(t, path).dir \in Seq(Name)
                        /\ path = m.point \o Resolve(t, path).dir
<1> DEFINE ms == Candidates(t, path)
<1>1. ms \in SUBSET [point: Path, dev: Dev]
      /\ \A m \in ms : IsWithin(m.point, path) /\ m \in t
  BY DEF TableOK, Candidates
<1>2. ms # {}
  <2>1. IsWithin(Root, path)
    BY RootCovers
  <2> QED BY <2>1 DEF TableOK, Candidates
<1> HIDE DEF ms
<1>3. Longest(ms) \in ms
  BY <1>1, <1>2, LongestExists
<1>4. PICK m \in t : m = Longest(ms) /\ IsPrefix(m.point, path)
  BY <1>1, <1>3 DEF IsWithin
<1>5. m.point \in Seq(Name) /\ path \in Seq(Name)
  <2>1. m.point \in Path
    BY <1>4 DEF TableOK
  <2> QED BY <2>1, PathIsSeq
<1>6. /\ Resolve(t, path).dev = m.dev
      /\ Resolve(t, path).dir = SubSeq(path, Len(m.point) + 1, Len(path))
      /\ m = Covering(t, path)
  BY <1>4 DEF Resolve, Covering, ms
<1>7. /\ SubSeq(path, Len(m.point) + 1, Len(path)) \in Seq(Name)
      /\ path = m.point \o SubSeq(path, Len(m.point) + 1, Len(path))
  BY <1>4, <1>5, PrefixSplit
<1> QED BY <1>4, <1>6, <1>7

\* What a path resolves to, as a record.
LEMMA ResolveRecord ==
    ASSUME NEW t, NEW path
    PROVE  Resolve(t, path) = [dev |-> Resolve(t, path).dev,
                               dir |-> Resolve(t, path).dir]
  BY DEF Resolve

\* A mount point resolves to the root of what is mounted there.
LEMMA PointIsRoot ==
    ASSUME NEW t, TableOK(t), NEW m \in t
    PROVE  Resolve(t, m.point) = [dev |-> m.dev, dir |-> << >>]
<1>1. m.point \in Path /\ m.point \in Seq(Name)
  <2>1. m.point \in Path
    BY DEF TableOK
  <2> QED BY <2>1, PathIsSeq
<1> DEFINE ms == Candidates(t, m.point)
<1>2. ms \in SUBSET [point: Path, dev: Dev]
      /\ \A o \in ms : /\ IsWithin(o.point, m.point) /\ IsPrefix(o.point, m.point)
                        /\ o \in t /\ o.point \in Seq(Name)
  BY PathIsSeq DEF TableOK, Candidates, IsWithin
<1>3. m \in ms
  <2>1. IsWithin(m.point, m.point)
    BY <1>1, PrefixOrder DEF IsWithin
  <2> QED BY <2>1 DEF Candidates
<1> HIDE DEF ms
<1>4. /\ Longest(ms) \in ms
      /\ \A o \in ms : Len(o.point) <= Len(Longest(ms).point)
  BY <1>1, <1>2, <1>3, LongestExists
<1>5. PICK o \in ms : o = Longest(ms) /\ Len(m.point) <= Len(o.point)
  BY <1>3, <1>4
<1>6. o.point = m.point
  <2>1. /\ Len(o.point) <= Len(m.point)
        /\ \A i \in 1 .. Len(o.point) : o.point[i] = m.point[i]
    BY <1>1, <1>2, <1>5, AtPrefix
  <2>2. Len(o.point) = Len(m.point)
    BY <1>1, <1>2, <1>5, <2>1
  <2> QED BY <1>1, <1>2, <1>5, <2>1, <2>2, SeqEqual
<1>7. o = m
  BY <1>2, <1>6 DEF TableOK
<1>8. SubSeq(m.point, Len(m.point) + 1, Len(m.point)) = << >>
  BY <1>1
<1> QED BY <1>5, <1>7, <1>8 DEF Resolve, Covering, ms

\* The entry that a path names in the directory it is in.
EntryIn(t, p) ==
    [dev |-> Resolve(t, Front(p)).dev,
     dir |-> Append(Resolve(t, Front(p)).dir, p[Len(p)])]

\* A path's directory is a path, and its last component a name.
LEMMA FrontInPath ==
    ASSUME NEW p \in Path, p # Root
    PROVE  /\ Front(p) \in Path /\ p \in Seq(Name) /\ Front(p) \in Seq(Name)
           /\ p[Len(p)] \in Name /\ p # << >>
<1>1. p \in Seq(Name) /\ Len(p) <= MaxPath /\ p # << >>
  BY PathIsSeq DEF Root
<1>2. /\ Front(p) \in Seq(Name) /\ Len(Front(p)) = Len(p) - 1
      /\ p[Len(p)] \in Name /\ Len(p) \in Nat \ {0}
  BY <1>1, FrontIs
<1>3. Len(Front(p)) <= MaxPath
  BY <1>1, <1>2, MountsAssumption DEF MountsAssumption
<1> QED BY <1>1, <1>2, <1>3, PathIsSeq

\* Both are found in a table u that knows of t what is above the path only.
LEMMA EntryOf ==
    ASSUME NEW t, TableOK(t), NEW u, TableOK(u), NEW p \in Path, p # Root,
           u \subseteq t, \A m \in t \ u : ~IsPrefix(m.point, Front(p)),
           \A m \in u : m.point # p
    PROVE  Resolve(u, p) = EntryIn(t, p)
<1> DEFINE f == Front(p)
<1>1. /\ f \in Path /\ p \in Seq(Name) /\ f \in Seq(Name)
      /\ p[Len(p)] \in Name /\ p # << >>
  BY FrontInPath
<1>2. \A m \in t : m.point \in Seq(Name)
  BY PathIsSeq DEF TableOK
<1>3. Candidates(u, p) = Candidates(t, f)
  <2>1. \A m \in u : IsPrefix(m.point, p) <=> IsPrefix(m.point, f)
    BY <1>1, <1>2, PrefixOfFront
  <2> QED BY <2>1 DEF Candidates, IsWithin
<1>4. Covering(u, p) = Covering(t, f)
  BY <1>3 DEF Covering
<1>5. PICK m \in t : /\ m = Covering(t, f) /\ IsPrefix(m.point, f)
                     /\ Resolve(t, f).dev = m.dev
                     /\ Resolve(t, f).dir \in Seq(Name)
                     /\ f = m.point \o Resolve(t, f).dir
  <2> HIDE DEF f
  <2> QED BY <1>1, Spelled
<1>6. /\ Resolve(u, p).dev = m.dev
      /\ Resolve(u, p).dir = SubSeq(p, Len(m.point) + 1, Len(p))
      /\ Resolve(t, f).dir = SubSeq(f, Len(m.point) + 1, Len(f))
  BY <1>4, <1>5 DEF Resolve
<1>7. SubSeq(p, Len(m.point) + 1, Len(p))
         = Append(SubSeq(f, Len(m.point) + 1, Len(f)), p[Len(p)])
  <2> DEFINE k == Len(m.point)
             l == Len(f)
             s == SubSeq(p, k + 1, Len(p))
             r == SubSeq(f, k + 1, l)
  <2>1. /\ Len(f) = Len(p) - 1 /\ Len(p) \in Nat \ {0}
        /\ \A i \in 1 .. Len(p) - 1 : f[i] = p[i]
    BY <1>1, FrontIs
  <2>2. k <= l /\ k \in Nat /\ l \in Nat /\ Len(p) = l + 1
    <3>1. Len(m.point) <= Len(f)
      BY <1>1, <1>2, <1>5, AtPrefix
    <3>2. Len(m.point) \in Nat /\ Len(f) \in Nat
      BY <1>1, <1>2
    <3> QED BY <2>1, <3>1, <3>2
  <2> HIDE DEF k, l, f
  <2>3. /\ s \in Seq(Name) /\ Len(s) = l + 1 - k
        /\ \A i \in 1 .. l + 1 - k : s[i] = p[k + i]
    BY <1>1, <2>2
  <2>4. /\ r \in Seq(Name) /\ Len(r) = l - k
        /\ \A i \in 1 .. l - k : r[i] = f[k + i]
    BY <1>1, <2>2 DEF l
  <2> HIDE DEF s, r
  <2> DEFINE a == Append(r, p[Len(p)])
  <2>5. /\ a \in Seq(Name) /\ Len(a) = Len(r) + 1
        /\ \A i \in 1 .. Len(r) : a[i] = r[i]
        /\ a[Len(r) + 1] = p[Len(p)]
    BY <1>1, <2>4, AppendProperties
  <2> HIDE DEF a
  <2>6. Len(a) = Len(s)
    BY <2>2, <2>3, <2>4, <2>5
  <2>7. \A i \in 1 .. Len(s) : a[i] = s[i]
    <3> TAKE i \in 1 .. Len(s)
    <3>1. CASE i <= l - k
      <4>1. i \in 1 .. l - k /\ k + i \in 1 .. Len(p) - 1 /\ i \in 1 .. l + 1 - k
            /\ i \in 1 .. Len(r)
        BY <2>2, <2>3, <2>4, <3>1
      <4> QED BY <2>1, <2>3, <2>4, <2>5, <4>1
    <3>2. CASE i > l - k
      <4>1. i = l + 1 - k /\ k + i = Len(p) /\ i = Len(r) + 1 /\ i \in 1 .. l + 1 - k
        BY <2>2, <2>3, <2>4, <3>2
      <4> QED BY <2>3, <2>5, <4>1
    <3> QED BY <2>2, <2>3, <3>1, <3>2
  <2>8. a = s
    BY <2>3, <2>5, <2>6, <2>7, SeqEqual
  <2> QED BY <2>8 DEF a, s, r, k, l
<1>8. Resolve(u, p) = [dev |-> Resolve(u, p).dev, dir |-> Resolve(u, p).dir]
  BY ResolveRecord
<1> QED BY <1>5, <1>6, <1>7, <1>8 DEF EntryIn

\* Appending to a joined path appends to its second part.
LEMMA AppendJoined ==
    ASSUME NEW s \in Seq(Name), NEW r \in Seq(Name), NEW x \in Name
    PROVE  /\ Append(r, x) \in Seq(Name)
           /\ Append(s \o r, x) = s \o Append(r, x)
<1> DEFINE c == s \o r
           a == Append(c, x)
           e == Append(r, x)
           b == s \o e
<1>1. /\ c \in Seq(Name) /\ Len(c) = Len(s) + Len(r)
      /\ \A i \in 1 .. Len(s) + Len(r) :
            c[i] = IF i <= Len(s) THEN s[i] ELSE r[i - Len(s)]
  BY ConcatProperties
<1>2. /\ e \in Seq(Name) /\ Len(e) = Len(r) + 1
      /\ \A i \in 1 .. Len(r) : e[i] = r[i]
      /\ e[Len(r) + 1] = x
  BY AppendProperties
<1> HIDE DEF c, e
<1>3. /\ a \in Seq(Name) /\ Len(a) = Len(c) + 1
      /\ \A i \in 1 .. Len(c) : a[i] = c[i]
      /\ a[Len(c) + 1] = x
  BY <1>1, AppendProperties
<1>4. /\ b \in Seq(Name) /\ Len(b) = Len(s) + Len(e)
      /\ \A i \in 1 .. Len(s) + Len(e) :
            b[i] = IF i <= Len(s) THEN s[i] ELSE e[i - Len(s)]
  BY <1>2, ConcatProperties
<1>5. Len(s) \in Nat /\ Len(r) \in Nat
  OBVIOUS
<1> HIDE DEF a, b
<1>6. Len(a) = Len(b)
  BY <1>1, <1>2, <1>3, <1>4, <1>5
<1>7. \A i \in 1 .. Len(a) : a[i] = b[i]
  <2> TAKE i \in 1 .. Len(a)
  <2>1. CASE i <= Len(s)
    <3>1. i \in 1 .. Len(c) /\ i \in 1 .. Len(s) + Len(r) /\ i \in 1 .. Len(s) + Len(e)
      BY <1>1, <1>2, <1>5, <2>1
    <3>2. a[i] = c[i] /\ c[i] = s[i]
      BY <1>1, <1>3, <2>1, <3>1
    <3>3. b[i] = s[i]
      BY <1>4, <2>1, <3>1
    <3> QED BY <3>2, <3>3
  <2>2. CASE i > Len(s) /\ i <= Len(s) + Len(r)
    <3>1. /\ i \in 1 .. Len(c) /\ i \in 1 .. Len(s) + Len(r) /\ i \in 1 .. Len(s) + Len(e)
          /\ ~(i <= Len(s)) /\ i - Len(s) \in 1 .. Len(r)
      BY <1>1, <1>2, <1>5, <2>2
    <3>2. a[i] = c[i] /\ c[i] = r[i - Len(s)]
      BY <1>1, <1>3, <3>1
    <3>3. b[i] = e[i - Len(s)] /\ e[i - Len(s)] = r[i - Len(s)]
      BY <1>2, <1>4, <3>1
    <3> QED BY <3>2, <3>3
  <2>3. CASE i = Len(s) + Len(r) + 1
    <3>1. i - Len(s) = Len(r) + 1 /\ ~(i <= Len(s)) /\ i \in 1 .. Len(s) + Len(e)
          /\ i = Len(c) + 1
      BY <1>1, <1>2, <1>5, <2>3
    <3> QED BY <1>2, <1>3, <1>4, <3>1
  <2> QED BY <1>1, <1>3, <1>5, <2>1, <2>2, <2>3
<1>8. a = b
  BY <1>3, <1>4, <1>6, <1>7, SeqEqual
<1> QED BY <1>2, <1>8 DEF a, b, c, e

\* x is the place of a path on the volume of one of the mounts.
Place(t, path, x) ==
    \E m \in t : /\ x.dev = m.dev /\ x.dir \in Seq(Name)
                 /\ path = m.point \o x.dir

\* What a path resolves to is a place of it.
LEMMA ResolvePlace ==
    ASSUME NEW t, TableOK(t), NEW path \in Path
    PROVE  Place(t, path, Resolve(t, path))
  BY Spelled DEF Place

\* So is the entry it names in its directory.
LEMMA EntryPlace ==
    ASSUME NEW t, TableOK(t), NEW path \in Path, path # Root
    PROVE  Place(t, path, EntryIn(t, path))
<1> DEFINE f == Front(path)
           n == path[Len(path)]
<1>1. /\ f \in Path /\ f \in Seq(Name) /\ path \in Seq(Name) /\ n \in Name
      /\ path # << >>
  BY FrontInPath
<1>2. path = Append(f, n)
  BY <1>1, FrontIs
<1> HIDE DEF f
<1>3. PICK m \in t : /\ Resolve(t, f).dev = m.dev
                     /\ Resolve(t, f).dir \in Seq(Name)
                     /\ f = m.point \o Resolve(t, f).dir
  BY <1>1, Spelled
<1>4. m.point \in Seq(Name)
  <2>1. m.point \in Path
    BY <1>3 DEF TableOK
  <2> QED BY <2>1, PathIsSeq
<1>5. PICK dir \in Seq(Name) : dir = Resolve(t, f).dir
  BY <1>3
<1> HIDE DEF n
<1>6. /\ Append(dir, n) \in Seq(Name)
      /\ Append(m.point \o dir, n) = m.point \o Append(dir, n)
  BY <1>1, <1>4, <1>5, AppendJoined
<1>7. EntryIn(t, path) = [dev |-> Resolve(t, f).dev, dir |-> Append(dir, n)]
  BY <1>5 DEF EntryIn, f, n
<1>8. EntryIn(t, path).dev = m.dev /\ EntryIn(t, path).dir = Append(dir, n)
  BY <1>3, <1>7
<1>9. path = m.point \o Append(dir, n)
  BY <1>2, <1>3, <1>5, <1>6
<1> QED BY <1>3, <1>6, <1>8, <1>9 DEF Place

\* On one device the places are in each other as the paths are.
LEMMA PlacesWithin ==
    ASSUME NEW t, TableOK(t), NEW p, NEW q, NEW x, NEW y,
           Place(t, p, x), Place(t, q, y), x.dev = y.dev
    PROVE  IsPrefix(x.dir, y.dir) <=> IsPrefix(p, q)
<1>1. PICK m \in t : x.dev = m.dev /\ x.dir \in Seq(Name) /\ p = m.point \o x.dir
  BY DEF Place
<1>2. PICK o \in t : y.dev = o.dev /\ y.dir \in Seq(Name) /\ q = o.point \o y.dir
  BY DEF Place
<1>3. m = o
  BY <1>1, <1>2 DEF TableOK
<1>4. m.point \in Seq(Name)
  <2>1. m.point \in Path
    BY <1>1 DEF TableOK
  <2> QED BY <2>1, PathIsSeq
<1>5. PICK r \in Seq(Name), s \in Seq(Name) : r = x.dir /\ s = y.dir
  BY <1>1, <1>2
<1>6. PICK a \in Seq(Name) : a = m.point
  BY <1>4
<1>7. IsPrefix(r, s) <=> IsPrefix(a \o r, a \o s)
  BY JoinedPrefix
<1> QED BY <1>1, <1>2, <1>3, <1>5, <1>6, <1>7

\* One place on one device is the place of one path.
LEMMA PlacesSame ==
    ASSUME NEW t, TableOK(t), NEW p \in Path, NEW q \in Path, NEW x, NEW y,
           Place(t, p, x), Place(t, q, y), x.dev = y.dev, x.dir = y.dir
    PROVE  p = q
<1>1. x.dir \in Seq(Name) /\ p \in Seq(Name) /\ q \in Seq(Name)
  BY PathIsSeq DEF Place
<1>2. IsPrefix(x.dir, y.dir) /\ IsPrefix(y.dir, x.dir)
  BY <1>1, PrefixOrder
<1>3. IsPrefix(p, q) /\ IsPrefix(q, p)
  BY <1>2, PlacesWithin
<1> QED BY <1>1, <1>3, PrefixOrder

\* A table that differs in no mount above a path's directory has it in the
\* same directory.
LEMMA SameEntry ==
    ASSUME NEW t, NEW u, NEW p,
           \A m \in (t \ u) \cup (u \ t) : ~IsPrefix(m.point, Front(p))
    PROVE  EntryIn(u, p) = EntryIn(t, p)
<1>1. Candidates(t, Front(p)) = Candidates(u, Front(p))
  BY DEF Candidates, IsWithin
<1> QED BY <1>1 DEF EntryIn, Resolve, Covering

\* The directory a mount hides is the entry that its point names.
LEMMA HiddenIsEntry ==
    ASSUME TableOK(table), NEW m \in table, m.point # Root
    PROVE  HiddenAt(m) = EntryIn(table, m.point)
<1> DEFINE u == table \ {m}
<1>1. m.point \in Path
  BY DEF TableOK
<1>2. TableOK(u)
  BY DEF TableOK
<1>3. ~IsPrefix(m.point, Front(m.point))
  <2>1. /\ Front(m.point) \in Seq(Name) /\ m.point \in Seq(Name) /\ m.point # << >>
    BY <1>1, FrontInPath
  <2>2. Len(Front(m.point)) = Len(m.point) - 1 /\ Len(m.point) \in Nat
    BY <2>1, FrontIs
  <2> QED BY <2>2 DEF IsPrefix
<1>4. \A o \in u : o.point # m.point
  BY DEF TableOK
<1>5. \A o \in table \ u : ~IsPrefix(o.point, Front(m.point))
  BY <1>3
<1> HIDE DEF u
<1>6. u \subseteq table
  BY DEF u
<1>7. PICK p \in Path : p = m.point
  BY <1>1
<1>8. Resolve(u, p) = EntryIn(table, p)
  BY <1>2, <1>4, <1>5, <1>6, <1>7, EntryOf
<1> QED BY <1>7, <1>8 DEF HiddenAt, u

\* A path that is no mount point resolves to its entry.
LEMMA NoPointIsEntry ==
    ASSUME NEW t, TableOK(t), NEW p \in Path, \A m \in t : m.point # p
    PROVE  p # Root /\ Resolve(t, p) = EntryIn(t, p)
<1>1. p # Root
  BY DEF TableOK
<1>2. t \subseteq t /\ \A m \in t \ t : ~IsPrefix(m.point, Front(p))
  OBVIOUS
<1> QED BY <1>1, <1>2, EntryOf

\* Every volume is a tree: it has a root, and the directory of what it has.
TreesOK ==
    /\ dirs \in [Dev -> SUBSET Path]
    /\ \A d \in Dev :
          /\ Root \in dirs[d]
          /\ \A x \in dirs[d] : x # Root => Front(x) \in dirs[d]

\* The entry that each mount point hides is there.
Covered ==
    \A m \in table : m.point # Root =>
        EntryIn(table, m.point).dir \in dirs[EntryIn(table, m.point).dev]

\* The invariant of the walk, kept by every step from a MountInv state.
TreeInv == TreesOK /\ displaced \in BOOLEAN /\ (~displaced => Covered)

\* The invariant's table can be asked.
LEMMA TableIsOK == MountInv => TableOK(table)
  BY DEF MountInv, Types, TableMatchesVolumes, TableOK

\* What a path resolves to has a device and a place there.
LEMMA ResolveTypes ==
    ASSUME NEW t, TableOK(t), NEW p \in Path
    PROVE  Resolve(t, p).dev \in Dev /\ Resolve(t, p).dir \in Seq(Name)
<1>1. PICK m \in t : Resolve(t, p).dev = m.dev /\ Resolve(t, p).dir \in Seq(Name)
  BY Spelled
<1>2. m.dev \in Dev
  BY <1>1 DEF TableOK
<1> QED BY <1>1, <1>2

\* The same of the entry that a path names.
LEMMA EntryTypes ==
    ASSUME NEW t, TableOK(t), NEW p \in Path, p # Root
    PROVE  EntryIn(t, p).dev \in Dev /\ EntryIn(t, p).dir \in Seq(Name)
<1>1. PICK m \in t : EntryIn(t, p).dev = m.dev /\ EntryIn(t, p).dir \in Seq(Name)
  BY EntryPlace DEF Place
<1>2. m.dev \in Dev
  BY <1>1 DEF TableOK
<1> QED BY <1>1, <1>2

\* At boot every volume is its root and nothing is hidden.
LEMMA TreeInit == Init => TreeInv
<1> SUFFICES ASSUME Init PROVE TreeInv
  OBVIOUS
<1>1. Root \in Path
  <2>1. Root \in Seq(Name) /\ Len(Root) <= MaxPath
    BY MountsAssumption DEF MountsAssumption, Root
  <2> QED BY <2>1, PathIsSeq
<1>2. TreesOK
  BY <1>1 DEF Init, TreesOK
<1>3. displaced \in BOOLEAN
  BY Zenon DEF Init
<1>4. Covered
  BY DEF Init, Covered
<1> QED BY <1>2, <1>3, <1>4 DEF TreeInv

\* Neither the trees nor the table: what is hidden stays.
LEMMA SameTrees ==
    ASSUME TreeInv, UNCHANGED <<table, dirs, displaced>>
    PROVE  TreeInv'
  BY DEF TreeInv, TreesOK, Covered

\* A mount needs its directory to be there and no mount at or below it: the
\* one entry it hides is there, and those hidden before are still reached
\* through the same mounts.
LEMMA MountCovers ==
    ASSUME MountInv, TreeInv, NEW d \in Dev, NEW p \in Path, Mount(d, p)
    PROVE  TreeInv'
<1> DEFINE x == [point |-> p, dev |-> d]
<1>1. /\ table' = table \cup {x} /\ UNCHANGED <<dirs, displaced>>
      /\ \A m \in table : ~IsPrefix(p, m.point)
      /\ Resolve(table, p).dir \in dirs[Resolve(table, p).dev]
  BY DEF Mount, CoversAMount, IsWithin, IsDirectory
<1>2. TableOK(table) /\ TableOK(table')
  BY TableIsOK, MountStep DEF MountInv, Types, TableMatchesVolumes, TableOK
<1>3. p \in Seq(Name) /\ IsPrefix(p, p)
  <2>1. p \in Seq(Name)
    BY PathIsSeq
  <2> QED BY <2>1, PrefixOrder
<1>4. \A m \in table : m.point # p
  BY <1>1, <1>3
<1>5. p # Root /\ Resolve(table, p) = EntryIn(table, p)
  BY <1>2, <1>4, NoPointIsEntry
<1>6. ~IsPrefix(p, Front(p))
  <2>1. /\ Front(p) \in Seq(Name) /\ p \in Seq(Name) /\ p # << >>
    BY <1>5, FrontInPath
  <2>2. Len(Front(p)) = Len(p) - 1 /\ Len(p) \in Nat
    BY <2>1, FrontIs
  <2> QED BY <2>2 DEF IsPrefix
<1>7. ASSUME NEW q \in Path, q # Root, ~IsPrefix(p, q) \/ q = p
      PROVE  EntryIn(table', q) = EntryIn(table, q)
  <2>1. ~IsPrefix(p, Front(q))
    <3>1. Front(q) \in Seq(Name) /\ q \in Seq(Name) /\ q # << >>
      BY <1>7, FrontInPath
    <3>2. IsPrefix(p, Front(q)) => IsPrefix(p, q)
      BY <1>3, <3>1, PrefixOfFront
    <3> QED BY <1>6, <1>7, <3>2
  <2>2. \A m \in (table \ table') \cup (table' \ table) : m.point = p
    BY <1>1
  <2> QED BY <2>1, <2>2, SameEntry
<1>8. ASSUME ~displaced, NEW m \in table', m.point # Root
      PROVE  EntryIn(table', m.point).dir \in dirs[EntryIn(table', m.point).dev]
  <2>0. m.point \in Path
    BY <1>2, <1>8 DEF TableOK
  <2>1. CASE m = x
    <3>1. m.point = p
      BY <2>1
    <3> QED BY <1>1, <1>5, <1>7, <3>1
  <2>2. CASE m # x
    <3>1. m \in table /\ ~IsPrefix(p, m.point)
      BY <1>1, <1>8, <2>2
    <3>2. EntryIn(table', m.point) = EntryIn(table, m.point)
      BY <1>7, <1>8, <2>0, <3>1
    <3> QED BY <1>8, <3>1, <3>2 DEF TreeInv, Covered
  <2> QED BY <2>1, <2>2
<1>9. ~displaced => Covered'
  BY <1>1, <1>8 DEF Covered
<1>10. TreesOK'
  BY <1>1 DEF TreeInv, TreesOK
<1> QED BY <1>1, <1>9, <1>10 DEF TreeInv

\* An unmount needs no mount below it: the entries still hidden are reached
\* as before.
LEMMA UmountCovers ==
    ASSUME MountInv, TreeInv, NEW p \in Path, Umount(p)
    PROVE  TreeInv'
<1>1. PICK x \in table :
        /\ x.point = p /\ table' = table \ {x}
        /\ \A o \in table : o.point # p => ~IsPrefix(p, o.point)
  BY DEF Umount, IsWithin
<1>2. UNCHANGED <<dirs, displaced>>
  BY DEF Umount
<1>3. TableOK(table)
  BY TableIsOK
<1>4. p \in Seq(Name)
  BY PathIsSeq
<1>5. ASSUME ~displaced, NEW m \in table', m.point # Root
      PROVE  EntryIn(table', m.point).dir \in dirs[EntryIn(table', m.point).dev]
  <2>1. m \in table /\ m # x /\ m.point \in Path
    BY <1>1, <1>3, <1>5 DEF TableOK
  <2>2. m.point # p
    BY <1>1, <1>3, <2>1 DEF TableOK
  <2>3. ~IsPrefix(p, Front(m.point))
    <3>1. PICK q \in Path : q = m.point
      BY <2>1
    <3>2. Front(q) \in Seq(Name) /\ q \in Seq(Name) /\ q # << >>
      BY <1>5, <3>1, FrontInPath
    <3>3. IsPrefix(p, Front(q)) => IsPrefix(p, q)
      BY <1>4, <3>2, PrefixOfFront
    <3> QED BY <1>1, <2>1, <2>2, <3>1, <3>3
  <2>4. \A o \in (table \ table') \cup (table' \ table) : o.point = p
    BY <1>1
  <2>5. EntryIn(table', m.point) = EntryIn(table, m.point)
    BY <2>3, <2>4, SameEntry
  <2> QED BY <1>5, <2>1, <2>5 DEF TreeInv, Covered
<1>6. ~displaced => Covered'
  BY <1>2, <1>5 DEF Covered
<1>7. TreesOK'
  BY <1>2 DEF TreeInv, TreesOK
<1> QED BY <1>2, <1>6, <1>7 DEF TreeInv

\* The rest of a path is no longer than the path.
LEMMA ResolveInPath ==
    ASSUME NEW t, TableOK(t), NEW p \in Path
    PROVE  Resolve(t, p).dir \in Path
<1>1. PICK m \in t : /\ Resolve(t, p).dir \in Seq(Name)
                     /\ p = m.point \o Resolve(t, p).dir
  BY Spelled
<1>2. m.point \in Seq(Name)
  <2>1. m.point \in Path
    BY <1>1 DEF TableOK
  <2> QED BY <2>1, PathIsSeq
<1>3. Len(p) = Len(m.point) + Len(Resolve(t, p).dir)
  BY <1>1, <1>2, ConcatProperties
<1>4. Len(p) <= MaxPath /\ Len(p) \in Nat /\ MaxPath \in Nat
  BY PathIsSeq, MountsAssumption DEF MountsAssumption
<1>5. Len(Resolve(t, p).dir) <= MaxPath
  <2>1. PICK r \in Seq(Name), q \in Seq(Name) :
          r = Resolve(t, p).dir /\ q = m.point
    BY <1>1, <1>2
  <2>2. Len(r) \in Nat /\ Len(q) \in Nat
    BY <2>1
  <2>3. Len(p) = Len(q) + Len(r)
    BY <1>3, <2>1
  <2>4. Len(r) <= MaxPath
    BY <1>4, <2>2, <2>3
  <2> QED BY <2>1, <2>4
<1> QED BY <1>1, <1>5, PathIsSeq

\* mkdir needs the directory it adds to.
LEMMA MkdirCovers ==
    ASSUME MountInv, TreeInv, NEW p \in Path, Mkdir(p)
    PROVE  TreeInv'
<1>1. PICK at : at = Resolve(table, p)
  OBVIOUS
<1>2. TableOK(table)
  BY TableIsOK
<1>3. at.dev \in Dev /\ at.dir \in Path
  BY <1>1, <1>2, ResolveTypes, ResolveInPath
<1>4. /\ at.dir # << >> /\ Front(at.dir) \in dirs[at.dev]
      /\ dirs' = [dirs EXCEPT ![at.dev] = dirs[at.dev] \cup {at.dir}]
      /\ UNCHANGED <<table, displaced>>
  BY <1>1 DEF Mkdir, HasEntry, ParentDir
<1>5. dirs \in [Dev -> SUBSET Path]
  BY DEF TreeInv, TreesOK
<1>6. \A d \in Dev : /\ dirs'[d] \subseteq Path /\ dirs[d] \subseteq dirs'[d]
                     /\ \A x \in dirs'[d] : x \in dirs[d] \/ (d = at.dev /\ x = at.dir)
  BY <1>3, <1>4, <1>5
<1>7. dirs' \in [Dev -> SUBSET Path]
  BY <1>3, <1>4, <1>5
<1>8. TreesOK'
  BY <1>4, <1>6, <1>7 DEF TreeInv, TreesOK
<1>9. ~displaced => Covered'
  <2> SUFFICES ASSUME ~displaced, NEW m \in table, m.point # Root
               PROVE  EntryIn(table, m.point).dir \in dirs'[EntryIn(table, m.point).dev]
    BY <1>4 DEF Covered
  <2>1. EntryIn(table, m.point).dir \in dirs[EntryIn(table, m.point).dev]
    BY DEF TreeInv, Covered
  <2>2. EntryIn(table, m.point).dev \in Dev
    BY <1>2, EntryTypes DEF TableOK
  <2> QED BY <1>6, <2>1, <2>2
<1> QED BY <1>4, <1>8, <1>9 DEF TreeInv

\* What an operation reaches at a path that is no mount point is not hidden
\* by one.
LEMMA NotHidden ==
    ASSUME TableOK(table), NEW m \in table, m.point # Root, NEW p \in Path,
           \A o \in table : o.point # p,
           EntryIn(table, m.point).dev = Resolve(table, p).dev
    PROVE  EntryIn(table, m.point).dir # Resolve(table, p).dir
<1>1. m.point \in Path
  BY DEF TableOK
<1>2. PICK q \in Path : q = m.point
  BY <1>1
<1>3. Place(table, q, EntryIn(table, q)) /\ Place(table, p, Resolve(table, p))
  BY <1>2, EntryPlace, ResolvePlace
<1>4. EntryIn(table, q).dir # Resolve(table, p).dir
  <2> SUFFICES ASSUME EntryIn(table, q).dir = Resolve(table, p).dir PROVE FALSE
    OBVIOUS
  <2>1. q = p
    BY <1>2, <1>3, PlacesSame
  <2> QED BY <1>2, <2>1
<1> QED BY <1>2, <1>4

\* A path that has an entry and is not refused is no mount point.
LEMMA EntryNoPoint ==
    ASSUME TableOK(table), NEW p \in Path, p = Root \/ ~IsMountPoint(p),
           Resolve(table, p).dir # << >>
    PROVE  \A o \in table : o.point # p
<1> SUFFICES ASSUME NEW o \in table, o.point = p PROVE FALSE
  OBVIOUS
<1>1. Resolve(table, o.point) = [dev |-> o.dev, dir |-> << >>]
  BY PointIsRoot
<1>2. Resolve(table, p).dir = << >>
  BY <1>1
<1> QED BY <1>2

\* rmdir takes an empty directory that no mount hides.
LEMMA RmdirCovers ==
    ASSUME MountInv, TreeInv, NEW p \in Path, Rmdir(p)
    PROVE  TreeInv'
<1>1. PICK at : at = Resolve(table, p)
  OBVIOUS
<1>2. TableOK(table)
  BY TableIsOK
<1>3. at.dev \in Dev /\ at.dir \in Path
  BY <1>1, <1>2, ResolveTypes, ResolveInPath
<1>4. /\ p = Root \/ ~IsMountPoint(p)
      /\ at.dir # << >> /\ at.dir \in dirs[at.dev] /\ IsEmptyDir(at)
      /\ dirs' = [dirs EXCEPT ![at.dev] = dirs[at.dev] \ {at.dir}]
      /\ UNCHANGED <<table, displaced>>
  BY <1>1 DEF Rmdir, HasEntry
<1>5. dirs \in [Dev -> SUBSET Path]
  BY DEF TreeInv, TreesOK
<1>6. \A d \in Dev : dirs'[d] = IF d = at.dev THEN dirs[d] \ {at.dir} ELSE dirs[d]
  BY <1>3, <1>4, <1>5
<1>7. dirs' \in [Dev -> SUBSET Path]
  BY <1>3, <1>4, <1>5
<1>8. ASSUME NEW x \in dirs[at.dev], x # Root PROVE Front(x) # at.dir
  <2>1. x \in Seq(Name) /\ x # << >> /\ at.dir \in Seq(Name)
    BY <1>3, <1>5, <1>8, PathIsSeq DEF Root
  <2>2. Front(x) \in Seq(Name) /\ Len(Front(x)) = Len(x) - 1 /\ Len(x) \in Nat
    BY <2>1, FrontIs
  <2> SUFFICES ASSUME Front(x) = at.dir PROVE FALSE
    OBVIOUS
  <2>3. IsPrefix(Front(x), Front(x))
    BY <2>2, PrefixOrder
  <2>4. IsPrefix(Front(x), x)
    BY <2>1, <2>2, <2>3, PrefixOfFront
  <2>5. x = Front(x)
    BY <1>4, <2>4 DEF IsEmptyDir
  <2> QED BY <2>2, <2>5
<1>9. TreesOK'
  <2>1. ASSUME NEW d \in Dev PROVE Root \in dirs'[d]
    BY <1>4, <1>6 DEF TreeInv, TreesOK, Root
  <2>2. ASSUME NEW d \in Dev, NEW x \in dirs'[d], x # Root PROVE Front(x) \in dirs'[d]
    <3>1. x \in dirs[d] /\ Front(x) \in dirs[d]
      BY <1>6, <2>2 DEF TreeInv, TreesOK
    <3> QED BY <1>6, <1>8, <2>2, <3>1
  <2> QED BY <1>7, <2>1, <2>2 DEF TreesOK
<1>10. ~displaced => Covered'
  <2> SUFFICES ASSUME ~displaced, NEW m \in table, m.point # Root
               PROVE  EntryIn(table, m.point).dir \in dirs'[EntryIn(table, m.point).dev]
    BY <1>4 DEF Covered
  <2>1. EntryIn(table, m.point).dir \in dirs[EntryIn(table, m.point).dev]
    BY DEF TreeInv, Covered
  <2>2. EntryIn(table, m.point).dev \in Dev
    BY <1>2, EntryTypes DEF TableOK
  <2>3. \A o \in table : o.point # p
    BY <1>1, <1>2, <1>4, EntryNoPoint
  <2>4. EntryIn(table, m.point).dev = at.dev => EntryIn(table, m.point).dir # at.dir
    BY <1>1, <1>2, <2>3, NotHidden
  <2> QED BY <1>6, <2>1, <2>2, <2>4
<1> QED BY <1>4, <1>9, <1>10 DEF TreeInv

\* The front of an appended sequence, and of one joined to another.
LEMMA FrontOfAppend ==
    ASSUME NEW c \in Seq(Name), NEW x \in Name
    PROVE  Front(Append(c, x)) = c
<1> DEFINE a == Append(c, x)
<1>1. /\ a \in Seq(Name) /\ Len(a) = Len(c) + 1
      /\ \A i \in 1 .. Len(c) : a[i] = c[i]
  BY AppendProperties
<1>2. Len(c) \in Nat
  OBVIOUS
<1> HIDE DEF a
<1>3. a # << >> /\ Len(a) - 1 = Len(c)
  BY <1>1, <1>2
<1>4. /\ Front(a) \in Seq(Name) /\ Len(Front(a)) = Len(a) - 1
      /\ \A i \in 1 .. Len(a) - 1 : Front(a)[i] = a[i]
  BY <1>1, <1>3, FrontIs
<1> DEFINE f == Front(a)
<1>5. f \in Seq(Name) /\ Len(f) = Len(c) /\ \A i \in 1 .. Len(c) : f[i] = c[i]
  BY <1>1, <1>3, <1>4
<1> HIDE DEF f
<1>6. f = c
  BY <1>5, SeqEqual
<1> QED BY <1>6 DEF f, a

\* The front of a joined path is the first part joined to the front of the
\* second.
LEMMA FrontOfJoined ==
    ASSUME NEW s \in Seq(Name), NEW r \in Seq(Name), r # << >>
    PROVE  Front(s \o r) = s \o Front(r) /\ Front(r) \in Seq(Name)
<1>1. PICK f \in Seq(Name), x \in Name : f = Front(r) /\ r = Append(f, x)
  BY FrontIs
<1>2. Append(s \o f, x) = s \o Append(f, x)
  BY AppendJoined
<1>3. s \o f \in Seq(Name)
  BY <1>1
<1>4. PICK c \in Seq(Name) : c = s \o f
  BY <1>3
<1>5. Front(Append(c, x)) = c
  BY FrontOfAppend
<1> QED BY <1>1, <1>2, <1>4, <1>5

\* What comes after the first part of a joined path is the second.
LEMMA RestOfJoined ==
    ASSUME NEW s \in Seq(Name), NEW r \in Seq(Name)
    PROVE  SubSeq(s \o r, Len(s) + 1, Len(s \o r)) = r
<1> DEFINE c == s \o r
<1>1. /\ c \in Seq(Name) /\ Len(c) = Len(s) + Len(r)
      /\ \A i \in 1 .. Len(s) + Len(r) :
            c[i] = IF i <= Len(s) THEN s[i] ELSE r[i - Len(s)]
  BY ConcatProperties
<1>2. PICK k \in Nat, l \in Nat : k = Len(s) /\ l = Len(r)
  OBVIOUS
<1> HIDE DEF c
<1> DEFINE u == SubSeq(c, k + 1, k + l)
<1>3. /\ u \in Seq(Name) /\ Len(u) = l
      /\ \A i \in 1 .. l : u[i] = c[k + i]
  BY <1>1, <1>2
<1> HIDE DEF u
<1>4. \A i \in 1 .. l : u[i] = r[i]
  <2> TAKE i \in 1 .. l
  <2>1. k + i \in 1 .. k + l /\ ~(k + i <= k) /\ (k + i) - k = i
    OBVIOUS
  <2>2. c[k + i] = r[i]
    BY <1>1, <1>2, <2>1
  <2> QED BY <1>3, <2>2
<1>5. u = r
  BY <1>2, <1>3, <1>4, SeqEqual
<1> QED BY <1>1, <1>2, <1>5 DEF u, c

\* A set of paths that holds the directory of each.
Closed(ds) ==
    Root \in ds /\ \A x \in ds : x # Root => Front(x) \in ds

\* Moving a subtree under a directory that stays leaves a tree: what does
\* not move keeps its directory, what moves takes its directory along.
LEMMA MovedClosed ==
    ASSUME NEW ds \in SUBSET Seq(Name), Closed(ds),
           NEW from \in Seq(Name), from # << >>,
           NEW to \in Seq(Name), to # << >>, Front(to) \in ds,
           ~IsPrefix(from, Front(to))
    PROVE  Moved(ds, from, to) \in SUBSET Seq(Name) /\ Closed(Moved(ds, from, to))
<1> DEFINE M == Moved(ds, from, to)
           After(d) == SubSeq(d, Len(from) + 1, Len(d))
<1>1. ASSUME NEW d \in ds, ~IsPrefix(from, d) PROVE d \in M
  BY <1>1 DEF Moved
<1>2. ASSUME NEW d \in ds, IsPrefix(from, d) PROVE to \o After(d) \in M
  BY <1>2 DEF Moved
<1>3. ASSUME NEW y \in M
      PROVE  \/ y \in ds /\ ~IsPrefix(from, y)
             \/ \E d \in ds : IsPrefix(from, d) /\ y = to \o After(d)
  BY <1>3 DEF Moved
<1> HIDE DEF M
<1>4. ASSUME NEW d \in ds, ~IsPrefix(from, d) PROVE d # Root => Front(d) \in M
  <2>1. d \in Seq(Name)
    OBVIOUS
  <2> SUFFICES ASSUME d # Root PROVE Front(d) \in M
    OBVIOUS
  <2>2. Front(d) \in ds /\ d # << >>
    BY DEF Closed, Root
  <2>3. ~IsPrefix(from, Front(d))
    BY <1>4, <2>1, <2>2, PrefixOfFront
  <2> QED BY <1>1, <2>2, <2>3
<1>5. ASSUME NEW d \in ds, IsPrefix(from, d)
      PROVE  to \o After(d) \in Seq(Name) /\ Front(to \o After(d)) \in M
  <2>1. d \in Seq(Name)
    OBVIOUS
  <2>2. After(d) \in Seq(Name) /\ d = from \o After(d)
    BY <1>5, <2>1, PrefixSplit
  <2>3. PICK s \in Seq(Name) : s = After(d)
    BY <2>2
  <2>4. to \o s \in Seq(Name)
    OBVIOUS
  <2>5. CASE s = << >>
    <3>1. to \o s = to
      BY <2>5
    <3> QED BY <1>1, <2>3, <2>4, <3>1
  <2>6. CASE s # << >>
    <3>1. PICK r \in Seq(Name) : r = Front(s)
      BY <2>6, FrontOfJoined
    <3>2. Front(from \o s) = from \o r /\ Front(to \o s) = to \o r
      BY <2>6, <3>1, FrontOfJoined
    <3>3. d # Root
      <4>1. Len(from) # 0 /\ Len(from) \in Nat /\ Len(s) \in Nat
        OBVIOUS
      <4>2. Len(from \o s) = Len(from) + Len(s)
        BY ConcatProperties
      <4>3. Len(d) # 0
        BY <2>2, <2>3, <4>1, <4>2
      <4> QED BY <4>3 DEF Root
    <3>4. PICK e \in ds : e = from \o r
      BY <2>2, <2>3, <3>2, <3>3 DEF Closed
    <3>5. IsPrefix(from, e)
      BY <3>4, PrefixOfJoined
    <3>6. After(e) = r
      BY <3>4, RestOfJoined
    <3>7. to \o r \in M
      BY <1>2, <3>5, <3>6
    <3> QED BY <2>3, <2>4, <3>2, <3>7
  <2> QED BY <2>5, <2>6
<1>6. M \in SUBSET Seq(Name)
  <2> SUFFICES ASSUME NEW y \in M PROVE y \in Seq(Name)
    OBVIOUS
  <2>1. CASE y \in ds
    BY <2>1
  <2>2. CASE \E d \in ds : IsPrefix(from, d) /\ y = to \o After(d)
    BY <1>5, <2>2
  <2> QED BY <1>3, <2>1, <2>2
<1>7. Root \in M
  <2>1. Root \in ds
    BY DEF Closed
  <2>2. ~IsPrefix(from, Root)
    <3>1. Root \in Seq(Name) /\ Len(Root) = 0
      BY DEF Root
    <3>2. Len(from) # 0 /\ Len(from) \in Nat
      OBVIOUS
    <3>3. IsPrefix(from, Root) => Len(from) <= Len(Root)
      BY <3>1, AtPrefix
    <3> QED BY <3>1, <3>2, <3>3
  <2> QED BY <1>1, <2>1, <2>2
<1>8. ASSUME NEW y \in M, y # Root PROVE Front(y) \in M
  <2>1. CASE y \in ds /\ ~IsPrefix(from, y)
    BY <1>4, <1>8, <2>1
  <2>2. CASE \E d \in ds : IsPrefix(from, d) /\ y = to \o After(d)
    BY <1>5, <2>2
  <2> QED BY <1>3, <2>1, <2>2
<1>9. Closed(M)
  BY <1>7, <1>8 DEF Closed
<1> QED BY <1>6, <1>9 DEF M

\* Without a directory that is not there or has none in it, closed all the
\* same.
LEMMA WithoutClosed ==
    ASSUME NEW ds \in SUBSET Seq(Name), Closed(ds), NEW x \in Seq(Name), x # << >>,
           x \in ds => \A d \in ds : IsPrefix(x, d) => d = x
    PROVE  Closed(ds \ {x})
<1>1. Root \in ds \ {x}
  BY DEF Closed, Root
<1>2. ASSUME NEW y \in ds, y # Root PROVE Front(y) \in ds /\ Front(y) # x
  <2>1. Front(y) \in ds
    BY <1>2 DEF Closed
  <2>2. y \in Seq(Name) /\ y # << >>
    BY <1>2 DEF Root
  <2>3. Front(y) \in Seq(Name) /\ Len(Front(y)) = Len(y) - 1 /\ Len(y) \in Nat
    BY <2>2, FrontIs
  <2> SUFFICES ASSUME Front(y) = x PROVE FALSE
    BY <2>1
  <2>4. IsPrefix(x, Front(y))
    BY <2>3, PrefixOrder
  <2>5. IsPrefix(x, y)
    BY <2>2, <2>4, PrefixOfFront
  <2>6. y = x
    BY <2>1, <2>5
  <2> QED BY <2>3, <2>6
<1> QED BY <1>1, <1>2 DEF Closed

\* rename takes an empty directory from the destination, and the subtree
\* goes to a directory outside of it or nowhere; what is hidden is neither,
\* unless a mount point is below the old path.
LEMMA RenameCovers ==
    ASSUME MountInv, TreeInv, NEW p \in Path, NEW q \in Path, Rename(p, q)
    PROVE  TreeInv'
<1>1. PICK from, to, rest : /\ from = Resolve(table, p) /\ to = Resolve(table, q)
                            /\ rest = dirs[from.dev] \ {to.dir}
  OBVIOUS
<1>2. TableOK(table)
  BY TableIsOK
<1>3. from.dev \in Dev /\ from.dir \in Seq(Name) /\ to.dir \in Seq(Name)
  BY <1>1, <1>2, ResolveTypes
<1>4. /\ q = Root \/ ~IsMountPoint(q)
      /\ from.dir # << >> /\ to.dir # << >>
      /\ Front(to.dir) \in dirs[to.dev] /\ from.dev = to.dev
      /\ ~IsPrefix(p, q)
      /\ to.dir \in dirs[to.dev] => IsEmptyDir(to)
      /\ \/ dirs' = [dirs EXCEPT ![from.dev] = Moved(rest, from.dir, to.dir)]
         \/ dirs' = [dirs EXCEPT ![from.dev] = rest]
      /\ \A d \in dirs'[from.dev] : Len(d) <= MaxPath
      /\ displaced' = (displaced \/ \E m \in table : IsWithin(p, m.point))
      /\ table' = table
  BY <1>1 DEF Rename, HasEntry, ParentDir
<1>5. /\ dirs \in [Dev -> SUBSET Path]
      /\ \A d \in Dev : dirs[d] \in SUBSET Seq(Name) /\ Closed(dirs[d])
  BY PathIsSeq DEF TreeInv, TreesOK, Closed
<1>6. rest \in SUBSET Seq(Name) /\ Closed(rest)
  <2>1. to.dir \in dirs[from.dev] =>
            \A d \in dirs[from.dev] : IsPrefix(to.dir, d) => d = to.dir
    BY <1>4 DEF IsEmptyDir
  <2>2. PICK ds \in SUBSET Seq(Name) : ds = dirs[from.dev] /\ Closed(ds)
    BY <1>3, <1>5
  <2>3. PICK x \in Seq(Name) : x = to.dir
    BY <1>3
  <2>4. Closed(ds \ {x})
    BY <1>4, <2>1, <2>2, <2>3, WithoutClosed
  <2> QED BY <1>1, <2>2, <2>3, <2>4
<1>7. ~IsPrefix(from.dir, to.dir) /\ ~IsPrefix(from.dir, Front(to.dir))
  <2>1. Place(table, p, from) /\ Place(table, q, to)
    BY <1>1, <1>2, ResolvePlace
  <2>2. ~IsPrefix(from.dir, to.dir)
    BY <1>2, <1>4, <2>1, PlacesWithin
  <2> QED BY <1>3, <1>4, <2>2, PrefixOfFront
<1>8. Front(to.dir) \in rest
  <2>1. Front(to.dir) # to.dir
    <3>1. Len(Front(to.dir)) = Len(to.dir) - 1 /\ Len(to.dir) \in Nat
      BY <1>3, <1>4, FrontIs
    <3> QED BY <3>1
  <2> QED BY <1>1, <1>4, <2>1
<1>9. /\ Moved(rest, from.dir, to.dir) \in SUBSET Seq(Name)
      /\ Closed(Moved(rest, from.dir, to.dir))
  <2>1. PICK r \in SUBSET Seq(Name) : r = rest
    BY <1>6
  <2>2. PICK x \in Seq(Name), y \in Seq(Name) : x = from.dir /\ y = to.dir
    BY <1>3
  <2> QED BY <1>4, <1>6, <1>7, <1>8, <2>1, <2>2, MovedClosed
<1>10. PICK new \in SUBSET Seq(Name) :
          /\ new = Moved(rest, from.dir, to.dir) \/ new = rest
          /\ Closed(new)
          /\ dirs' = [dirs EXCEPT ![from.dev] = new]
  BY <1>4, <1>6, <1>9
<1>11. dirs'[from.dev] = new
  BY <1>3, <1>5, <1>10
<1>12. new \in SUBSET Path
  BY <1>4, <1>11, PathIsSeq
<1>13. dirs' \in [Dev -> SUBSET Path]
  BY <1>3, <1>5, <1>10, <1>12
<1>14. \A d \in Dev : dirs'[d] = IF d = from.dev THEN new ELSE dirs[d]
  BY <1>3, <1>5, <1>10
<1>15. TreesOK'
  BY <1>5, <1>10, <1>13, <1>14 DEF TreesOK, Closed
<1>16. displaced' \in BOOLEAN
  BY <1>4
<1>17. ASSUME ~displaced' PROVE Covered'
  <2> SUFFICES ASSUME NEW m \in table, m.point # Root
               PROVE  EntryIn(table, m.point).dir \in dirs'[EntryIn(table, m.point).dev]
    BY <1>4 DEF Covered
  <2>1. ~displaced /\ ~IsPrefix(p, m.point)
    BY <1>4, <1>17 DEF IsWithin
  <2>2. PICK h : h = EntryIn(table, m.point)
    OBVIOUS
  <2>3. PICK s \in Path : s = m.point /\ s # Root
    BY <1>2 DEF TableOK
  <2>4. h.dir \in dirs[h.dev] /\ h.dev \in Dev
    BY <1>2, <2>1, <2>2, <2>3, EntryTypes DEF TreeInv, Covered
  <2>5. ASSUME h.dev = from.dev PROVE h.dir \in new
    <3>1. \A o \in table : o.point # q
      BY <1>1, <1>2, <1>4, EntryNoPoint
    <3>2. h.dir # to.dir
      BY <1>1, <1>2, <1>4, <2>2, <2>5, <3>1, NotHidden
    <3>3. h.dir \in rest
      BY <1>1, <2>4, <2>5, <3>2
    <3>4. ~IsPrefix(from.dir, h.dir)
      <4>1. Place(table, p, from) /\ Place(table, s, h)
        BY <1>1, <1>2, <2>2, <2>3, ResolvePlace, EntryPlace
      <4> QED BY <1>2, <2>1, <2>3, <2>5, <4>1, PlacesWithin
    <3>5. h.dir \in Moved(rest, from.dir, to.dir)
      BY <3>3, <3>4 DEF Moved
    <3> QED BY <1>10, <3>3, <3>5
  <2> QED BY <1>14, <2>2, <2>4, <2>5
<1> QED BY <1>15, <1>16, <1>17, Zenon DEF TreeInv

\* Every step keeps the trees closed and the mount points' entries in them.
LEMMA TreeStep == MountInv /\ TreeInv /\ [Next]_vars => TreeInv'
<1> SUFFICES ASSUME MountInv, TreeInv, [Next]_vars PROVE TreeInv'
  OBVIOUS
<1>1. ASSUME NEW p \in Path, NEW d \in Dev, Mount(d, p) PROVE TreeInv'
  BY <1>1, MountCovers
<1>2. ASSUME NEW p \in Path, Umount(p) PROVE TreeInv'
  BY <1>2, UmountCovers
<1>3. ASSUME NEW p \in Path, Mkdir(p) PROVE TreeInv'
  BY <1>3, MkdirCovers
<1>4. ASSUME NEW p \in Path, Rmdir(p) PROVE TreeInv'
  BY <1>4, RmdirCovers
<1>5. ASSUME NEW p \in Path, NEW q \in Path, Rename(p, q) PROVE TreeInv'
  BY <1>5, RenameCovers
<1>6. ASSUME NEW p \in Path, Chdir(p) PROVE TreeInv'
  BY <1>6, SameTrees DEF Chdir
<1>7. ASSUME NEW p \in Path, NEW f \in File, Open(f, p) PROVE TreeInv'
  <2>1. UNCHANGED <<table, dirs, displaced>>
    BY <1>7 DEF Open
  <2> QED BY <2>1, SameTrees
<1>8. CASE PushFrame
  BY <1>8, SameTrees DEF PushFrame
<1>9. CASE PopFrame
  BY <1>9, SameTrees DEF PopFrame
<1>10. ASSUME NEW f \in File, Close(f) PROVE TreeInv'
  <2>1. UNCHANGED <<table, dirs, displaced>>
    BY <1>10 DEF Close
  <2> QED BY <2>1, SameTrees
<1>11. CASE UNCHANGED vars
  BY <1>11, SameTrees DEF vars
<1> QED BY <1>1, <1>2, <1>3, <1>4, <1>5, <1>6, <1>7, <1>8, <1>9, <1>10, <1>11 DEF Next

\* What the table says of a path: where it is, if there is such a directory.
Found(p) ==
    IF Resolve(table, p).dir \in dirs[Resolve(table, p).dev]
    THEN Resolve(table, p) ELSE Nowhere

\* A mount point hides the entry of one path only: its own.
LEMMA HidesOne ==
    ASSUME TableOK(table), NEW m \in table, m.point # Root,
           NEW p \in Path, p # Root, HiddenAt(m) = EntryIn(table, p)
    PROVE  m.point = p
<1>1. PICK q \in Path : q = m.point
  BY DEF TableOK
<1>2. EntryIn(table, q) = EntryIn(table, p)
  BY <1>1, HiddenIsEntry
<1>3. Place(table, q, EntryIn(table, q)) /\ Place(table, p, EntryIn(table, p))
  BY <1>1, EntryPlace
<1>4. q = p
  BY <1>2, <1>3, PlacesSame
<1> QED BY <1>1, <1>4

\* One step down from what the table finds for a directory is what it finds
\* for the entry: at a mount point that is hidden there and nowhere else,
\* and elsewhere the entry itself.
LEMMA DownFinds ==
    ASSUME TableOK(table), TreesOK, Covered, NEW p \in Path, p # Root
    PROVE  Down(Found(Front(p)), p[Len(p)]) = Found(p)
<1>1. PICK f \in Path, n \in Name : f = Front(p) /\ n = p[Len(p)]
  BY FrontInPath
<1>2. PICK r : r = Resolve(table, f)
  OBVIOUS
<1>3. r.dev \in Dev /\ r.dir \in Seq(Name) /\ r = [dev |-> r.dev, dir |-> r.dir]
  BY <1>2, ResolveTypes, ResolveRecord
<1>4. PICK e : e = [dev |-> r.dev, dir |-> Append(r.dir, n)]
  OBVIOUS
<1>5. EntryIn(table, p) = e
  BY <1>1, <1>2, <1>4 DEF EntryIn
<1>6. r # Nowhere /\ e # Nowhere
  BY <1>3, <1>4, MountsAssumption DEF MountsAssumption, Nowhere
<1>7. e.dir \in dirs[r.dev] => r.dir \in dirs[r.dev]
  <2>1. PICK c \in Seq(Name) : c = r.dir
    BY <1>3
  <2>2. Front(Append(c, n)) = c
    BY FrontOfAppend
  <2>3. Append(c, n) # Root
    <3>1. Len(Append(c, n)) = Len(c) + 1 /\ Len(c) \in Nat
      BY AppendProperties
    <3> QED BY <3>1 DEF Root
  <2> QED BY <1>3, <1>4, <2>1, <2>2, <2>3 DEF TreesOK
<1>8. CASE \E m \in table : m.point = p
  <2>1. PICK m \in table : m.point = p
    BY <1>8
  <2>2. e.dir \in dirs[r.dev]
    <3>1. EntryIn(table, m.point) = e /\ m.point # Root /\ e.dev = r.dev
      BY <1>4, <1>5, <2>1
    <3> QED BY <3>1 DEF Covered
  <2>3. Found(f) = r
    BY <1>2, <1>7, <2>2 DEF Found
  <2>4. {o \in table : o.point # Root /\ HiddenAt(o) = e} = {m}
    <3>1. HiddenAt(m) = e
      BY <1>5, <2>1, HiddenIsEntry
    <3>2. ASSUME NEW o \in table, o.point # Root, HiddenAt(o) = e PROVE o = m
      <4>1. o.point = p
        BY <1>5, <3>2, HidesOne
      <4> QED BY <2>1, <4>1 DEF TableOK
    <3> QED BY <2>1, <3>1, <3>2
  <2>5. Down(r, n) = [dev |-> m.dev, dir |-> << >>]
    BY <1>4, <1>6, <2>2, <2>4 DEF Down
  <2>6. Resolve(table, p) = [dev |-> m.dev, dir |-> << >>]
    BY <2>1, PointIsRoot
  <2>7. << >> \in dirs[m.dev]
    <3>1. m.dev \in Dev
      BY <2>1 DEF TableOK
    <3> QED BY <3>1 DEF TreesOK, Root
  <2>8. Found(p) = [dev |-> m.dev, dir |-> << >>]
    BY <2>6, <2>7 DEF Found
  <2> QED BY <1>1, <2>3, <2>5, <2>8
<1>9. CASE \A m \in table : m.point # p
  <2>1. Resolve(table, p) = e
    BY <1>5, <1>9, NoPointIsEntry
  <2>2. {o \in table : o.point # Root /\ HiddenAt(o) = e} = {}
    <3>1. ASSUME NEW o \in table, o.point # Root, HiddenAt(o) = e PROVE FALSE
      <4>1. o.point = p
        BY <1>5, <3>1, HidesOne
      <4> QED BY <1>9, <4>1
    <3> QED BY <3>1
  <2>3. Found(p) = IF e.dir \in dirs[r.dev] THEN e ELSE Nowhere
    BY <1>4, <2>1 DEF Found
  <2>4. CASE r.dir \in dirs[r.dev]
    <3>1. Found(f) = r
      BY <1>2, <2>4 DEF Found
    <3>2. Down(r, n) = IF e.dir \in dirs[r.dev] THEN e ELSE Nowhere
      BY <1>4, <1>6, <2>2 DEF Down
    <3> QED BY <1>1, <2>3, <3>1, <3>2
  <2>5. CASE r.dir \notin dirs[r.dev]
    <3>1. Found(f) = Nowhere
      BY <1>2, <2>5 DEF Found
    <3>2. Down(Nowhere, n) = Nowhere
      BY DEF Down
    <3>3. Found(p) = Nowhere
      BY <1>7, <2>3, <2>5
    <3> QED BY <1>1, <3>1, <3>2, <3>3
  <2> QED BY <2>4, <2>5
<1> QED BY <1>8, <1>9

\* The walk starts at the root volume's root, which is there.
LEMMA FoundRoot ==
    ASSUME TableOK(table), TreesOK
    PROVE  Found(Root) = [dev |-> RootDev, dir |-> << >>]
<1>1. PICK m \in table : m = [point |-> Root, dev |-> RootDev]
  BY DEF TableOK
<1>2. Resolve(table, m.point) = [dev |-> m.dev, dir |-> << >>]
  BY PointIsRoot
<1>3. Resolve(table, Root) = [dev |-> RootDev, dir |-> << >>]
  BY <1>1, <1>2
<1>4. << >> \in dirs[RootDev]
  BY MountsAssumption DEF MountsAssumption, TreesOK, Root
<1> QED BY <1>3, <1>4 DEF Found

\* The first n components of a path, and the front of those.
LEMMA FirstOf ==
    ASSUME NEW p \in Path, NEW n \in 1 .. Len(p)
    PROVE  /\ SubSeq(p, 1, n) \in Path /\ SubSeq(p, 1, n) # Root
           /\ Front(SubSeq(p, 1, n)) = SubSeq(p, 1, n - 1)
           /\ SubSeq(p, 1, n)[Len(SubSeq(p, 1, n))] = p[n]
<1>1. p \in Seq(Name) /\ Len(p) <= MaxPath /\ MaxPath \in Nat
  BY PathIsSeq, MountsAssumption DEF MountsAssumption
<1>2. n \in Nat /\ n >= 1 /\ n <= Len(p) /\ n - 1 \in Nat /\ n - 1 <= Len(p)
      /\ Len(p) \in Nat
  BY <1>1
<1> DEFINE q == SubSeq(p, 1, n)
           r == SubSeq(p, 1, n - 1)
<1>3. /\ q \in Seq(Name) /\ Len(q) = n
      /\ \A i \in 1 .. n : q[i] = p[i]
  BY <1>1, <1>2
<1>4. /\ r \in Seq(Name) /\ Len(r) = n - 1
      /\ \A i \in 1 .. n - 1 : r[i] = p[i]
  BY <1>1, <1>2
<1> HIDE DEF q, r
<1>5. Len(q) <= MaxPath
  BY <1>1, <1>2, <1>3
<1>6. q \in Path
  BY <1>3, <1>5, PathIsSeq
<1>7. q # << >>
  BY <1>2, <1>3
<1> DEFINE f == Front(q)
<1>8. f \in Seq(Name) /\ Len(f) = n - 1 /\ \A i \in 1 .. n - 1 : f[i] = q[i]
  BY <1>3, <1>7, FrontIs
<1> HIDE DEF f
<1>9. \A i \in 1 .. n - 1 : f[i] = r[i]
  <2> TAKE i \in 1 .. n - 1
  <2>1. i \in 1 .. n
    BY <1>2
  <2> QED BY <1>3, <1>4, <1>8, <2>1
<1>10. f = r
  BY <1>4, <1>8, <1>9, SeqEqual
<1>11. q[Len(q)] = p[n]
  BY <1>2, <1>3
<1> QED BY <1>6, <1>7, <1>10, <1>11 DEF f, q, r, Root

(***************************************************************************)
(* The walk is a recursive function: what the table finds for the path's   *)
(* first components satisfies its equation, so there is such a function,   *)
(* and any other agrees with it -- the first step where they would differ  *)
(* comes from a step where they do not.                                    *)
(***************************************************************************)
LEMMA WalkFinds ==
    ASSUME TableOK(table), TreesOK, Covered, NEW p \in Path
    PROVE  Walk(p) = Found(p)
<1> DEFINE S == [dev |-> RootDev, dir |-> << >>]
           g == [n \in 0 .. Len(p) |-> Found(SubSeq(p, 1, n))]
           at == CHOOSE f : f = [n \in 0 .. Len(p) |->
                                    IF n = 0 THEN [dev |-> RootDev, dir |-> << >>]
                                    ELSE Down(f[n - 1], p[n])]
<1>1. p \in Seq(Name) /\ Len(p) \in Nat /\ SubSeq(p, 1, 0) = Root
      /\ SubSeq(p, 1, Len(p)) = p
  <2>1. p \in Seq(Name)
    BY PathIsSeq
  <2> QED BY <2>1 DEF Root
<1>2. ASSUME NEW n \in 0 .. Len(p)
      PROVE  g[n] = IF n = 0 THEN S ELSE Down(g[n - 1], p[n])
  <2>1. CASE n = 0
    <3>1. g[0] = Found(SubSeq(p, 1, 0))
      BY <1>1
    <3>2. g[0] = S
      BY <1>1, <3>1, FoundRoot
    <3> QED BY <2>1, <3>2
  <2>2. CASE n # 0
    <3>1. n \in 1 .. Len(p) /\ n - 1 \in 0 .. Len(p)
      BY <1>1, <2>2
    <3>2. PICK q \in Path : q = SubSeq(p, 1, n) /\ q # Root
      BY <3>1, FirstOf
    <3>3. Front(q) = SubSeq(p, 1, n - 1) /\ q[Len(q)] = p[n]
      BY <3>1, <3>2, FirstOf
    <3>4. Down(Found(Front(q)), q[Len(q)]) = Found(q)
      BY <3>2, DownFinds
    <3>5. g[n] = Found(q) /\ g[n - 1] = Found(SubSeq(p, 1, n - 1))
      BY <3>1, <3>2
    <3>6. g[n] = Down(g[n - 1], p[n])
      BY <3>3, <3>4, <3>5
    <3> HIDE DEF g
    <3> QED BY <2>2, <3>6
  <2> QED BY <2>1, <2>2
<1>3. g[Len(p)] = Found(p)
  <2>0. Len(p) \in 0 .. Len(p)
    BY <1>1
  <2>1. PICK n \in 0 .. Len(p) : n = Len(p)
    BY <2>0, Zenon
  <2>2. g[n] = Found(SubSeq(p, 1, n))
    OBVIOUS
  <2> QED BY <1>1, <2>1, <2>2
<1>4. \E h : h = [n \in 0 .. Len(p) |-> IF n = 0 THEN S ELSE Down(h[n - 1], p[n])]
  <2>1. PICK h : h = g
    OBVIOUS
  <2>2. DOMAIN h = 0 .. Len(p) /\ h = [n \in 0 .. Len(p) |-> h[n]]
    BY <2>1
  <2>3. \A n \in 0 .. Len(p) : h[n] = IF n = 0 THEN S ELSE Down(h[n - 1], p[n])
    BY <1>2, <2>1
  <2> HIDE DEF g
  <2>4. h = [n \in 0 .. Len(p) |-> IF n = 0 THEN S ELSE Down(h[n - 1], p[n])]
    BY <2>2, <2>3
  <2> QED BY <2>4
<1>5. Walk(p) = at[Len(p)]
  BY DEF Walk
<1>6. at = [n \in 0 .. Len(p) |-> IF n = 0 THEN S ELSE Down(at[n - 1], p[n])]
  BY <1>4, Zenon
<1> HIDE DEF at, g
<1>7. ASSUME NEW n \in 0 .. Len(p)
      PROVE  at[n] = IF n = 0 THEN S ELSE Down(at[n - 1], p[n])
  BY <1>6, Zenon
<1> HIDE DEF S
<1> DEFINE Differ == {n \in 0 .. Len(p) : at[n] # g[n]}
<1>8. CASE Differ # {}
  <2>1. Differ \subseteq Nat
    OBVIOUS
  <2>2. PICK k \in Differ : \A j \in Differ : ~(<<j, k>> \in OpToRel(<, Nat))
    BY <1>8, <2>1, WFMin, NatLessThanWellFounded
  <2>3. k \in 0 .. Len(p) /\ at[k] # g[k]
    BY <2>2
  <2>4. \A j \in Differ : ~(j < k)
    BY <2>1, <2>2 DEF OpToRel
  <2>5. CASE k = 0
    BY <1>2, <1>7, <2>3, <2>5
  <2>6. CASE k # 0
    <3>1. k - 1 \in 0 .. Len(p) /\ k - 1 < k
      BY <1>1, <2>3, <2>6
    <3>2. at[k - 1] = g[k - 1]
      BY <2>4, <3>1
    <3>3. at[k] = Down(at[k - 1], p[k]) /\ g[k] = Down(g[k - 1], p[k])
      BY <1>2, <1>7, <2>3, <2>6
    <3> QED BY <2>3, <3>2, <3>3
  <2> QED BY <2>5, <2>6
<1>9. CASE Differ = {}
  <2>1. Len(p) \in 0 .. Len(p)
    BY <1>1
  <2>2. at[Len(p)] = g[Len(p)]
    BY <1>9, <2>1
  <2> QED BY <1>3, <1>5, <2>2
<1> QED BY <1>8, <1>9

(***************************************************************************)
(* Matching a whole path against the table finds the directory that a walk *)
(* along it finds, or neither finds one (mounttable.rs:58-70,              *)
(* filesystem.md:104-108), until a directory above a mount point is        *)
(* renamed.                                                                *)
(***************************************************************************)
THEOREM WalkAgrees == Spec => []ResolveAgreesWithWalk
<1>1. Init => TreeInv
  BY TreeInit
<1>2. MountInv /\ TreeInv /\ [Next]_vars => TreeInv'
  BY TreeStep
<1>3. MountInv /\ TreeInv => ResolveAgreesWithWalk
  <2> SUFFICES ASSUME MountInv, TreeInv, ~displaced, NEW p \in Path
               PROVE  Walk(p) = Found(p)
    BY DEF ResolveAgreesWithWalk, Found
  <2> QED BY TableIsOK, WalkFinds DEF TreeInv
<1> QED BY <1>1, <1>2, <1>3, MountInvariant, PTL DEF Spec

(***************************************************************************)
(* The documentation's promise holds until the rename it does not foresee: *)
(* while no directory above a mount point has been renamed, the entry that *)
(* each mount point hides can be neither removed nor renamed               *)
(* (filesystem.md:82-84, files.rs:479).                                    *)
(***************************************************************************)
THEOREM HiddenStays == Spec => [](~displaced => HiddenDirectoryStays)
<1>1. Init => TreeInv
  BY TreeInit
<1>2. MountInv /\ TreeInv /\ [Next]_vars => TreeInv'
  BY TreeStep
<1>3. MountInv /\ TreeInv => (~displaced => HiddenDirectoryStays)
  <2> SUFFICES ASSUME MountInv, TreeInv, ~displaced, NEW m \in table, m.point # Root
               PROVE  HiddenAt(m).dir \in dirs[HiddenAt(m).dev]
    BY DEF HiddenDirectoryStays
  <2>1. HiddenAt(m) = EntryIn(table, m.point)
    BY TableIsOK, HiddenIsEntry
  <2> QED BY <2>1 DEF TreeInv, Covered
<1> QED BY <1>1, <1>2, <1>3, MountInvariant, PTL DEF Spec
=============================================================================
