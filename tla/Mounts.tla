------------------------------- MODULE Mounts -------------------------------
(***************************************************************************)
(* The mount table and what leans on it: fs/mounttable.rs (which device    *)
(* answers for a path), fs/mounts.rs (mount and umount), the working       *)
(* directories of the shell's frames and the open files, which pin a       *)
(* volume, and the operations of fs/files.rs that change directories.      *)
(*                                                                         *)
(* A path is the sequence of its components: every path reaches this code  *)
(* absolute and normalized.  A volume is the set of its directories;       *)
(* regular files matter only while they are open.  An operation that the   *)
(* code refuses changes nothing, so each action is the accepted case.      *)
(***************************************************************************)
EXTENDS Naturals, Sequences, SequencesExt, FiniteSets

CONSTANTS
    Name,           \* path components
    Dev,            \* block devices
    RootDev,        \* the one mounted at boot
    Bad,            \* devices that hold no filesystem (open_volume fails)
    MaxPath,        \* BLK_MOUNT_MAX, and the bound on every path here
    MaxFrames,      \* bound: nested scopes
    MaxDirs,        \* bound: directories on all the volumes together
    NoDev,          \* no device: a slot that is not open
    File            \* the open-file slots, MAX_OPEN_FILES of them

ASSUME MountsAssumption ==
    /\ RootDev \in Dev /\ RootDev \notin Bad
    /\ IsFiniteSet(File)
    /\ NoDev \notin Dev
    /\ MaxPath \in Nat /\ MaxFrames \in Nat \ {0} /\ MaxDirs \in Nat

Path == SeqOf(Name, MaxPath)
Root == << >>

VARIABLES
    table,      \* TABLE: the mounts, in no order -- points and devices are unique
    vols,       \* VOLS: the devices with an open volume
    dirs,       \* per device, the directories on its volume (paths within it)
    frames,     \* the working directory of every frame, innermost last
    files,      \* the device of every open file, or NoDev
    openOn,     \* OPEN_ON
    displaced   \* whether a directory above a mount point was ever renamed

vars == <<table, vols, dirs, frames, files, openOn, displaced>>

-----------------------------------------------------------------------------
(* mounttable.rs                                                           *)

IsWithin(point, path) == IsPrefix(point, path)

\* The mount whose point is the longest match, and the rest of the path.
Candidates(t, path) == {m \in t : IsWithin(m.point, path)}
Longest(ms) == CHOOSE m \in ms : \A o \in ms : Len(o.point) <= Len(m.point)
Covering(t, path) == Longest(Candidates(t, path))

Resolve(t, path) ==
    LET m == Covering(t, path)
    IN  [dev |-> m.dev, dir |-> SubSeq(path, Len(m.point) + 1, Len(path))]

IsMountPoint(path) == \E m \in table : m.point = path
PointOf(dev) == {m.point : m \in {o \in table : o.dev = dev}}

\* Mutant of CoversAMount: only an exact match counts.
CoversExactly(path) == IsMountPoint(path)

CoversAMount(path) == \E m \in table : IsWithin(path, m.point)

\* check_directory: the path names a directory of the volume it resolves to.
IsDirectory(path) ==
    LET at == Resolve(table, path) IN at.dir \in dirs[at.dev]

-----------------------------------------------------------------------------
(* mounts.rs                                                               *)

Init ==
    /\ table = {[point |-> Root, dev |-> RootDev]}
    /\ vols = {RootDev}
    /\ dirs = [d \in Dev |-> {Root}]
    /\ frames = <<Root>>
    /\ files = [f \in File |-> NoDev]
    /\ openOn = [d \in Dev |-> 0]
    /\ displaced = FALSE

\* Mutant of Mount: a volume may be mounted twice.
MountTwice(dev, target) ==
    /\ ~CoversAMount(target)
    /\ IsDirectory(target)
    /\ dev \notin Bad
    /\ vols' = vols \cup {dev}
    /\ table' = table \cup {[point |-> target, dev |-> dev]}
    /\ UNCHANGED <<dirs, frames, files, openOn, displaced>>

Mount(dev, target) ==
    /\ PointOf(dev) = {}
    /\ ~CoversAMount(target)
    /\ IsDirectory(target)
    /\ dev \notin Bad
    /\ vols' = vols \cup {dev}
    /\ table' = table \cup {[point |-> target, dev |-> dev]}
    /\ UNCHANGED <<dirs, frames, files, openOn, displaced>>

\* Mutant of InUse: the innermost frame stands for all of them.
TopFrameInUse(target, dev) == IsWithin(target, Last(frames)) \/ openOn[dev] > 0

\* Mutant of InUse: open files are not looked at.
FramesInUse(target, dev) == \E i \in DOMAIN frames : IsWithin(target, frames[i])

\* A frame's working directory in the volume, or a file open on it.
InUse(target, dev) ==
    \/ \E i \in DOMAIN frames : IsWithin(target, frames[i])
    \/ openOn[dev] > 0

Umount(target) ==
    /\ target # Root
    /\ \E m \in table :
        /\ m.point = target
        /\ ~InUse(target, m.dev)
        /\ ~\E o \in table : o.point # target /\ IsWithin(target, o.point)
        /\ table' = table \ {m}
        /\ vols' = vols \ {m.dev}
    /\ UNCHANGED <<dirs, frames, files, openOn, displaced>>

-----------------------------------------------------------------------------
(* files.rs: the operations on directories.                                *)

\* The path's last component, in its parent's volume: resolve(dev, parents).
ParentDir(at) == Front(at.dir)
HasEntry(at) == at.dir # << >> /\ ParentDir(at) \in dirs[at.dev]

Mkdir(path) ==
    LET at == Resolve(table, path)
    IN  /\ Cardinality(UNION {{d} \X dirs[d] : d \in Dev}) < MaxDirs
        /\ HasEntry(at)
        /\ at.dir \notin dirs[at.dev]
        /\ dirs' = [dirs EXCEPT ![at.dev] = @ \cup {at.dir}]
        /\ UNCHANGED <<table, vols, frames, files, openOn, displaced>>

IsEmptyDir(at) == \A d \in dirs[at.dev] : IsPrefix(at.dir, d) => d = at.dir

\* unlink with remove_dir
Rmdir(path) ==
    LET at == Resolve(table, path)
    IN  /\ path = Root \/ ~IsMountPoint(path)
        /\ HasEntry(at) /\ at.dir \in dirs[at.dev] /\ IsEmptyDir(at)
        /\ dirs' = [dirs EXCEPT ![at.dev] = @ \ {at.dir}]
        /\ UNCHANGED <<table, vols, frames, files, openOn, displaced>>

\* The directories of a volume once the one at `from` has become `to`.
Moved(ds, from, to) ==
    {d \in ds : ~IsPrefix(from, d)} \cup
    {to \o SubSeq(d, Len(from) + 1, Len(d)) : d \in {e \in ds : IsPrefix(from, e)}}

\* rename of a directory.  An empty directory at the destination is deleted
\* first, and the rename after that may still fail.
Rename(old, new) ==
    LET from == Resolve(table, old)
        to   == Resolve(table, new)
        rest == dirs[from.dev] \ {to.dir}
    IN  /\ old = Root \/ ~IsMountPoint(old)
        /\ new = Root \/ ~IsMountPoint(new)
        /\ HasEntry(from) /\ from.dir \in dirs[from.dev]
        /\ HasEntry(to)
        /\ from.dev = to.dev /\ old # new
        /\ ~IsPrefix(old, new)
        /\ to.dir \in dirs[to.dev] => IsEmptyDir(to)
        /\ \/ dirs' = [dirs EXCEPT ![from.dev] = Moved(rest, from.dir, to.dir)]
           \/ dirs' = [dirs EXCEPT ![from.dev] = rest]
        /\ \A d \in dirs'[from.dev] : Len(d) <= MaxPath
        /\ displaced' = (displaced \/ \E m \in table : IsWithin(old, m.point))
        /\ UNCHANGED <<table, vols, frames, files, openOn>>

-----------------------------------------------------------------------------
(* The users of the table: working directories and open files.             *)

\* shell_state::chdir
Chdir(path) ==
    /\ IsDirectory(path)
    /\ frames' = [frames EXCEPT ![Len(frames)] = path]
    /\ UNCHANGED <<table, vols, dirs, files, openOn, displaced>>

\* with_scope and with_subshell
PushFrame ==
    /\ Len(frames) < MaxFrames
    /\ frames' = Append(frames, Last(frames))
    /\ UNCHANGED <<table, vols, dirs, files, openOn, displaced>>

\* Mutant of PopFrame: the shell's own frame can go too.
PopAnyFrame ==
    /\ frames' = Front(frames)
    /\ UNCHANGED <<table, vols, dirs, files, openOn, displaced>>

PopFrame ==
    /\ Len(frames) > 1
    /\ frames' = Front(frames)
    /\ UNCHANGED <<table, vols, dirs, files, openOn, displaced>>

\* open of the directory at path, or of a file in it: OpenFile::new.
Open(f, path) ==
    LET at == Resolve(table, path)
    IN  /\ files[f] = NoDev
        /\ at.dir \in dirs[at.dev]
        /\ files' = [files EXCEPT ![f] = at.dev]
        /\ openOn' = [openOn EXCEPT ![at.dev] = @ + 1]
        /\ UNCHANGED <<table, vols, dirs, frames, displaced>>

\* The last reference goes: OpenFile's drop.
Close(f) ==
    /\ files[f] # NoDev
    /\ files' = [files EXCEPT ![f] = NoDev]
    /\ openOn' = [openOn EXCEPT ![files[f]] = @ - 1]
    /\ UNCHANGED <<table, vols, dirs, frames, displaced>>

Next ==
    \/ \E p \in Path :
        \/ \E d \in Dev : Mount(d, p)
        \/ Umount(p)
        \/ Mkdir(p) \/ Rmdir(p) \/ Chdir(p)
        \/ \E q \in Path : Rename(p, q)
        \/ \E f \in File : Open(f, p)
    \/ PushFrame \/ PopFrame
    \/ \E f \in File : Close(f)

Spec == Init /\ [][Next]_vars

-----------------------------------------------------------------------------
(* Properties.                                                             *)

TypeOK ==
    /\ table \subseteq [point: Path, dev: Dev]
    /\ vols \subseteq Dev
    /\ dirs \in [Dev -> SUBSET Path]
    /\ frames \in Seq(Path) /\ Len(frames) \in 1 .. MaxFrames
    /\ files \in [File -> Dev \cup {NoDev}]
    /\ openOn \in [Dev -> Nat]
    /\ displaced \in BOOLEAN

(***************************************************************************)
(* The table and the open volumes say the same: a path never resolves to   *)
(* a device that is not mounted (the panic of mounts.rs:45-49), no volume  *)
(* is left open that nothing refers to, one point holds one mount, and one *)
(* device is mounted once.                                                 *)
(***************************************************************************)
TableMatchesVolumes ==
    /\ vols = {m.dev : m \in table}
    /\ [point |-> Root, dev |-> RootDev] \in table
    /\ \A m, o \in table : (m.point = o.point \/ m.dev = o.dev) => m = o

(***************************************************************************)
(* A volume stays while a file is open on it, whatever was mounted and     *)
(* unmounted since it was opened (mounts.rs:104-113).                      *)
(***************************************************************************)
OpenFilesPinVolumes ==
    /\ \A d \in Dev : openOn[d] = Cardinality({f \in File : files[f] = d})
    /\ \A f \in File : files[f] # NoDev => files[f] \in vols

(***************************************************************************)
(* Unmounting never pulls the ground from under a shell frame, the         *)
(* suspended outer ones included: each working directory still names the   *)
(* directory it named before (mounts.rs:111).                              *)
(***************************************************************************)
UmountKeepsWorkingDirs ==
    [][\A m \in table \ table' : \A i \in DOMAIN frames :
            Resolve(table', frames[i]) = Resolve(table, frames[i])]_vars

(* Walking a path one directory at a time and crossing into a mount where  *)
(* its point's hidden directory is met, as Linux does.                     *)
HiddenAt(m) == Resolve(table \ {m}, m.point)
Nowhere == [dev |-> NoDev, dir |-> << >>]
Down(at, name) ==
    LET child == [dev |-> at.dev, dir |-> Append(at.dir, name)]
        here  == {m \in table : m.point # Root /\ HiddenAt(m) = child}
    IN  IF at = Nowhere \/ child.dir \notin dirs[at.dev] THEN Nowhere
        ELSE IF here = {} THEN child
        ELSE [dev |-> (CHOOSE m \in here : TRUE).dev, dir |-> << >>]
Walk(path) ==
    LET at[n \in 0 .. Len(path)] ==
            IF n = 0 THEN [dev |-> RootDev, dir |-> << >>]
            ELSE Down(at[n - 1], path[n])
    IN  at[Len(path)]

(***************************************************************************)
(* Matching the whole path against the table finds what walking the path   *)
(* finds, for every directory that exists (filesystem.md:104-108), so long *)
(* as no directory above a mount point is renamed.                         *)
(***************************************************************************)
ResolveAgreesWithWalk ==
    ~displaced =>
        \A p \in Path :
            LET at == Resolve(table, p)
            IN  Walk(p) = IF at.dir \in dirs[at.dev] THEN at ELSE Nowhere

(***************************************************************************)
(* The entry a mount point hides is a directory that stays: "It cannot be  *)
(* removed or renamed" (filesystem.md:82-84).  Renaming a directory above  *)
(* it takes it away all the same (files.rs:479 tests the point alone).     *)
(***************************************************************************)
HiddenDirectoryStays ==
    \A m \in table : m.point # Root => HiddenAt(m).dir \in dirs[HiddenAt(m).dev]
=============================================================================
