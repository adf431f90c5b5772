-------------------------------- MODULE Diskctl --------------------------------
(***************************************************************************)
(* The storage actions: hardware.Eject, Mount and Unmount, and the         *)
(* privileged wrapper hostek-diskctl they run.  The wrapper is a shell     *)
(* script, so every command it starts is a step of its own, and the        *)
(* handlers of two requests may run two wrappers at the same time: nothing *)
(* in the daemon or the script serialises them.                            *)
(*                                                                         *)
(* Abstractions: device names, labels and paths are model values; a path   *)
(* under /media/hostek is the pair <<disk, leaf>>; the <disk> level of the *)
(* directories, flushing and the UI are left out.                          *)
(***************************************************************************)
EXTENDS Naturals, FiniteSets

CONSTANTS
  Workers,        \* requests being served at the same time
  Disks, Parts, Stacked,   \* device nodes: whole disks, partitions, LVM/LUKS/md
  Mapped,         \* those of Stacked that device-mapper makes
  LiesOn,         \* LiesOn[n]: the nodes a partition or a stacked node lies on
  Label,          \* Label[p]: usable label of a partition, or NoLabel
  NoLabel,
  FsType,         \* FsType[p]: "plain", "volume" (swap, LUKS, LVM, md) or "none"
  Fstab,          \* Fstab[p]: mountpoint /etc/fstab names for it, or NoPath
  NoPath,
  RootPath,       \* "/"
  Protected,      \* paths protected_mount refuses
  FirstMounts,    \* what is mounted and which swap is live at boot
  FirstSwaps,
  Detachable,     \* disks with a kernel detach path
  Pullable        \* disks somebody may pull out

Nodes == Disks \cup Parts \cup Stacked

(***************************************************************************)
(* Any stacking: a volume group may lie on several partitions, of several  *)
(* disks, on LUKS on md, and so on.  What is under a node is the smallest  *)
(* set with the node in it that LiesOn does not lead out of.               *)
(***************************************************************************)
Foundations == {S \in SUBSET Nodes : \A n \in S : LiesOn[n] \subseteq S}
Under == [n \in Nodes |-> {k \in Nodes : \A S \in Foundations : n \in S => k \in S}]
DisksOf(n) == Under[n] \cap Disks
Tree(d) == {n \in Nodes : d \in DisksOf(n)}
Parent(p) == CHOOSE d \in LiesOn[p] : TRUE

(* hostek's own tree: a directory per disk, in it one per label or name.   *)
(* The name of a partition stands for its disk when lsblk knows no parent. *)
MediaPaths == (Disks \cup Parts) \X (Parts \cup ({Label[p] : p \in Parts} \ {NoLabel}))

ASSUME DiskConstants ==
  /\ LiesOn \in [Nodes -> SUBSET Nodes]
  /\ \A d \in Disks : LiesOn[d] = {}
  /\ \A p \in Parts : \E d \in Disks : LiesOn[p] = {d}
  /\ \A n \in Nodes : DisksOf(n) # {}
  /\ Disks \cap (Parts \cup Stacked) = {} /\ Parts \cap Stacked = {}
  /\ Mapped \subseteq Stacked
  /\ RootPath \in Protected /\ NoPath \notin Protected \cup MediaPaths
  /\ Protected \cap MediaPaths = {}
  /\ Detachable \subseteq Disks
  /\ Pullable \subseteq Disks /\ \A m \in FirstMounts : DisksOf(m.src) \cap Pullable = {}

(* The host runs from /, which the entry of /etc/fstab for it, if any, has *)
(* mounted; no directory of hostek's exists yet; swap holds no filesystem. *)
ASSUME BootConstants ==
  /\ FirstMounts \subseteq [src : Nodes, at : {m.at : m \in FirstMounts} \ MediaPaths]
  /\ \E m \in FirstMounts : m.at = RootPath
  /\ \A p \in Parts : Fstab[p] = RootPath => [src |-> p, at |-> RootPath] \in FirstMounts
  /\ FirstSwaps \subseteq Nodes /\ \A m \in FirstMounts : m.src \notin FirstSwaps
  /\ \A p \in Parts \cap FirstSwaps : FsType[p] # "plain"

VARIABLES
  attached,   \* disks the kernel has
  mounts,     \* [src, at]: what is mounted where
  swaps,      \* nodes that are live swap
  dirs,       \* directories hostek made: <<disk, leaf>>
  pc,         \* the next command of each worker's wrapper
  job,        \* its arguments and shell variables
  outcome     \* how its last command left the wrapper

host == <<attached, mounts, swaps>>
vars == <<attached, mounts, swaps, dirs, pc, job, outcome>>

Exists(n) == DisksOf(n) \subseteq attached
TargetsOf(n) == {m.at : m \in {k \in mounts : k.src = n}}
SourcesAt(t) == {m.src : m \in {k \in mounts : k.at = t}}
RootSources == SourcesAt(RootPath)

NoJob == [verb |-> "none", dev |-> CHOOSE d \in Disks : TRUE, todo |-> {},
          node |-> CHOOSE d \in Disks : TRUE, target |-> NoPath]

Init ==
  /\ attached = Disks
  /\ mounts = FirstMounts
  /\ swaps = FirstSwaps
  /\ dirs = {}
  /\ pc = [w \in Workers |-> "idle"]
  /\ job = [w \in Workers |-> NoJob]
  /\ outcome = [w \in Workers |-> "none"]

Goto(w, there) == pc' = [pc EXCEPT ![w] = there] /\ UNCHANGED outcome
Exit(w, code) ==
  /\ pc' = [pc EXCEPT ![w] = "done"]
  /\ outcome' = [outcome EXCEPT ![w] = code]

--------------------------------------------------------------------------------
(***************************************************************************)
(* The handlers.  A request the daemon refuses by itself changes nothing   *)
(* and is left out: the guard is what lets a request through.              *)
(***************************************************************************)
(* RootDevice strips a partition number and knows nothing of stacking.     *)
DaemonAllows(verb, n) ==
  /\ Exists(n)
  /\ \/ verb = "eject" /\ n \in Disks
        /\ \A s \in RootSources : ~(s = n \/ (s \in Parts /\ Parent(s) = n))
     \/ verb \in {"mount", "unmount"} /\ n \in Parts

Accept(w) ==
  /\ pc[w] = "idle"
  /\ \E verb \in {"mount", "unmount", "eject"}, n \in Nodes :
       /\ DaemonAllows(verb, n)
       /\ job' = [job EXCEPT ![w] = [NoJob EXCEPT !.verb = verb, !.dev = n]]
       /\ Goto(w, verb)
  /\ UNCHANGED <<host, dirs>>

Reply(w) ==
  /\ pc[w] = "done"
  /\ pc' = [pc EXCEPT ![w] = "idle"]
  /\ job' = [job EXCEPT ![w] = NoJob]
  /\ outcome' = [outcome EXCEPT ![w] = "none"]
  /\ UNCHANGED <<host, dirs>>

--------------------------------------------------------------------------------
(***************************************************************************)
(* mount                                                                   *)
(***************************************************************************)
FindMounted(w) ==
  /\ pc[w] = "mount"
  /\ \/ ~Exists(job[w].dev) /\ Exit(w, "bad")
     \/ Exists(job[w].dev) /\ TargetsOf(job[w].dev) # {} /\ Exit(w, "ok")
     \/ Exists(job[w].dev) /\ TargetsOf(job[w].dev) = {} /\ Goto(w, "volume")
  /\ UNCHANGED <<host, dirs, job>>

Leaf(p) == IF Label[p] = NoLabel THEN p ELSE Label[p]

(* lsblk says nothing of a disk that has left.                             *)
ReadVolume(w) ==
  LET plain == Exists(job[w].dev) /\ FsType[job[w].dev] = "plain" IN
  /\ pc[w] = "volume"
  /\ \/ ~plain /\ Exit(w, "unsupported")
     \/ plain /\ Goto(w, "fstab")
  /\ UNCHANGED <<host, dirs, job>>

(* An fstab target is used as it is.  An entry written as LABEL= or UUID=  *)
(* is not found once the disk has left.                                    *)
FindFstab(w) ==
  LET p == job[w].dev IN
  /\ pc[w] = "fstab"
  /\ \/ /\ Fstab[p] # NoPath
        /\ job' = [job EXCEPT ![w].target = Fstab[p]]
        /\ Goto(w, "attach")
     \/ /\ Fstab[p] = NoPath \/ ~Exists(p)
        /\ UNCHANGED job
        /\ Goto(w, "name")
  /\ UNCHANGED <<host, dirs>>

(* The label, or the kernel name, makes the leaf.                          *)
NamePath(w) ==
  LET p == job[w].dev IN
  /\ pc[w] = "name"
  /\ job' = [job EXCEPT ![w].target = IF Exists(p) THEN <<Parent(p), Leaf(p)>> ELSE <<p, p>>]
  /\ Goto(w, "occupied")
  /\ UNCHANGED <<host, dirs>>

(* A path that another device occupies is exchanged for the kernel name.   *)
TakeAnyPath(w) ==                                   \* mutant of AvoidOccupied
  /\ pc[w] = "occupied"
  /\ Goto(w, "mkdir")
  /\ UNCHANGED <<host, dirs, job>>

AvoidOccupied(w) ==
  LET p == job[w].dev IN
  /\ pc[w] = "occupied"
  /\ \/ /\ SourcesAt(job[w].target) = {} \/ p \in SourcesAt(job[w].target)
        /\ UNCHANGED job
     \/ /\ SourcesAt(job[w].target) \ {p} # {}
        /\ job' = [job EXCEPT ![w].target = <<@[1], p>>]
  /\ Goto(w, "mkdir")
  /\ UNCHANGED <<host, dirs>>

MakeDirectory(w) ==
  /\ pc[w] = "mkdir"
  /\ \/ dirs' = dirs \cup {job[w].target} /\ Goto(w, "attach")
     \/ UNCHANGED dirs /\ Exit(w, "failed")
  /\ UNCHANGED <<host, job>>

(* rmdir only removes a directory nothing is mounted on.                   *)
RemoveDirs(S) == dirs' = {t \in dirs : t \in S => SourcesAt(t) # {}}

(* mount(2) covers whatever is there, but not the same device twice on one *)
(* path; the kernel may also refuse the filesystem.                        *)
AttachVolume(w) ==
  LET p == job[w].dev
      t == job[w].target
      there == t = Fstab[p] \/ t \in dirs IN
  /\ pc[w] = "attach"
  /\ \/ /\ Exists(p) /\ there /\ p \notin SourcesAt(t)
        /\ mounts' = mounts \cup {[src |-> p, at |-> t]}
        /\ Exit(w, "ok")
        /\ UNCHANGED dirs
     \/ /\ UNCHANGED mounts
        /\ RemoveDirs({t} \ {Fstab[p]})
        /\ Exit(w, "failed")
  /\ UNCHANGED <<attached, swaps, job>>

--------------------------------------------------------------------------------
(***************************************************************************)
(* release_device, once for unmount and once per node for eject.           *)
(***************************************************************************)
CheckNothing(w) ==                                  \* mutant of CheckTargets
  /\ pc[w] = "release"
  /\ Goto(w, "swapoff")
  /\ UNCHANGED <<host, dirs, job>>

CheckTargets(w) ==
  /\ pc[w] = "release"
  /\ \/ TargetsOf(job[w].node) \cap Protected # {} /\ Exit(w, "refused")
     \/ TargetsOf(job[w].node) \cap Protected = {} /\ Goto(w, "swapoff")
  /\ UNCHANGED <<host, dirs, job>>

(* The swap that grep finds under the name lsblk gives the node: for a     *)
(* device-mapper node lsblk says /dev/mapper/<x>, /proc/swaps /dev/dm-<N>. *)
FoundSwaps == swaps \ Mapped

SwapOff(w) ==
  LET n == job[w].node IN
  /\ pc[w] = "swapoff"
  /\ \/ n \notin FoundSwaps /\ UNCHANGED swaps /\ Goto(w, "mounted")
     \/ n \in FoundSwaps /\ swaps' = swaps \ {n} /\ Goto(w, "mounted")
     \/ n \in FoundSwaps /\ UNCHANGED swaps /\ Exit(w, "failed")
  /\ UNCHANGED <<attached, mounts, dirs, job>>

Released(w) == Goto(w, IF job[w].verb = "eject" THEN "next" ELSE "tidy")

SeeMounted(w) ==
  /\ pc[w] = "mounted"
  /\ \/ TargetsOf(job[w].node) = {} /\ Released(w)
     \/ TargetsOf(job[w].node) # {} /\ Goto(w, "umount")
  /\ UNCHANGED <<host, dirs, job>>

(* umount -A takes the targets one by one and stops at a busy one; it      *)
(* fails, too, when another wrapper has left it none.                      *)
UmountAll(w) ==
  LET mine == {m \in mounts : m.src = job[w].node} IN
  /\ pc[w] = "umount"
  /\ \/ mine # {} /\ mounts' = mounts \ mine /\ Released(w)
     \/ /\ \E left \in SUBSET mine : (left = {} => mine = {}) /\ mounts' = (mounts \ mine) \cup left
        /\ Exit(w, "failed")
  /\ UNCHANGED <<attached, swaps, dirs, job>>

--------------------------------------------------------------------------------
(***************************************************************************)
(* unmount                                                                 *)
(***************************************************************************)
FindTarget(w) ==
  LET p == job[w].dev IN
  /\ pc[w] = "unmount"
  /\ \/ /\ ~Exists(p) \/ TargetsOf(p) = {}
        /\ Exit(w, "bad")
        /\ UNCHANGED job
     \/ \E t \in TargetsOf(p) :
          /\ Exists(p)
          /\ job' = [job EXCEPT ![w].target = t, ![w].node = p]
          /\ Goto(w, "release")
  /\ UNCHANGED <<host, dirs>>

TidyTarget(w) ==
  /\ pc[w] = "tidy"
  /\ RemoveDirs({job[w].target})
  /\ Exit(w, "ok")
  /\ UNCHANGED <<host, job>>

--------------------------------------------------------------------------------
(***************************************************************************)
(* eject                                                                   *)
(***************************************************************************)
(* root_disk walks one level up from what carries /: on a stacked node it  *)
(* names no disk but, of several things below, the one that lsblk lists    *)
(* first.                                                                  *)
RootNames == UNION {IF LiesOn[s] = {} THEN {s} ELSE LiesOn[s] : s \in RootSources}

(* disk_holds_system looks at the whole tree, but lsblk shows one          *)
(* mountpoint per node, any one of several.                                *)
SeesSystem(d) == \E n \in Tree(d) : TargetsOf(n) \cap Protected # {}
MissesNothing(d) == TRUE                            \* mutant of MissesSystem
MissesSystem(d) == \A n \in Tree(d) : TargetsOf(n) # {} => TargetsOf(n) \ Protected # {}

RefuseSystemDisk(w) ==
  LET d == job[w].dev IN
  /\ pc[w] = "eject"
  /\ \/ ~Exists(d) /\ Exit(w, "bad")
     \/ Exists(d) /\ (d \in RootNames \/ SeesSystem(d)) /\ Exit(w, "refused")
     \/ Exists(d) /\ RootNames # {d} /\ MissesSystem(d) /\ Goto(w, "tree")
  /\ UNCHANGED <<host, dirs, job>>

(* The list of nodes is taken once; it is empty when the disk has left.    *)
ListPartitions(w) ==                                \* mutant of ListTree
  /\ pc[w] = "tree"
  /\ job' = [job EXCEPT ![w].todo = Tree(job[w].dev) \ Stacked]
  /\ Goto(w, "next")
  /\ UNCHANGED <<host, dirs>>

ListTree(w) ==
  /\ pc[w] = "tree"
  /\ job' = [job EXCEPT ![w].todo = IF Exists(job[w].dev) THEN Tree(job[w].dev) ELSE {}]
  /\ Goto(w, "next")
  /\ UNCHANGED <<host, dirs>>

IsLeaf(n, S) == ~\E k \in S : n \in LiesOn[k]

NextNode(w) ==
  /\ pc[w] = "next"
  /\ \/ /\ job[w].todo = {}
        /\ Goto(w, "tidydisk")
        /\ UNCHANGED job
     \/ \E n \in job[w].todo :
          /\ IsLeaf(n, job[w].todo)
          /\ job' = [job EXCEPT ![w].todo = @ \ {n}, ![w].node = n]
          /\ Goto(w, "release")
  /\ UNCHANGED <<host, dirs>>

LeaveDirectories(w) ==                              \* mutant of TidyDisk
  /\ pc[w] = "tidydisk"
  /\ Goto(w, "detach")
  /\ UNCHANGED <<host, dirs, job>>

TidyDisk(w) ==
  /\ pc[w] = "tidydisk"
  /\ RemoveDirs({t \in dirs : t[1] = job[w].dev})
  /\ Goto(w, "detach")
  /\ UNCHANGED <<host, job>>

(* What is still mounted or swapped from the disk stays, over nothing.     *)
Detach(w) ==
  LET d == job[w].dev IN
  /\ pc[w] = "detach"
  /\ \/ Exists(d) /\ d \in Detachable /\ attached' = attached \ {d} /\ Exit(w, "ok")
     \/ ~(Exists(d) /\ d \in Detachable) /\ UNCHANGED attached /\ Exit(w, "unsupported")
  /\ UNCHANGED <<mounts, swaps, dirs, job>>

--------------------------------------------------------------------------------
(* The outside: a data disk is pulled out, or comes back with a rescan.    *)
Pull(d) ==
  /\ d \in attached \cap Pullable
  /\ attached' = attached \ {d}
  /\ UNCHANGED <<mounts, swaps, dirs, pc, job, outcome>>

Rescan(d) ==
  /\ d \notin attached
  /\ \A n \in Tree(d) : TargetsOf(n) = {} /\ n \notin swaps
  /\ attached' = attached \cup {d}
  /\ UNCHANGED <<mounts, swaps, dirs, pc, job, outcome>>

MountVerb(w) ==
  \/ FindMounted(w) \/ ReadVolume(w) \/ FindFstab(w) \/ NamePath(w) \/ AvoidOccupied(w)
  \/ MakeDirectory(w) \/ AttachVolume(w)
Release(w) == CheckTargets(w) \/ SwapOff(w) \/ SeeMounted(w) \/ UmountAll(w)
UnmountVerb(w) == FindTarget(w) \/ TidyTarget(w)
EjectVerb(w) ==
  \/ RefuseSystemDisk(w) \/ ListTree(w) \/ NextNode(w) \/ TidyDisk(w) \/ Detach(w)
Wrapper(w) == MountVerb(w) \/ Release(w) \/ UnmountVerb(w) \/ EjectVerb(w)

Next ==
  \/ \E w \in Workers : Accept(w) \/ Wrapper(w) \/ Reply(w)
  \/ \E d \in Disks : Pull(d) \/ Rescan(d)

Spec == Init /\ [][Next]_vars

--------------------------------------------------------------------------------
(***************************************************************************)
(* Properties.                                                             *)
(***************************************************************************)
AllPaths ==
  MediaPaths \cup Protected \cup {Fstab[p] : p \in Parts} \cup {m.at : m \in FirstMounts}

(* Every variable holds what the script's and the kernel's state can hold. *)
TypeOK ==
  /\ attached \subseteq Disks
  /\ mounts \subseteq [src : Nodes, at : AllPaths]
  /\ swaps \subseteq FirstSwaps
  /\ dirs \subseteq MediaPaths
  /\ pc \in [Workers -> {"idle", "mount", "volume", "fstab", "name", "occupied", "mkdir", "attach",
                         "unmount", "release", "swapoff", "mounted", "umount", "tidy",
                         "eject", "tree", "next", "tidydisk", "detach", "done"}]
  /\ \A w \in Workers : job[w].dev \in Nodes /\ job[w].todo \subseteq Nodes
  /\ outcome \in [Workers -> {"none", "ok", "bad", "refused", "failed", "unsupported"}]

(* "The running system's storage is untouchable": whatever runs at the     *)
(* same time, / stays mounted from the devices that carried it at boot and *)
(* every disk under them stays attached, also when / lies on stacked       *)
(* devices that neither RootDevice nor root_disk can resolve to the disks, *)
(* and when lsblk shows another mountpoint of theirs than /: the check of  *)
(* every target in release_device holds where both guards have missed.     *)
RootStays ==
  /\ {m \in FirstMounts : m.at = RootPath} \subseteq mounts
  /\ \A s \in RootSources : Exists(s)

(* "The mounts the OS lives on cannot be unmounted": no step of the        *)
(* wrapper takes a mount from a protected path.                            *)
ProtectedMountsStay ==
  [][\A m \in mounts \ mounts' : m.at \notin Protected]_vars

(* "Either firing refuses the eject": an eject of a disk one of whose      *)
(* devices is mounted at protected paths only, at whatever depth it is     *)
(* stacked, touches neither mounts nor swap, for it is refused before the  *)
(* walk.  A device with an unprotected mountpoint besides can go unseen,   *)
(* and the walk then releases what it comes to first.                      *)
RefusalTouchesNothing ==
  [][\A w \in Workers : \A n \in Tree(job[w].dev) :
       (job[w].verb = "eject" /\ pc'[w] # pc[w] /\ TargetsOf(n) # {} /\ TargetsOf(n) \subseteq Protected) =>
         UNCHANGED <<mounts, swaps>>]_vars

(* Eject detaches a disk only after all its filesystems are unmounted, at  *)
(* whatever depth they are stacked, and its swap is off, but for swap on a *)
(* device-mapper node, which release_device does not recognise.            *)
DetachIsClean ==
  [][\A d \in attached \ attached', w \in Workers :
       pc[w] = "detach" /\ pc'[w] = "done" =>
         \A n \in Tree(d) : TargetsOf(n) = {} /\ n \notin FoundSwaps]_vars

(* hostek never mounts one volume on top of another in its own tree.       *)
NeverOvermounts ==
  \A t \in MediaPaths : Cardinality(SourcesAt(t)) <= 1

(* A disk that was ejected leaves none of its mount directories behind.    *)
EjectedLeavesNoDirectory ==
  \A w \in Workers :
    pc[w] = "done" /\ job[w].verb = "eject" /\ outcome[w] = "ok" =>
      \A t \in dirs : t[1] # job[w].dev

(* Command by command, the script does no more than the promise of module  *)
(* Storage: every change of the host is allowed when it happens, however   *)
(* long ago the wrapper looked.                                            *)
Promise == INSTANCE Storage WITH Paths <- AllPaths
ImplementsStorage == Promise!Spec
================================================================================
