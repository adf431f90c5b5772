------------------------------ MODULE DiskctlProofs ------------------------------
(***************************************************************************)
(* Proofs about Diskctl, for any disks, partitions and mounts at boot.     *)
(*                                                                         *)
(* Three layers.  What each wrapper's variables are at each command, and   *)
(* that / stays, hold for any number of overlapping requests.  That        *)
(* protected mounts stay and refusals are harmless needs that requests do  *)
(* not overlap or that /etc/fstab names no protected path for a partition. *)
(* The rest is about one request at a time.                                *)
(***************************************************************************)
EXTENDS Diskctl, FiniteSetTheorems, TLAPS

OneAtATime == \A v, w \in Workers : v = w
FstabIsForeign == \A p \in Parts : Fstab[p] \notin MediaPaths

--------------------------------------------------------------------------------
(***************************************************************************)
(* The wrapper's variables.                                                *)
(***************************************************************************)
Mounting == {"mount", "volume", "fstab", "name", "occupied", "mkdir", "attach"}
Unmounting == {"unmount", "tidy"}
Releasing == {"release", "swapoff", "mounted", "umount"}
Ejecting == {"eject", "tree", "next", "tidydisk", "detach"}
Places == Mounting \cup Unmounting \cup Releasing \cup Ejecting \cup {"idle", "done"}
Codes == {"none", "ok", "bad", "refused", "failed", "unsupported"}

Jobs == [verb : {"none", "mount", "unmount", "eject"}, dev : Nodes, todo : SUBSET Nodes,
         node : Nodes, target : AllPaths \cup {NoPath}]

OwnPaths(p) == {Parent(p), p} \X {Leaf(p), p}

JobFits(w) ==
  /\ pc[w] \in Mounting => job[w].verb = "mount" /\ job[w].dev \in Parts
  /\ pc[w] \in Unmounting => job[w].verb = "unmount"
  /\ pc[w] \in Ejecting => job[w].verb = "eject" /\ job[w].dev \in Disks
  /\ pc[w] \in Releasing =>
       \/ job[w].verb = "unmount"
       \/ job[w].verb = "eject" /\ job[w].dev \in Disks
  /\ pc[w] \in {"occupied", "mkdir"} => job[w].target \in OwnPaths(job[w].dev)
  /\ pc[w] = "attach" =>
       \/ job[w].target \in OwnPaths(job[w].dev)
       \/ Fstab[job[w].dev] # NoPath /\ job[w].target = Fstab[job[w].dev]

ShapeInv ==
  /\ attached \subseteq Disks
  /\ mounts \subseteq [src : Nodes, at : AllPaths]
  /\ dirs \subseteq MediaPaths
  /\ pc \in [Workers -> Places]
  /\ outcome \in [Workers -> Codes]
  /\ job \in [Workers -> Jobs]
  /\ \A w \in Workers : JobFits(w)

(* A disk lies on itself alone.                                            *)
LEMMA DiskIsItself == \A d \in Disks : DisksOf(d) = {d}
<1> SUFFICES ASSUME NEW d \in Disks PROVE DisksOf(d) = {d}
  OBVIOUS
<1>1. d \in Nodes /\ {d} \in Foundations
  BY DiskConstants DEF Foundations, Nodes
<1>2. \A k \in Under[d] : k = d
  BY <1>1 DEF Under
<1>3. d \in Under[d]
  BY <1>1 DEF Under
<1> QED  BY <1>2, <1>3 DEF DisksOf

(* A partition lies on the disk it is a partition of, and on no other.     *)
LEMMA PartIsOnItsDisk == \A p \in Parts : Parent(p) \in Disks /\ DisksOf(p) = {Parent(p)}
<1> SUFFICES ASSUME NEW p \in Parts PROVE Parent(p) \in Disks /\ DisksOf(p) = {Parent(p)}
  OBVIOUS
<1>1. PICK d \in Disks : LiesOn[p] = {d}
  BY DiskConstants
<1>2. Parent(p) = d
  BY <1>1 DEF Parent
<1>3. /\ p \in Nodes /\ d \in Nodes /\ p # d
      /\ LiesOn[d] = {} /\ {p, d} \in Foundations
  BY <1>1, DiskConstants DEF Foundations, Nodes
<1>4. \A k \in Under[p] : k \in {p, d}
  BY <1>3 DEF Under
<1>5. d \in Under[p]
  BY <1>1, <1>3 DEF Under, Foundations
<1>6. p \notin Disks
  BY DiskConstants
<1> QED  BY <1>2, <1>4, <1>5, <1>6 DEF DisksOf

(* A node lies on disks, and on one at least.                              *)
LEMMA NodesLieOnDisks == \A n \in Nodes : DisksOf(n) \subseteq Disks /\ DisksOf(n) # {}
BY DiskConstants DEF DisksOf

(* A partition's own paths are in hostek's tree.                           *)
LEMMA OwnPathsAreMedia == \A p \in Parts : OwnPaths(p) \subseteq MediaPaths
<1> SUFFICES ASSUME NEW p \in Parts PROVE OwnPaths(p) \subseteq MediaPaths
  OBVIOUS
<1>1. Parent(p) \in Disks
  BY PartIsOnItsDisk
<1>2. Leaf(p) \in Parts \cup ({Label[q] : q \in Parts} \ {NoLabel})
  BY DEF Leaf
<1> QED  BY <1>1, <1>2 DEF OwnPaths, MediaPaths

(* There is a root disk, so there is a disk to begin with.                 *)
LEMMA NoJobIsJob == NoJob \in Jobs /\ NoJob.target = NoPath /\ NoJob.verb = "none"
<1>1. PICK m \in FirstMounts : m.at = RootPath
  BY BootConstants
<1>2. m.src \in Nodes
  BY BootConstants
<1>3. \E d \in Disks : TRUE
  BY <1>2, NodesLieOnDisks
<1>4. (CHOOSE d \in Disks : TRUE) \in Disks
  BY <1>3
<1> QED  BY <1>4 DEF NoJob, Jobs, Nodes

(* What an assignment to a worker's variables does.                        *)
LEMMA JobSet ==
  ASSUME NEW f, NEW w \in Workers, NEW r, NEW S, f \in [Workers -> S], r \in S
  PROVE  /\ [f EXCEPT ![w] = r] \in [Workers -> S] /\ [f EXCEPT ![w] = r][w] = r
         /\ \A v \in Workers \ {w} : [f EXCEPT ![w] = r][v] = f[v]
OBVIOUS

(* A step of one worker is none of another's.                              *)
LEMMA OthersRest ==
  ASSUME ShapeInv, NEW w \in Workers, Accept(w) \/ Wrapper(w) \/ Reply(w), NEW v \in Workers, v # w
  PROVE  pc'[v] = pc[v] /\ job'[v] = job[v] /\ outcome'[v] = outcome[v]
<1>t. /\ pc \in [Workers -> Places] /\ outcome \in [Workers -> Codes] /\ job \in [Workers -> Jobs]
  BY DEF ShapeInv
<1>1. ASSUME NEW x, Goto(w, x) PROVE pc'[v] = pc[v] /\ outcome'[v] = outcome[v]
  BY <1>t, <1>1 DEF Goto
<1>2. ASSUME NEW x, Exit(w, x) PROVE pc'[v] = pc[v] /\ outcome'[v] = outcome[v]
  BY <1>t, <1>2 DEF Exit
<1>3. CASE Accept(w)
  BY <1>t, <1>1, <1>3 DEF Accept
<1>4. CASE Reply(w)
  BY <1>t, <1>4 DEF Reply
<1>5. CASE MountVerb(w)
  <2>1. CASE FindMounted(w)
    BY <1>1, <1>2, <2>1 DEF FindMounted
  <2>2. CASE ReadVolume(w)
    BY <1>1, <1>2, <2>2 DEF ReadVolume
  <2>3. CASE FindFstab(w)
    BY <1>t, <1>1, <2>3 DEF FindFstab
  <2>4. CASE NamePath(w)
    BY <1>t, <1>1, <2>4 DEF NamePath
  <2>5. CASE AvoidOccupied(w)
    BY <1>t, <1>1, <2>5 DEF AvoidOccupied
  <2>6. CASE MakeDirectory(w)
    BY <1>1, <1>2, <2>6 DEF MakeDirectory
  <2>7. CASE AttachVolume(w)
    BY <1>2, <2>7 DEF AttachVolume
  <2> QED  BY <1>5, <2>1, <2>2, <2>3, <2>4, <2>5, <2>6, <2>7 DEF MountVerb
<1>6. CASE Release(w)
  <2>1. CASE CheckTargets(w)
    BY <1>1, <1>2, <2>1 DEF CheckTargets
  <2>2. CASE SwapOff(w)
    BY <1>1, <1>2, <2>2 DEF SwapOff
  <2>3. CASE SeeMounted(w)
    BY <1>1, <2>3 DEF SeeMounted, Released
  <2>4. CASE UmountAll(w)
    BY <1>1, <1>2, <2>4 DEF UmountAll, Released
  <2> QED  BY <1>6, <2>1, <2>2, <2>3, <2>4 DEF Release
<1>7. CASE UnmountVerb(w)
  <2>1. CASE FindTarget(w)
    BY <1>t, <1>1, <1>2, <2>1 DEF FindTarget
  <2>2. CASE TidyTarget(w)
    BY <1>2, <2>2 DEF TidyTarget
  <2> QED  BY <1>7, <2>1, <2>2 DEF UnmountVerb
<1>8. CASE EjectVerb(w)
  <2>1. CASE RefuseSystemDisk(w)
    BY <1>1, <1>2, <2>1 DEF RefuseSystemDisk
  <2>2. CASE ListTree(w)
    BY <1>t, <1>1, <2>2 DEF ListTree
  <2>3. CASE NextNode(w)
    BY <1>t, <1>1, <2>3 DEF NextNode
  <2>4. CASE TidyDisk(w)
    BY <1>1, <2>4 DEF TidyDisk
  <2>5. CASE Detach(w)
    BY <1>2, <2>5 DEF Detach
  <2> QED  BY <1>8, <2>1, <2>2, <2>3, <2>4, <2>5 DEF EjectVerb
<1> QED  BY <1>3, <1>4, <1>5, <1>6, <1>7, <1>8 DEF Wrapper

(* Where Goto and Exit lead.                                               *)
LEMMA GotoDoes ==
  ASSUME ShapeInv, NEW w \in Workers, NEW x \in Places, Goto(w, x)
  PROVE  pc' \in [Workers -> Places] /\ pc'[w] = x /\ outcome' = outcome
BY DEF ShapeInv, Goto

LEMMA ExitDoes ==
  ASSUME ShapeInv, NEW w \in Workers, NEW x \in Codes, Exit(w, x)
  PROVE  /\ pc' \in [Workers -> Places] /\ pc'[w] = "done"
         /\ outcome' \in [Workers -> Codes] /\ outcome'[w] = x
BY DEF ShapeInv, Exit, Places

(* It is enough to look at the worker that moves.                          *)
LEMMA ShapeKept ==
  ASSUME ShapeInv, NEW w \in Workers, Accept(w) \/ Wrapper(w) \/ Reply(w),
         attached' \subseteq Disks, mounts' \subseteq [src : Nodes, at : AllPaths],
         dirs' \subseteq MediaPaths, pc' \in [Workers -> Places],
         outcome' \in [Workers -> Codes], job' \in [Workers -> Jobs], JobFits(w)'
  PROVE  ShapeInv'
<1>1. ASSUME NEW v \in Workers PROVE JobFits(v)'
  <2>1. CASE v = w
    BY <2>1
  <2>2. CASE v # w
    BY <2>2, OthersRest DEF ShapeInv, JobFits
  <2> QED  BY <2>1, <2>2
<1> QED  BY <1>1 DEF ShapeInv

(* The boot.                                                               *)
LEMMA ShapeInit == ASSUME Init PROVE ShapeInv
<1>1. FirstMounts \subseteq [src : Nodes, at : AllPaths]
  BY BootConstants DEF AllPaths
<1>2. pc \in [Workers -> Places] /\ outcome \in [Workers -> Codes] /\ job \in [Workers -> Jobs]
  BY NoJobIsJob DEF Init, Places, Codes
<1>3. \A w \in Workers : JobFits(w)
  BY DEF Init, JobFits, Mounting, Unmounting, Ejecting, Releasing
<1> QED  BY <1>1, <1>2, <1>3 DEF Init, ShapeInv

(* A request arrives or is answered.                                       *)
LEMMA ShapeRequest ==
  ASSUME ShapeInv, NEW w \in Workers, Accept(w) \/ Reply(w) PROVE ShapeInv'
<1>t. /\ job \in [Workers -> Jobs] /\ pc \in [Workers -> Places] /\ outcome \in [Workers -> Codes]
  BY DEF ShapeInv
<1>u. /\ attached' \subseteq Disks /\ mounts' \subseteq [src : Nodes, at : AllPaths]
      /\ dirs' \subseteq MediaPaths
  BY DEF ShapeInv, Accept, Reply, host
<1>1. CASE Accept(w)
  <2>1. PICK verb \in {"mount", "unmount", "eject"}, n \in Nodes :
          /\ DaemonAllows(verb, n)
          /\ job' = [job EXCEPT ![w] = [NoJob EXCEPT !.verb = verb, !.dev = n]]
          /\ Goto(w, verb)
    BY <1>1 DEF Accept
  <2> DEFINE r == [NoJob EXCEPT !.verb = verb, !.dev = n]
  <2>2. r \in Jobs /\ r.verb = verb /\ r.dev = n
    BY NoJobIsJob DEF Jobs
  <2>3. job' = [job EXCEPT ![w] = r]
    BY <2>1
  <2> HIDE DEF r
  <2>4. job' \in [Workers -> Jobs] /\ job'[w] = r
    BY <1>t, <2>2, <2>3, JobSet
  <2>5. verb \in Places
    BY DEF Places, Mounting, Unmounting, Ejecting
  <2>6. pc' \in [Workers -> Places] /\ pc'[w] = verb /\ outcome' = outcome
    BY <2>1, <2>5, GotoDoes
  <2>7. (verb = "eject" => n \in Disks) /\ (verb = "mount" => n \in Parts)
    BY <2>1 DEF DaemonAllows
  <2>8. JobFits(w)'
    BY <2>2, <2>4, <2>6, <2>7 DEF JobFits, Mounting, Unmounting, Ejecting, Releasing
  <2> QED  BY <1>1, <1>t, <1>u, <2>4, <2>6, <2>8, ShapeKept
<1>2. CASE Reply(w)
  <2>1. /\ pc' = [pc EXCEPT ![w] = "idle"] /\ job' = [job EXCEPT ![w] = NoJob]
        /\ outcome' = [outcome EXCEPT ![w] = "none"]
    BY <1>2 DEF Reply
  <2>2. /\ pc' \in [Workers -> Places] /\ pc'[w] = "idle" /\ job' \in [Workers -> Jobs]
        /\ outcome' \in [Workers -> Codes]
    BY <1>t, <2>1, NoJobIsJob DEF Places, Codes
  <2>3. JobFits(w)'
    BY <2>2 DEF JobFits, Mounting, Unmounting, Ejecting, Releasing
  <2> QED  BY <1>2, <1>u, <2>2, <2>3, ShapeKept
<1> QED  BY <1>1, <1>2

(* The steps that do not touch the job.                                    *)
LEMMA ShapeMoves ==
  ASSUME ShapeInv, NEW w \in Workers, Wrapper(w),
         \/ FindMounted(w) \/ ReadVolume(w) \/ MakeDirectory(w) \/ AttachVolume(w) \/ Release(w)
         \/ TidyTarget(w) \/ RefuseSystemDisk(w) \/ TidyDisk(w) \/ Detach(w)
  PROVE  ShapeInv'
<1> USE DEF JobFits, Mounting, Unmounting, Ejecting, Releasing
<1>t. /\ job \in [Workers -> Jobs] /\ pc \in [Workers -> Places] /\ outcome \in [Workers -> Codes]
      /\ attached \subseteq Disks /\ mounts \subseteq [src : Nodes, at : AllPaths] /\ dirs \subseteq MediaPaths
      /\ JobFits(w)
  BY DEF ShapeInv
<1>g. ASSUME NEW x \in Places, Goto(w, x)
      PROVE  /\ pc' \in [Workers -> Places] /\ pc'[w] = x
             /\ outcome' \in [Workers -> Codes]
  BY <1>t, <1>g, GotoDoes
<1>e. ASSUME NEW x \in Codes, Exit(w, x)
      PROVE  /\ pc' \in [Workers -> Places] /\ pc'[w] = "done"
             /\ outcome' \in [Workers -> Codes]
  BY <1>e, ExitDoes
<1>p. {"volume", "fstab", "attach", "swapoff", "mounted", "umount", "next", "tidy", "tree", "detach"} \subseteq Places
  BY DEF Places
<1>c. {"ok", "bad", "refused", "failed", "unsupported"} \subseteq Codes
  BY DEF Codes
<1>1. CASE FindMounted(w)
  <2>1. /\ pc[w] = "mount" /\ UNCHANGED <<attached, mounts, dirs, job>>
        /\ Exit(w, "bad") \/ Exit(w, "ok") \/ Goto(w, "volume")
    BY <1>1 DEF FindMounted, host
  <2>2. pc' \in [Workers -> Places] /\ outcome' \in [Workers -> Codes] /\ pc'[w] \in {"volume", "done"}
    BY <2>1, <1>g, <1>e, <1>p, <1>c
  <2>3. JobFits(w)'
    BY <1>t, <2>1, <2>2
  <2> QED  BY <1>t, <2>1, <2>2, <2>3, ShapeKept
<1>2. CASE MakeDirectory(w)
  <2>1. /\ pc[w] = "mkdir" /\ UNCHANGED <<attached, mounts, job>>
        /\ Goto(w, "attach") \/ Exit(w, "failed")
        /\ dirs' \subseteq dirs \cup {job[w].target}
    BY <1>2 DEF MakeDirectory, host
  <2>2. pc' \in [Workers -> Places] /\ outcome' \in [Workers -> Codes] /\ pc'[w] \in {"attach", "done"}
    BY <2>1, <1>g, <1>e, <1>p, <1>c
  <2>3. job[w].target \in OwnPaths(job[w].dev) /\ job[w].dev \in Parts
    BY <1>t, <2>1
  <2>4. dirs' \subseteq MediaPaths
    BY <1>t, <2>1, <2>3, OwnPathsAreMedia
  <2>5. JobFits(w)'
    BY <1>t, <2>1, <2>2
  <2> QED  BY <1>t, <2>1, <2>2, <2>4, <2>5, ShapeKept
<1>3. CASE AttachVolume(w)
  <2> DEFINE p == job[w].dev
             t == job[w].target
  <2>1. /\ pc[w] = "attach" /\ UNCHANGED <<attached, job>>
        /\ \/ mounts' = mounts \cup {[src |-> p, at |-> t]} /\ Exit(w, "ok") /\ dirs' = dirs
           \/ mounts' = mounts /\ Exit(w, "failed") /\ dirs' \subseteq dirs
    BY <1>3 DEF AttachVolume, RemoveDirs
  <2>2. pc' \in [Workers -> Places] /\ outcome' \in [Workers -> Codes] /\ pc'[w] = "done"
    BY <2>1, <1>e, <1>c
  <2>3. p \in Parts /\ (t \in OwnPaths(p) \/ t = Fstab[p])
    BY <1>t, <2>1
  <2>4. t \in AllPaths
    BY <2>3, OwnPathsAreMedia DEF AllPaths
  <2>5. mounts' \subseteq [src : Nodes, at : AllPaths] /\ dirs' \subseteq MediaPaths
    BY <1>t, <2>1, <2>3, <2>4 DEF Nodes
  <2>6. JobFits(w)'
    BY <1>t, <2>1, <2>2
  <2> QED  BY <1>t, <2>1, <2>2, <2>5, <2>6, ShapeKept
<1>4. CASE CheckTargets(w)
  <2>1. /\ pc[w] = "release" /\ UNCHANGED <<attached, mounts, dirs, job>>
        /\ Exit(w, "refused") \/ Goto(w, "swapoff")
    BY <1>4 DEF CheckTargets, host
  <2>2. pc' \in [Workers -> Places] /\ outcome' \in [Workers -> Codes] /\ pc'[w] \in {"swapoff", "done"}
    BY <2>1, <1>g, <1>e, <1>p, <1>c
  <2>3. JobFits(w)'
    BY <1>t, <2>1, <2>2
  <2> QED  BY <1>t, <2>1, <2>2, <2>3, ShapeKept
<1>5. CASE SwapOff(w)
  <2>1. /\ pc[w] = "swapoff" /\ UNCHANGED <<attached, mounts, dirs, job>>
        /\ Exit(w, "failed") \/ Goto(w, "mounted")
    BY <1>5 DEF SwapOff
  <2>2. pc' \in [Workers -> Places] /\ outcome' \in [Workers -> Codes] /\ pc'[w] \in {"mounted", "done"}
    BY <2>1, <1>g, <1>e, <1>p, <1>c
  <2>3. JobFits(w)'
    BY <1>t, <2>1, <2>2
  <2> QED  BY <1>t, <2>1, <2>2, <2>3, ShapeKept
<1>6. CASE UmountAll(w)
  <2>1. /\ pc[w] = "umount" /\ UNCHANGED <<attached, dirs, job>> /\ mounts' \subseteq mounts
        /\ Exit(w, "failed") \/ Goto(w, IF job[w].verb = "eject" THEN "next" ELSE "tidy")
    BY <1>6 DEF UmountAll, Released
  <2>2. pc' \in [Workers -> Places] /\ outcome' \in [Workers -> Codes]
        /\ pc'[w] \in {IF job[w].verb = "eject" THEN "next" ELSE "tidy", "done"}
    BY <2>1, <1>g, <1>e, <1>p, <1>c
  <2>3. JobFits(w)'
    BY <1>t, <2>1, <2>2
  <2> QED  BY <1>t, <2>1, <2>2, <2>3, ShapeKept
<1>7. CASE TidyTarget(w)
  <2>1. /\ pc[w] = "tidy" /\ UNCHANGED <<attached, mounts, job>> /\ Exit(w, "ok") /\ dirs' \subseteq dirs
    BY <1>7 DEF TidyTarget, RemoveDirs, host
  <2>2. pc' \in [Workers -> Places] /\ outcome' \in [Workers -> Codes] /\ pc'[w] = "done"
    BY <2>1, <1>e, <1>c
  <2>3. JobFits(w)'
    BY <1>t, <2>1, <2>2
  <2> QED  BY <1>t, <2>1, <2>2, <2>3, ShapeKept
<1>8. CASE RefuseSystemDisk(w)
  <2>1. /\ pc[w] = "eject" /\ UNCHANGED <<attached, mounts, dirs, job>>
        /\ Exit(w, "bad") \/ Exit(w, "refused") \/ Goto(w, "tree")
    BY <1>8 DEF RefuseSystemDisk, host
  <2>2. pc' \in [Workers -> Places] /\ outcome' \in [Workers -> Codes] /\ pc'[w] \in {"tree", "done"}
    BY <2>1, <1>g, <1>e, <1>p, <1>c
  <2>3. JobFits(w)'
    BY <1>t, <2>1, <2>2
  <2> QED  BY <1>t, <2>1, <2>2, <2>3, ShapeKept
<1>9. CASE TidyDisk(w)
  <2>1. /\ pc[w] = "tidydisk" /\ UNCHANGED <<attached, mounts, job>> /\ Goto(w, "detach") /\ dirs' \subseteq dirs
    BY <1>9 DEF TidyDisk, RemoveDirs, host
  <2>2. pc' \in [Workers -> Places] /\ outcome' \in [Workers -> Codes] /\ pc'[w] = "detach"
    BY <2>1, <1>g, <1>p
  <2>3. JobFits(w)'
    BY <1>t, <2>1, <2>2
  <2> QED  BY <1>t, <2>1, <2>2, <2>3, ShapeKept
<1>10. CASE Detach(w)
  <2>1. /\ pc[w] = "detach" /\ UNCHANGED <<mounts, dirs, job>> /\ attached' \subseteq attached
        /\ Exit(w, "ok") \/ Exit(w, "unsupported")
    BY <1>10 DEF Detach
  <2>2. pc' \in [Workers -> Places] /\ outcome' \in [Workers -> Codes] /\ pc'[w] = "done"
    BY <2>1, <1>e, <1>c
  <2>3. JobFits(w)'
    BY <1>t, <2>1, <2>2
  <2> QED  BY <1>t, <2>1, <2>2, <2>3, ShapeKept
<1>11. CASE ReadVolume(w)
  <2>1. /\ pc[w] = "volume" /\ UNCHANGED <<attached, mounts, dirs, job>>
        /\ Exit(w, "unsupported") \/ Goto(w, "fstab")
    BY <1>11 DEF ReadVolume, host
  <2>2. pc' \in [Workers -> Places] /\ outcome' \in [Workers -> Codes] /\ pc'[w] \in {"fstab", "done"}
    BY <2>1, <1>g, <1>e, <1>p, <1>c
  <2>3. JobFits(w)'
    BY <1>t, <2>1, <2>2
  <2> QED  BY <1>t, <2>1, <2>2, <2>3, ShapeKept
<1>12. CASE SeeMounted(w)
  <2>1. /\ pc[w] = "mounted" /\ UNCHANGED <<attached, mounts, dirs, job>>
        /\ Goto(w, "umount") \/ Goto(w, IF job[w].verb = "eject" THEN "next" ELSE "tidy")
    BY <1>12 DEF SeeMounted, Released, host
  <2>2. pc' \in [Workers -> Places] /\ outcome' \in [Workers -> Codes]
        /\ pc'[w] \in {IF job[w].verb = "eject" THEN "next" ELSE "tidy", "umount"}
    BY <2>1, <1>g, <1>p
  <2>3. JobFits(w)'
    BY <1>t, <2>1, <2>2
  <2> QED  BY <1>t, <2>1, <2>2, <2>3, ShapeKept
<1> QED  BY <1>1, <1>2, <1>3, <1>4, <1>5, <1>6, <1>7, <1>8, <1>9, <1>10, <1>11, <1>12 DEF Release

(* The steps that assign a shell variable.                                 *)
LEMMA ShapeAssigns ==
  ASSUME ShapeInv, NEW w \in Workers, Wrapper(w),
         FindFstab(w) \/ NamePath(w) \/ AvoidOccupied(w) \/ FindTarget(w) \/ ListTree(w) \/ NextNode(w)
  PROVE  ShapeInv'
<1> USE DEF JobFits, Mounting, Unmounting, Ejecting, Releasing
<1>t. /\ job \in [Workers -> Jobs] /\ pc \in [Workers -> Places] /\ outcome \in [Workers -> Codes]
      /\ attached \subseteq Disks /\ mounts \subseteq [src : Nodes, at : AllPaths] /\ dirs \subseteq MediaPaths
      /\ JobFits(w) /\ job[w] \in Jobs
  BY DEF ShapeInv
<1>g. ASSUME NEW x \in Places, Goto(w, x)
      PROVE  /\ pc' \in [Workers -> Places] /\ pc'[w] = x
             /\ outcome' \in [Workers -> Codes]
  BY <1>t, <1>g, GotoDoes
<1>e. ASSUME NEW x \in Codes, Exit(w, x)
      PROVE  /\ pc' \in [Workers -> Places] /\ pc'[w] = "done"
             /\ outcome' \in [Workers -> Codes]
  BY <1>e, ExitDoes
<1>p. {"attach", "name", "occupied", "mkdir", "release", "next", "tidydisk"} \subseteq Places
  BY DEF Places
<1>c. "bad" \in Codes
  BY DEF Codes
<1>j. ASSUME NEW r \in Jobs, job' = [job EXCEPT ![w] = r] PROVE job' \in [Workers -> Jobs] /\ job'[w] = r
  BY <1>t, <1>j, JobSet
<1>n. ASSUME UNCHANGED job, UNCHANGED <<host, dirs>>,
             \/ Exit(w, "bad")
             \/ Goto(w, "name") /\ pc[w] = "fstab"
             \/ Goto(w, "tidydisk") /\ pc[w] = "next"
      PROVE  ShapeInv'
  <2>1. /\ pc' \in [Workers -> Places] /\ outcome' \in [Workers -> Codes]
        /\ \/ pc'[w] = "done"
           \/ pc'[w] = "name" /\ pc[w] = "fstab"
           \/ pc'[w] = "tidydisk" /\ pc[w] = "next"
    BY <1>n, <1>g, <1>e, <1>p, <1>c
  <2>2. JobFits(w)'
    BY <1>t, <1>n, <2>1
  <2> QED  BY <1>t, <1>n, <2>1, <2>2, ShapeKept DEF host
<1>a. ASSUME NEW t \in AllPaths, NEW x \in {"attach", "occupied", "mkdir"}, UNCHANGED <<host, dirs>>,
             job' = [job EXCEPT ![w] = [job[w] EXCEPT !.target = t]], Goto(w, x),
             job[w].dev \in Parts, job[w].verb = "mount",
             \/ x = "attach" /\ Fstab[job[w].dev] # NoPath /\ t = Fstab[job[w].dev]
             \/ x # "attach" /\ t \in OwnPaths(job[w].dev)
      PROVE  ShapeInv'
  <2> DEFINE p == job[w].dev
             r == [job[w] EXCEPT !.target = t]
  <2>1. r \in Jobs /\ r.verb = "mount" /\ r.dev = p /\ r.target = t
    BY <1>t, <1>a DEF Jobs
  <2>2. job' \in [Workers -> Jobs] /\ job'[w] = r
    BY <1>j, <1>a, <2>1
  <2> HIDE DEF r
  <2>3. pc' \in [Workers -> Places] /\ outcome' \in [Workers -> Codes] /\ pc'[w] = x
    BY <1>g, <1>p, <1>a
  <2>4. JobFits(w)'
    BY <1>a, <2>1, <2>2, <2>3
  <2> QED  BY <1>t, <1>a, <2>2, <2>3, <2>4, ShapeKept DEF host
<1>1. CASE FindFstab(w)
  <2> DEFINE p == job[w].dev
  <2>1. pc[w] = "fstab" /\ p \in Parts /\ job[w].verb = "mount" /\ UNCHANGED <<host, dirs>>
    BY <1>1, <1>t DEF FindFstab
  <2>2. CASE Goto(w, "name") /\ UNCHANGED job
    BY <2>1, <2>2, <1>n
  <2>3. CASE /\ Fstab[p] # NoPath /\ Goto(w, "attach")
             /\ job' = [job EXCEPT ![w] = [job[w] EXCEPT !.target = Fstab[p]]]
    <3>1. Fstab[p] \in AllPaths
      BY <2>1 DEF AllPaths
    <3> QED  BY <1>a, <2>1, <2>3, <3>1
  <2> QED  BY <1>1, <2>2, <2>3 DEF FindFstab
<1>2. CASE NamePath(w) \/ AvoidOccupied(w)
  <2> DEFINE p == job[w].dev
  <2>1. /\ pc[w] \in {"name", "occupied"} /\ p \in Parts /\ job[w].verb = "mount" /\ UNCHANGED <<host, dirs>>
        /\ AvoidOccupied(w) => job[w].target \in OwnPaths(p)
    BY <1>2, <1>t DEF NamePath, AvoidOccupied
  <2>2. PICK t \in OwnPaths(p), x \in {"occupied", "mkdir"} :
          Goto(w, x) /\ job' = [job EXCEPT ![w] = [job[w] EXCEPT !.target = t]]
    <3>1. CASE NamePath(w)
      <4>1. <<Parent(p), Leaf(p)>> \in OwnPaths(p) /\ <<p, p>> \in OwnPaths(p)
        BY DEF OwnPaths
      <4> QED  BY <3>1, <4>1 DEF NamePath
    <3>2. CASE AvoidOccupied(w)
      <4>1. <<job[w].target[1], p>> \in OwnPaths(p)
        BY <2>1, <3>2 DEF OwnPaths
      <4>2. job[w] = [job[w] EXCEPT !.target = job[w].target] /\ job = [job EXCEPT ![w] = job[w]]
        BY <1>t DEF Jobs
      <4>3. CASE job' = job /\ Goto(w, "mkdir")
        BY <2>1, <3>2, <4>2, <4>3
      <4>4. CASE job' = [job EXCEPT ![w] = [job[w] EXCEPT !.target = <<job[w].target[1], p>>]] /\ Goto(w, "mkdir")
        BY <4>1, <4>4
      <4> QED  BY <3>2, <4>3, <4>4 DEF AvoidOccupied
    <3> QED  BY <1>2, <3>1, <3>2
  <2>3. t \in AllPaths
    BY <2>1, OwnPathsAreMedia DEF AllPaths
  <2> QED  BY <1>a, <2>1, <2>2, <2>3
<1>3. CASE FindTarget(w)
  <2> DEFINE p == job[w].dev
             r(t) == [job[w] EXCEPT !.target = t, !.node = p]
  <2>1. /\ pc[w] = "unmount" /\ UNCHANGED <<attached, mounts, dirs>> /\ job[w].verb = "unmount"
        /\ UNCHANGED <<host, dirs>>
    BY <1>t, <1>3 DEF FindTarget, host
  <2>2. CASE Exit(w, "bad") /\ UNCHANGED job
    BY <2>1, <2>2, <1>n
  <2>3. CASE \E t \in TargetsOf(p) : job' = [job EXCEPT ![w] = r(t)] /\ Goto(w, "release")
    <3>1. PICK t \in TargetsOf(p) : job' = [job EXCEPT ![w] = r(t)] /\ Goto(w, "release")
      BY <2>3
    <3>2. t \in AllPaths
      BY <1>t DEF TargetsOf
    <3>3. r(t) \in Jobs /\ r(t).verb = "unmount"
      BY <1>t, <2>1, <3>2 DEF Jobs
    <3>4. pc' \in [Workers -> Places] /\ outcome' \in [Workers -> Codes] /\ pc'[w] = "release"
      BY <1>g, <1>p, <3>1
    <3> HIDE DEF r
    <3>5. job' \in [Workers -> Jobs] /\ job'[w] = r(t)
      BY <1>j, <3>1, <3>3
    <3>6. JobFits(w)'
      BY <3>3, <3>4, <3>5
    <3> QED  BY <1>t, <1>3, <2>1, <3>4, <3>5, <3>6, ShapeKept
  <2> QED  BY <1>3, <2>2, <2>3 DEF FindTarget
<1>4. CASE ListTree(w)
  <2> DEFINE S == IF Exists(job[w].dev) THEN Tree(job[w].dev) ELSE {}
             r == [job[w] EXCEPT !.todo = S]
  <2>1. /\ pc[w] = "tree" /\ UNCHANGED <<attached, mounts, dirs>> /\ Goto(w, "next")
        /\ job' = [job EXCEPT ![w] = r]
    BY <1>4 DEF ListTree, host
  <2>2. S \in SUBSET Nodes
    BY DEF Tree
  <2>3. r \in Jobs /\ r.verb = "eject" /\ r.dev \in Disks
    BY <1>t, <2>1, <2>2 DEF Jobs
  <2>4. pc' \in [Workers -> Places] /\ outcome' \in [Workers -> Codes] /\ pc'[w] = "next"
    BY <1>g, <1>p, <2>1
  <2> HIDE DEF r
  <2>5. job' \in [Workers -> Jobs] /\ job'[w] = r
    BY <1>j, <2>1, <2>3
  <2>6. JobFits(w)'
    BY <2>3, <2>4, <2>5
  <2> QED  BY <1>t, <1>4, <2>1, <2>4, <2>5, <2>6, ShapeKept
<1>5. CASE NextNode(w)
  <2> DEFINE r(n) == [job[w] EXCEPT !.todo = job[w].todo \ {n}, !.node = n]
  <2>1. pc[w] = "next" /\ UNCHANGED <<attached, mounts, dirs>> /\ UNCHANGED <<host, dirs>>
    BY <1>5 DEF NextNode, host
  <2>2. CASE Goto(w, "tidydisk") /\ UNCHANGED job
    BY <2>1, <2>2, <1>n
  <2>3. CASE \E n \in job[w].todo : job' = [job EXCEPT ![w] = r(n)] /\ Goto(w, "release")
    <3>1. PICK n \in job[w].todo : job' = [job EXCEPT ![w] = r(n)] /\ Goto(w, "release")
      BY <2>3
    <3>2. n \in Nodes
      BY <1>t DEF Jobs
    <3>3. r(n) \in Jobs /\ r(n).verb = "eject" /\ r(n).dev \in Disks
      BY <1>t, <2>1, <3>2 DEF Jobs
    <3>4. pc' \in [Workers -> Places] /\ outcome' \in [Workers -> Codes] /\ pc'[w] = "release"
      BY <1>g, <1>p, <3>1
    <3> HIDE DEF r
    <3>5. job' \in [Workers -> Jobs] /\ job'[w] = r(n)
      BY <1>j, <3>1, <3>3
    <3>6. JobFits(w)'
      BY <3>3, <3>4, <3>5
    <3> QED  BY <1>t, <1>5, <2>1, <3>4, <3>5, <3>6, ShapeKept
  <2> QED  BY <1>5, <2>2, <2>3 DEF NextNode
<1> QED  BY <1>1, <1>2, <1>3, <1>4, <1>5

(* A disk comes or goes, or nothing happens.                               *)
LEMMA ShapeWorld ==
  ASSUME ShapeInv, (\E d \in Disks : Pull(d) \/ Rescan(d)) \/ UNCHANGED vars
  PROVE  ShapeInv'
<1>1. attached' \subseteq Disks /\ UNCHANGED <<mounts, dirs, pc, job, outcome>>
  BY DEF ShapeInv, Pull, Rescan, vars
<1> QED  BY <1>1 DEF ShapeInv, JobFits

(* Every step preserves the shape.                                         *)
LEMMA ShapeStep == ASSUME ShapeInv, [Next]_vars PROVE ShapeInv'
<1>1. ASSUME NEW w \in Workers, Wrapper(w) PROVE ShapeInv'
  BY <1>1, ShapeMoves, ShapeAssigns DEF Wrapper, MountVerb, UnmountVerb, EjectVerb
<1> QED  BY <1>1, ShapeRequest, ShapeWorld DEF Next

--------------------------------------------------------------------------------
(***************************************************************************)
(* How a wrapper comes to its next command, and who changes the host.      *)
(***************************************************************************)
Here(w) == UNCHANGED <<host, dirs>> /\ job'[w].dev = job[w].dev /\ job'[w].verb = job[w].verb

MountArrival(w) ==
  LET p == job[w].dev
      t == job[w].target IN
  /\ pc'[w] = "volume" =>
       pc[w] = "mount" /\ TargetsOf(p) = {} /\ job'[w] = job[w] /\ UNCHANGED <<host, dirs>>
  /\ pc'[w] = "fstab" => pc[w] = "volume" /\ Here(w) /\ FsType[p] = "plain"
  /\ pc'[w] = "name" => pc[w] = "fstab" /\ Here(w)
  /\ pc'[w] = "occupied" => pc[w] = "name" /\ Here(w)
  /\ pc'[w] = "mkdir" =>
       /\ pc[w] = "occupied" /\ Here(w)
       /\ \/ job'[w].target = t /\ (SourcesAt(t) = {} \/ p \in SourcesAt(t))
          \/ job'[w].target = <<t[1], p>>
  /\ pc'[w] = "attach" =>
       \/ pc[w] = "mkdir" /\ job'[w] = job[w] /\ UNCHANGED host
       \/ pc[w] = "fstab" /\ Here(w) /\ job'[w].target = Fstab[p]

ReleaseArrival(w) ==
  /\ pc'[w] = "release" =>
       \/ /\ pc[w] = "unmount" /\ job'[w].verb = "unmount" /\ UNCHANGED <<host, dirs>>
          /\ job'[w].node = job[w].dev /\ TargetsOf(job[w].dev) # {}
       \/ /\ pc[w] = "next" /\ Here(w)
          /\ job'[w].node \in job[w].todo
          /\ job'[w].todo = job[w].todo \ {job'[w].node}
  /\ pc'[w] = "swapoff" =>
       /\ pc[w] = "release" /\ TargetsOf(job[w].node) \cap Protected = {}
       /\ job'[w] = job[w] /\ UNCHANGED <<host, dirs>>
  /\ pc'[w] = "mounted" =>
       /\ pc[w] = "swapoff" /\ job[w].node \notin swaps' \ Mapped /\ swaps' \subseteq swaps
       /\ job'[w] = job[w] /\ UNCHANGED <<attached, mounts, dirs>>
  /\ pc'[w] = "umount" => pc[w] = "mounted" /\ job'[w] = job[w] /\ UNCHANGED <<host, dirs>>

EjectArrival(w) ==
  LET d == job[w].dev IN
  /\ pc'[w] = "tree" =>
       pc[w] = "eject" /\ MissesSystem(d) /\ job'[w] = job[w] /\ UNCHANGED <<host, dirs>>
  /\ pc'[w] = "next" =>
       \/ /\ pc[w] = "tree" /\ Here(w)
          /\ job'[w].todo = IF Exists(d) THEN Tree(d) ELSE {}
       \/ /\ pc[w] = "mounted" /\ job[w].verb = "eject" /\ job'[w] = job[w]
          /\ TargetsOf(job[w].node) = {} /\ UNCHANGED <<host, dirs>>
       \/ /\ pc[w] = "umount" /\ job[w].verb = "eject" /\ job'[w] = job[w]
          /\ mounts' = mounts \ {m \in mounts : m.src = job[w].node}
          /\ UNCHANGED <<attached, swaps, dirs>>
  /\ pc'[w] = "tidydisk" =>
       pc[w] = "next" /\ job[w].todo = {} /\ job'[w] = job[w] /\ UNCHANGED <<host, dirs>>
  /\ pc'[w] = "detach" =>
       /\ pc[w] = "tidydisk" /\ job'[w] = job[w] /\ UNCHANGED host
       /\ RemoveDirs({t \in dirs : t[1] = d})
  /\ pc'[w] = "done" /\ job'[w].verb = "eject" /\ outcome'[w] = "ok" =>
       /\ pc[w] = "detach" /\ Exists(d) /\ job'[w] = job[w]
       /\ attached' = attached \ {d} /\ UNCHANGED <<mounts, swaps, dirs>>

Arrival(w) ==
  /\ pc'[w] # pc[w] /\ pc'[w] \in Places \ {"idle", "mount", "unmount", "eject"}
  /\ MountArrival(w) /\ ReleaseArrival(w) /\ EjectArrival(w)

(* Every command of a wrapper arrives that way.                            *)
LEMMA WrapperArrives == ASSUME ShapeInv, NEW w \in Workers, Wrapper(w) PROVE Arrival(w)
<1> USE DEF Arrival, MountArrival, ReleaseArrival, EjectArrival, Here
<1>t. /\ job \in [Workers -> Jobs] /\ pc \in [Workers -> Places] /\ JobFits(w) /\ job[w] \in Jobs
  BY DEF ShapeInv
<1>g. ASSUME NEW x \in Places, Goto(w, x) PROVE pc'[w] = x
  BY <1>g, GotoDoes
<1>e. ASSUME NEW x \in Codes, Exit(w, x) PROVE pc'[w] = "done" /\ outcome'[w] = x
  BY <1>e, ExitDoes
<1>c. Codes = {"none", "ok", "bad", "refused", "failed", "unsupported"}
  BY DEF Codes
<1>p. Places = {"idle", "mount", "volume", "fstab", "name", "occupied", "mkdir", "attach", "unmount",
                "tidy", "release", "swapoff", "mounted", "umount", "eject", "tree", "next", "tidydisk", "detach", "done"}
  BY DEF Places, Mounting, Unmounting, Releasing, Ejecting
<1>v. /\ pc[w] \in {"mount", "volume", "fstab", "name", "occupied", "mkdir", "attach"} => job[w].verb = "mount"
      /\ pc[w] \in {"unmount", "tidy"} => job[w].verb = "unmount"
      /\ pc[w] \in {"release", "swapoff", "mounted", "umount"} => job[w].verb \in {"unmount", "eject"}
      /\ pc[w] \in {"eject", "tree", "next", "tidydisk", "detach"} => job[w].verb = "eject"
  BY <1>t DEF JobFits, Mounting, Unmounting, Releasing, Ejecting
<1>j. ASSUME NEW r, job' = [job EXCEPT ![w] = r] PROVE job'[w] = r
  BY <1>t, <1>j
<1>1. CASE FindMounted(w)
  BY <1>1, <1>g, <1>e, <1>c, <1>p, <1>v DEF FindMounted
<1>2. CASE ReadVolume(w)
  BY <1>2, <1>g, <1>e, <1>c, <1>p, <1>v DEF ReadVolume
<1>16. CASE FindFstab(w)
  BY <1>16, <1>t, <1>g, <1>p DEF FindFstab, Jobs
<1>17. CASE NamePath(w)
  BY <1>17, <1>t, <1>g, <1>p DEF NamePath, Jobs
<1>3. CASE AvoidOccupied(w)
  BY <1>3, <1>t, <1>g, <1>p DEF AvoidOccupied, Jobs
<1>4. CASE MakeDirectory(w)
  BY <1>4, <1>g, <1>e, <1>c, <1>p, <1>v DEF MakeDirectory
<1>5. CASE AttachVolume(w)
  BY <1>5, <1>e, <1>c, <1>p, <1>v DEF AttachVolume
<1>6. CASE CheckTargets(w)
  BY <1>6, <1>g, <1>e, <1>c, <1>p, <1>v DEF CheckTargets
<1>7. CASE SwapOff(w)
  BY <1>7, <1>g, <1>e, <1>c, <1>p, <1>v DEF SwapOff, FoundSwaps
<1>18. CASE SeeMounted(w)
  BY <1>18, <1>g, <1>p, <1>v DEF SeeMounted, Released
<1>8. CASE UmountAll(w)
  BY <1>8, <1>g, <1>e, <1>c, <1>p, <1>v DEF UmountAll, Released
<1>9. CASE FindTarget(w)
  <2>1. pc[w] = "unmount" /\ job[w].verb = "unmount" /\ UNCHANGED <<host, dirs>>
    BY <1>9, <1>v DEF FindTarget
  <2>2. CASE Exit(w, "bad") /\ UNCHANGED job
    BY <1>e, <1>c, <1>p, <2>1, <2>2
  <2>3. CASE \E t \in TargetsOf(job[w].dev) :
               job' = [job EXCEPT ![w].target = t, ![w].node = job[w].dev] /\ Goto(w, "release")
    <3>1. PICK t : job' = [job EXCEPT ![w] = [@ EXCEPT !.target = t, !.node = job[w].dev]] /\ Goto(w, "release")
      BY <2>3
    <3>2. job'[w].verb = "unmount" /\ job'[w].node = job[w].dev
      BY <1>t, <2>1, <3>1 DEF Jobs
    <3>3. TargetsOf(job[w].dev) # {}
      BY <2>3
    <3> QED  BY <1>g, <1>p, <2>1, <3>1, <3>2, <3>3
  <2> QED  BY <1>9, <2>2, <2>3 DEF FindTarget
<1>10. CASE TidyTarget(w)
  BY <1>10, <1>e, <1>c, <1>p, <1>v DEF TidyTarget
<1>11. CASE RefuseSystemDisk(w)
  BY <1>11, <1>g, <1>e, <1>c, <1>p, <1>v DEF RefuseSystemDisk
<1>12. CASE ListTree(w)
  BY <1>12, <1>t, <1>g, <1>p DEF ListTree, Jobs
<1>13. CASE NextNode(w)
  <2>1. pc[w] = "next" /\ UNCHANGED <<host, dirs>>
    BY <1>13 DEF NextNode
  <2>2. CASE job[w].todo = {} /\ Goto(w, "tidydisk") /\ UNCHANGED job
    BY <1>g, <1>p, <2>1, <2>2
  <2>3. CASE \E n \in job[w].todo :
               job' = [job EXCEPT ![w].todo = @ \ {n}, ![w].node = n] /\ Goto(w, "release")
    <3> DEFINE r(n) == [job[w] EXCEPT !.todo = job[w].todo \ {n}, !.node = n]
    <3>1. PICK n \in job[w].todo : job' = [job EXCEPT ![w] = r(n)] /\ Goto(w, "release")
      BY <2>3
    <3>2. job'[w] = r(n)
      BY <1>j, <3>1
    <3>3. /\ r(n).verb = job[w].verb /\ r(n).dev = job[w].dev
          /\ r(n).node = n /\ r(n).todo = job[w].todo \ {n}
      BY <1>t DEF Jobs
    <3> HIDE DEF r
    <3> QED  BY <1>g, <1>p, <2>1, <3>1, <3>2, <3>3
  <2> QED  BY <1>13, <2>2, <2>3 DEF NextNode
<1>14. CASE TidyDisk(w)
  BY <1>14, <1>g, <1>p DEF TidyDisk
<1>15. CASE Detach(w)
  BY <1>15, <1>e, <1>c, <1>p, <1>v DEF Detach
<1> QED  BY <1>1, <1>2, <1>3, <1>4, <1>5, <1>6, <1>7, <1>8, <1>9, <1>10, <1>11, <1>12, <1>13, <1>14, <1>15, <1>16, <1>17, <1>18
         DEF Wrapper, MountVerb, Release, UnmountVerb, EjectVerb

(* In a step, a worker rests, has a request accepted or answered, or its   *)
(* wrapper arrives at the next command.                                    *)
LEMMA WorkerSteps ==
  ASSUME ShapeInv, [Next]_vars, NEW v \in Workers
  PROVE  \/ pc'[v] = pc[v] /\ job'[v] = job[v] /\ outcome'[v] = outcome[v]
         \/ pc'[v] \in {"idle", "mount", "unmount", "eject"} /\ UNCHANGED <<host, dirs>>
         \/ Wrapper(v) /\ Arrival(v)
<1>t. pc \in [Workers -> Places]
  BY DEF ShapeInv
<1>1. CASE \E w \in Workers \ {v} : Accept(w) \/ Wrapper(w) \/ Reply(w)
  BY <1>1, OthersRest
<1>2. CASE Accept(v) \/ Reply(v)
  BY <1>2, <1>t DEF Accept, Reply, Goto
<1>3. CASE Wrapper(v)
  BY <1>3, WrapperArrives
<1>4. CASE (\E d \in Disks : Pull(d) \/ Rescan(d)) \/ UNCHANGED vars
  BY <1>4 DEF Pull, Rescan, vars
<1> QED  BY <1>1, <1>2, <1>3, <1>4 DEF Next

(* Mounts come from mount(2) and go with umount.                           *)
Mounted(w) ==
  /\ pc[w] = "attach" /\ pc'[w] = "done" /\ Exists(job[w].dev)
  /\ mounts' = mounts \cup {[src |-> job[w].dev, at |-> job[w].target]}
Unmounted(w) ==
  /\ pc[w] = "umount" /\ mounts' \subseteq mounts
  /\ \A m \in mounts \ mounts' : m.src = job[w].node

LEMMA MountsChange ==
  ASSUME ShapeInv, [Next]_vars
  PROVE  mounts' = mounts \/ \E w \in Workers : Wrapper(w) /\ (Mounted(w) \/ Unmounted(w))
<1>1. ASSUME NEW w \in Workers, Wrapper(w) PROVE mounts' = mounts \/ Mounted(w) \/ Unmounted(w)
  <2>1. CASE AttachVolume(w)
    BY <2>1, ExitDoes DEF AttachVolume, Mounted, Codes
  <2>2. CASE UmountAll(w)
    BY <2>2 DEF UmountAll, Unmounted
  <2>3. CASE ~(AttachVolume(w) \/ UmountAll(w))
    BY <1>1, <2>3 DEF Wrapper, MountVerb, Release, UnmountVerb, EjectVerb, FindMounted, ReadVolume, FindFstab, NamePath, AvoidOccupied,
       MakeDirectory, CheckTargets, SwapOff, SeeMounted, Released, FindTarget, TidyTarget, RefuseSystemDisk, ListTree, NextNode,
       TidyDisk, Detach, host
  <2> QED  BY <2>1, <2>2, <2>3
<1> QED  BY <1>1 DEF Next, Accept, Reply, Pull, Rescan, host, vars

(* A disk goes when eject detaches it or somebody pulls it; a disk that    *)
(* comes has nothing mounted and no swap.                                  *)
LEMMA DisksChange ==
  ASSUME ShapeInv, [Next]_vars
  PROVE  /\ \A d \in attached \ attached' :
              \/ d \in Pullable /\ UNCHANGED pc
              \/ \E w \in Workers : Wrapper(w) /\ pc[w] = "detach" /\ d = job[w].dev
         /\ \A d \in attached' \ attached :
              /\ \A n \in Tree(d) : TargetsOf(n) = {} /\ n \notin swaps
              /\ UNCHANGED <<mounts, swaps, dirs, pc, job, outcome>>
<1>1. ASSUME NEW w \in Workers, Wrapper(w)
      PROVE  attached' = attached \/ (pc[w] = "detach" /\ attached' = attached \ {job[w].dev})
  BY <1>1 DEF Wrapper, MountVerb, Release, UnmountVerb, EjectVerb, FindMounted, ReadVolume, FindFstab, NamePath, AvoidOccupied,
       MakeDirectory, AttachVolume, CheckTargets, SwapOff, SeeMounted, UmountAll, Released, FindTarget, TidyTarget, RefuseSystemDisk,
       ListTree, NextNode, TidyDisk, Detach, host
<1>2. CASE \E w \in Workers : Wrapper(w)
  BY <1>1, <1>2
<1>3. CASE \E w \in Workers : Accept(w) \/ Reply(w)
  BY <1>3 DEF Accept, Reply, host
<1>4. CASE \E d \in Disks : Pull(d)
  BY <1>4 DEF Pull
<1>5. CASE \E d \in Disks : Rescan(d)
  BY <1>5 DEF Rescan
<1>6. CASE UNCHANGED vars
  BY <1>6 DEF vars
<1> QED  BY <1>2, <1>3, <1>4, <1>5, <1>6 DEF Next

(* Swap only ever goes.                                                    *)
LEMMA SwapsGo == ASSUME [Next]_vars PROVE swaps' \subseteq swaps
<1>1. ASSUME NEW w \in Workers, Wrapper(w) PROVE swaps' \subseteq swaps
  BY <1>1 DEF Wrapper, MountVerb, Release, UnmountVerb, EjectVerb, FindMounted, ReadVolume, FindFstab, NamePath, AvoidOccupied,
       MakeDirectory, AttachVolume, CheckTargets, SwapOff, SeeMounted, UmountAll, Released, FindTarget, TidyTarget, RefuseSystemDisk,
       ListTree, NextNode, TidyDisk, Detach, host
<1> QED  BY <1>1 DEF Next, Accept, Reply, Pull, Rescan, host, vars

(* The type invariant: every variable holds what the script's and the      *)
(* kernel's state can hold, swap never comes back.                         *)
THEOREM DiskctlTypeOK == Spec => []TypeOK
<1>1. Init => ShapeInv /\ swaps \subseteq FirstSwaps
  BY ShapeInit DEF Init
<1>2. ShapeInv /\ swaps \subseteq FirstSwaps /\ [Next]_vars => (ShapeInv /\ swaps \subseteq FirstSwaps)'
  BY ShapeStep, SwapsGo
<1>3. ShapeInv /\ swaps \subseteq FirstSwaps => TypeOK
  BY DEF ShapeInv, TypeOK, Jobs, Codes, Places, Mounting, Unmounting, Releasing, Ejecting
<1> QED  BY <1>1, <1>2, <1>3, PTL DEF Spec

--------------------------------------------------------------------------------
(***************************************************************************)
(* / stays, whatever overlaps.                                             *)
(***************************************************************************)
RootMounts == {m \in FirstMounts : m.at = RootPath}
PastRefusal(w) ==
  /\ job[w].verb = "eject"
  /\ pc[w] \in {"tree", "next", "tidydisk", "detach"} \cup Releasing

(* The walk over a disk's nodes keeps what carries / for later, or stops.  *)
WalkSpares(w) ==
  job[w].verb = "eject" => \A m \in RootMounts : m.src \in Tree(job[w].dev) =>
    /\ pc[w] \in {"next", "swapoff", "mounted", "umount"} => m.src \in job[w].todo
    /\ pc[w] = "release" => m.src \in job[w].todo \cup {job[w].node}
    /\ pc[w] \notin {"tidydisk", "detach"}

Checked == {"swapoff", "mounted", "umount"}

RootInv ==
  /\ RootMounts \subseteq mounts
  /\ \A m \in mounts : m.at = RootPath => m \in FirstMounts
  /\ \A m \in RootMounts : Exists(m.src)
  /\ \A w \in Workers : pc[w] \in Checked => \A m \in RootMounts : m.src # job[w].node
  /\ \A w \in Workers : WalkSpares(w)

(* An eject gets past the refusal only if lsblk may have shown no node of  *)
(* its disk at a protected path.                                           *)
LEMMA RefusalPassed ==
  ASSUME ShapeInv, [Next]_vars, NEW w \in Workers, PastRefusal(w)'
  PROVE  /\ job'[w].dev = job[w].dev
         /\ \/ PastRefusal(w)
            \/ MissesSystem(job[w].dev) /\ UNCHANGED host
<1>f. JobFits(w)
  BY DEF ShapeInv
<1>1. CASE pc'[w] = pc[w] /\ job'[w] = job[w]
  BY <1>1 DEF PastRefusal
<1>2. CASE Arrival(w)
  BY <1>2, <1>f DEF PastRefusal, Arrival, ReleaseArrival, EjectArrival, Here, JobFits, Releasing, Ejecting, Unmounting
<1>3. CASE pc'[w] \in {"idle", "mount", "unmount", "eject"}
  BY <1>3 DEF PastRefusal, Releasing
<1> QED  BY <1>1, <1>2, <1>3, WorkerSteps

(* A wrapper gets to swapoff only when its node carries nothing protected. *)
LEMMA CheckPassed ==
  ASSUME ShapeInv, [Next]_vars, NEW w \in Workers, pc'[w] \in Checked
  PROVE  /\ job'[w].node = job[w].node
         /\ \/ pc[w] \in Checked
            \/ TargetsOf(job[w].node) \cap Protected = {} /\ UNCHANGED host
BY WorkerSteps DEF Arrival, ReleaseArrival, Checked

LEMMA RootInit == ASSUME Init PROVE RootInv
<1>1. \A m \in FirstMounts : Exists(m.src)
  BY BootConstants, NodesLieOnDisks DEF Init, Exists
<1> QED  BY <1>1 DEF Init, RootInv, RootMounts, WalkSpares, Checked

LEMMA RootStep == ASSUME ShapeInv, RootInv, [Next]_vars PROVE RootInv'
<1>1. RootMounts \subseteq mounts'
  <2>1. \A w \in Workers : Unmounted(w) => RootMounts \subseteq mounts'
    BY DEF RootInv, Unmounted, Checked
  <2> QED  BY <2>1, MountsChange DEF RootInv, Mounted
<1>2. ASSUME NEW m \in mounts', m.at = RootPath PROVE m \in FirstMounts
  <2>1. CASE m \in mounts
    BY <1>2, <2>1 DEF RootInv
  <2>2. CASE m \notin mounts
    <3>1. PICK w \in Workers : pc[w] = "attach" /\ m = [src |-> job[w].dev, at |-> job[w].target]
      BY <2>2, MountsChange DEF Mounted, Unmounted
    <3>2. /\ job[w].dev \in Parts
          /\ job[w].target \in OwnPaths(job[w].dev) \/ job[w].target = Fstab[job[w].dev]
      BY <3>1 DEF ShapeInv, JobFits, Mounting
    <3>3. job[w].target \notin OwnPaths(job[w].dev)
      BY <1>2, <3>1, <3>2, OwnPathsAreMedia, DiskConstants
    <3> QED  BY <1>2, <3>1, <3>2, <3>3, BootConstants
  <2> QED  BY <2>1, <2>2
<1>m. ASSUME NEW m \in RootMounts PROVE m \in mounts /\ m.at \in Protected /\ m.src \in Nodes
  BY DiskConstants, BootConstants DEF RootInv, RootMounts
<1>3. ASSUME NEW m \in RootMounts PROVE Exists(m.src)'
  <2>1. DisksOf(m.src) \subseteq attached
    BY DEF RootInv, Exists
  <2>2. DisksOf(m.src) \cap Pullable = {}
    BY DiskConstants DEF RootMounts
  <2>3. ASSUME NEW w \in Workers, pc[w] = "detach" PROVE job[w].dev \notin DisksOf(m.src)
    BY <2>3, <1>m DEF ShapeInv, JobFits, Ejecting, RootInv, WalkSpares, Tree
  <2> QED  BY <2>1, <2>2, <2>3, DisksChange DEF Exists
<1>4. ASSUME NEW w \in Workers, pc'[w] \in Checked, NEW m \in RootMounts PROVE m.src # job'[w].node
  <2>1. TargetsOf(job[w].node) \cap Protected = {} => m.src # job[w].node
    BY <1>m DEF TargetsOf
  <2> QED  BY <1>4, <2>1, CheckPassed DEF RootInv
<1>5. ASSUME NEW w \in Workers, job'[w].verb = "eject", NEW m \in RootMounts, m.src \in Tree(job'[w].dev)
      PROVE  /\ pc'[w] \in {"next", "swapoff", "mounted", "umount"} => m.src \in job'[w].todo
             /\ pc'[w] = "release" => m.src \in job'[w].todo \cup {job'[w].node}
             /\ pc'[w] \notin {"tidydisk", "detach"}
  <2>f. JobFits(w) /\ WalkSpares(w)
    BY DEF ShapeInv, RootInv
  <2>1. CASE pc'[w] = pc[w] /\ job'[w] = job[w]
    BY <1>5, <2>f, <2>1 DEF WalkSpares
  <2>2. CASE Arrival(w) /\ pc'[w] = "next"
    <3>1. CASE pc[w] = "tree"
      <4>1. job'[w].dev = job[w].dev /\ job[w].dev \in Disks
        BY <2>f, <2>2, <3>1 DEF Arrival, EjectArrival, Here, JobFits, Ejecting
      <4>2. Exists(m.src) /\ job[w].dev \in DisksOf(m.src)
        BY <1>5, <4>1 DEF Tree, RootInv
      <4>3. Exists(job[w].dev)
        BY <4>1, <4>2, DiskIsItself DEF Exists
      <4> QED  BY <1>5, <2>2, <3>1, <4>1, <4>3 DEF Arrival, EjectArrival
    <3>2. CASE pc[w] # "tree"
      BY <1>5, <2>f, <2>2, <3>2 DEF Arrival, EjectArrival, WalkSpares
    <3> QED  BY <3>1, <3>2
  <2>3. CASE Arrival(w) /\ pc'[w] = "release"
    BY <1>5, <2>f, <2>3 DEF Arrival, ReleaseArrival, Here, JobFits, Ejecting, WalkSpares
  <2>4. CASE Arrival(w) /\ pc'[w] = "swapoff"
    <3>1. /\ pc[w] = "release" /\ job'[w] = job[w] /\ TargetsOf(job[w].node) \cap Protected = {}
      BY <2>4 DEF Arrival, ReleaseArrival
    <3>2. m.src # job[w].node
      BY <1>m, <3>1 DEF TargetsOf
    <3> QED  BY <1>5, <2>f, <2>4, <3>1, <3>2 DEF WalkSpares
  <2>5. CASE Arrival(w) /\ pc'[w] \in {"mounted", "umount"}
    BY <1>5, <2>f, <2>5 DEF Arrival, ReleaseArrival, WalkSpares
  <2>6. CASE Arrival(w) /\ pc'[w] \in {"tidydisk", "detach"}
    BY <1>5, <2>f, <2>6 DEF Arrival, EjectArrival, JobFits, Ejecting, WalkSpares
  <2> QED  BY <2>1, <2>2, <2>3, <2>4, <2>5, <2>6, WorkerSteps
<1>6. ASSUME NEW w \in Workers PROVE WalkSpares(w)'
  BY <1>5 DEF WalkSpares, Tree
<1> QED  BY <1>1, <1>2, <1>3, <1>4, <1>6 DEF RootInv

(* "The running system's storage is untouchable": / stays mounted from     *)
(* the devices of the boot and every disk under them stays attached, for   *)
(* any number of overlapping mounts, unmounts and ejects and whatever lies *)
(* on what: / may be on a volume over several disks, on LUKS, on md, to    *)
(* any depth.  Neither guard of the eject is relied on: what carries /     *)
(* stays on the list of the walk until release_device comes to it and      *)
(* refuses.                                                                *)
THEOREM RootIsUntouchable == Spec => []RootStays
<1>1. Init => ShapeInv /\ RootInv
  BY ShapeInit, RootInit
<1>2. ShapeInv /\ RootInv /\ [Next]_vars => (ShapeInv /\ RootInv)'
  BY ShapeStep, RootStep
<1>3. RootInv => RootStays
  BY DEF RootInv, RootStays, RootMounts, RootSources, SourcesAt
<1> QED  BY <1>1, <1>2, <1>3, PTL DEF Spec

--------------------------------------------------------------------------------
(***************************************************************************)
(* Protected mounts, when no request mounts one between another's check    *)
(* and its umount.                                                         *)
(***************************************************************************)
Calm == OneAtATime \/ \A p \in Parts : Fstab[p] \notin Protected

CalmInv ==
  /\ \A w \in Workers : pc[w] \in Checked => TargetsOf(job[w].node) \cap Protected = {}
  /\ \A w \in Workers : PastRefusal(w) => MissesSystem(job[w].dev)

(* A worker that is not mounting sees no protected mount appear.           *)
LEMMA CalmMounts ==
  ASSUME ShapeInv, Calm, [Next]_vars, NEW w \in Workers, pc[w] # "attach"
  PROVE  \A m \in mounts' \ mounts : m.at \notin Protected
<1> SUFFICES ASSUME NEW m \in mounts' \ mounts PROVE m.at \notin Protected
  OBVIOUS
<1>1. PICK v \in Workers : pc[v] = "attach" /\ m = [src |-> job[v].dev, at |-> job[v].target]
  BY MountsChange DEF Mounted, Unmounted
<1>2. \A p \in Parts : Fstab[p] \notin Protected
  BY <1>1 DEF Calm, OneAtATime
<1>3. /\ job[v].dev \in Parts
      /\ job[v].target \in OwnPaths(job[v].dev) \/ job[v].target = Fstab[job[v].dev]
  BY <1>1 DEF ShapeInv, JobFits, Mounting
<1> QED  BY <1>1, <1>2, <1>3, OwnPathsAreMedia, DiskConstants

LEMMA CalmInit == ASSUME Init PROVE CalmInv
BY DEF Init, CalmInv, PastRefusal, Releasing, Checked

LEMMA CalmStep == ASSUME ShapeInv, CalmInv, Calm, [Next]_vars PROVE CalmInv'
<1>1. ASSUME NEW w \in Workers, pc'[w] \in Checked
      PROVE  (TargetsOf(job[w].node) \cap Protected = {})'
  <2>1. /\ job'[w].node = job[w].node /\ TargetsOf(job[w].node) \cap Protected = {}
        /\ mounts' = mounts \/ pc[w] # "attach"
    BY <1>1, CheckPassed DEF CalmInv, host, Checked
  <2> QED  BY <2>1, CalmMounts DEF TargetsOf
<1>2. ASSUME NEW w \in Workers, PastRefusal(w)', NEW n \in Tree(job'[w].dev), (TargetsOf(n) # {})'
      PROVE  (TargetsOf(n) \ Protected # {})'
  <2>1. /\ job'[w].dev = job[w].dev /\ MissesSystem(job[w].dev)
        /\ mounts' = mounts \/ pc[w] # "attach"
    BY <1>2, RefusalPassed DEF CalmInv, host, PastRefusal, Releasing
  <2>2. TargetsOf(n) # {} => TargetsOf(n) \ Protected # {}
    BY <1>2, <2>1 DEF MissesSystem
  <2>3. ASSUME NEW v \in Workers, Unmounted(v) PROVE (TargetsOf(n) \ Protected # {})'
    <3>1. TargetsOf(job[v].node) \cap Protected = {} /\ mounts' \subseteq mounts
      BY <2>3 DEF Unmounted, CalmInv, Checked
    <3>2. CASE n = job[v].node
      BY <1>2, <3>1, <3>2 DEF TargetsOf
    <3>3. CASE n # job[v].node
      <4>1. \A m : m.src = n => (m \in mounts' <=> m \in mounts)
        BY <2>3, <3>1, <3>3 DEF Unmounted
      <4>2. TargetsOf(n)' = TargetsOf(n)
        BY <4>1 DEF TargetsOf
      <4> QED  BY <1>2, <2>2, <4>2
    <3> QED  BY <3>2, <3>3
  <2>4. CASE mounts' = mounts
    BY <1>2, <2>2, <2>4 DEF TargetsOf
  <2>5. ASSUME NEW v \in Workers, Mounted(v), pc[w] # "attach" PROVE (TargetsOf(n) \ Protected # {})'
    <3>1. mounts \subseteq mounts' /\ \A m \in mounts' \ mounts : m.at \notin Protected
      BY <2>5, CalmMounts DEF Mounted
    <3> QED  BY <1>2, <2>2, <3>1 DEF TargetsOf
  <2> QED  BY <2>1, <2>3, <2>4, <2>5, MountsChange
<1>3. ASSUME NEW w \in Workers, PastRefusal(w)' PROVE MissesSystem(job[w].dev)'
  BY <1>2, <1>3 DEF MissesSystem, Tree
<1> QED  BY <1>1, <1>3 DEF CalmInv

LEMMA CalmAlways == ASSUME Calm PROVE Spec => [](ShapeInv /\ CalmInv)
<1>1. Init => ShapeInv /\ CalmInv
  BY ShapeInit, CalmInit
<1>2. ShapeInv /\ CalmInv /\ [Next]_vars => (ShapeInv /\ CalmInv)'
  BY ShapeStep, CalmStep
<1> QED  BY <1>1, <1>2, PTL DEF Spec

(* "The mounts the OS lives on cannot be unmounted": no step takes a mount *)
(* from a protected path, as long as requests do not overlap or /etc/fstab *)
(* gives no partition a protected path.                                    *)
THEOREM ProtectedMountsAreKept == ASSUME Calm PROVE Spec => ProtectedMountsStay
<1>1. ShapeInv /\ CalmInv /\ [Next]_vars => [\A m \in mounts \ mounts' : m.at \notin Protected]_vars
  <2> SUFFICES ASSUME ShapeInv, CalmInv, [Next]_vars, NEW m \in mounts \ mounts' PROVE m.at \notin Protected
    OBVIOUS
  <2>1. PICK w \in Workers : pc[w] = "umount" /\ m.src = job[w].node
    BY MountsChange DEF Mounted, Unmounted
  <2> QED  BY <2>1 DEF CalmInv, TargetsOf, Checked
<1> QED  BY <1>1, CalmAlways, PTL DEF Spec, ProtectedMountsStay

(* A wrapper is never started twice, and looks before it touches.          *)
LEMMA RefusalIsFirst ==
  ASSUME NEW w \in Workers, Wrapper(w), pc[w] \in {"idle", "eject", "done"}
  PROVE  UNCHANGED host
BY DEF Wrapper, MountVerb, Release, UnmountVerb, EjectVerb, FindMounted, ReadVolume, FindFstab, NamePath, AvoidOccupied, MakeDirectory,
   AttachVolume, CheckTargets, SwapOff, SeeMounted, UmountAll, Released, FindTarget, TidyTarget, RefuseSystemDisk, ListTree, NextNode,
   TidyDisk, Detach, host

(* "Either firing refuses the eject": once a device of the disk is mounted *)
(* at protected paths only, whatever lsblk shows of it, the eject leaves   *)
(* every mount and swap of the disk alone, on the same condition.          *)
THEOREM RefusalIsHarmless == ASSUME Calm PROVE Spec => RefusalTouchesNothing
<1> DEFINE A == \A w \in Workers : \A n \in Tree(job[w].dev) :
                  (job[w].verb = "eject" /\ pc'[w] # pc[w] /\ TargetsOf(n) # {} /\ TargetsOf(n) \subseteq Protected) =>
                    UNCHANGED <<mounts, swaps>>
<1>1. ShapeInv /\ CalmInv /\ [Next]_vars => [A]_vars
  <2> SUFFICES ASSUME ShapeInv, CalmInv, [Next]_vars, NEW w \in Workers, NEW n \in Tree(job[w].dev),
                      job[w].verb = "eject", pc'[w] # pc[w], TargetsOf(n) # {}, TargetsOf(n) \subseteq Protected
               PROVE  UNCHANGED host
    BY DEF host
  <2>c. ~PastRefusal(w)
    BY DEF CalmInv, MissesSystem
  <2>1. pc[w] \in {"idle", "eject", "done"}
    BY <2>c DEF ShapeInv, JobFits, PastRefusal, Places, Mounting, Unmounting, Releasing, Ejecting
  <2> QED  BY <2>1, RefusalIsFirst, WorkerSteps
<1> HIDE DEF A
<1>2. RefusalTouchesNothing <=> [][A]_vars
  BY DEF RefusalTouchesNothing, A
<1> QED  BY <1>1, <1>2, CalmAlways, PTL DEF Spec

--------------------------------------------------------------------------------
(***************************************************************************)
(* One request at a time.                                                  *)
(***************************************************************************)
Clean(n) == TargetsOf(n) = {} /\ n \notin FoundSwaps

(* Whoever rests while another could have moved: only disks come and go.   *)
LEMMA Alone ==
  ASSUME OneAtATime, ShapeInv, [Next]_vars, NEW w \in Workers, pc'[w] = pc[w]
  PROVE  UNCHANGED <<mounts, swaps, dirs, pc, job, outcome>>
<1>t. pc \in [Workers -> Places]
  BY DEF ShapeInv
<1>1. ~(Accept(w) \/ Reply(w))
  BY <1>t DEF Accept, Reply, Goto
<1>2. ~Wrapper(w)
  BY WrapperArrives DEF Arrival
<1>3. (\E d \in Disks : Pull(d) \/ Rescan(d)) \/ UNCHANGED vars
  BY <1>1, <1>2 DEF Next, OneAtATime
<1> QED  BY <1>3 DEF Pull, Rescan, vars

(* A mount request has found its partition unmounted.                      *)
FreshInv ==
  \A w \in Workers : pc[w] \in {"volume", "fstab", "name", "occupied", "mkdir", "attach"} => TargetsOf(job[w].dev) = {}

LEMMA FreshStep == ASSUME OneAtATime, ShapeInv, FreshInv, [Next]_vars PROVE FreshInv'
<1>1. ASSUME NEW w \in Workers, pc'[w] \in {"volume", "fstab", "name", "occupied", "mkdir", "attach"}
      PROVE  (TargetsOf(job[w].dev) = {})'
  <2>1. CASE Arrival(w)
    <3>1. job'[w].dev = job[w].dev /\ TargetsOf(job[w].dev) = {} /\ mounts' = mounts
      BY <1>1, <2>1 DEF Arrival, MountArrival, Here, host, FreshInv
    <3> QED  BY <3>1 DEF TargetsOf
  <2>2. CASE pc'[w] = pc[w]
    BY <1>1, <2>2, Alone DEF FreshInv, TargetsOf
  <2> QED  BY <1>1, <2>1, <2>2, WorkerSteps
<1> QED  BY <1>1 DEF FreshInv

(* What an eject has taken from its list is clean, unless the disk left:   *)
(* it comes back only clean.                                               *)
CleanInv ==
  \A w \in Workers : job[w].verb = "eject" =>
    /\ pc[w] \in {"next", "tidydisk", "detach"} /\ Exists(job[w].dev) =>
         \A n \in Tree(job[w].dev) \ job[w].todo : Clean(n)
    /\ pc[w] \in {"tidydisk", "detach"} => job[w].todo = {}
    /\ pc[w] \in Releasing /\ Exists(job[w].dev) =>
         \A n \in Tree(job[w].dev) \ (job[w].todo \cup {job[w].node}) : Clean(n)
    /\ pc[w] \in {"mounted", "umount"} => job[w].node \notin FoundSwaps

LEMMA CleanRests ==
  ASSUME OneAtATime, ShapeInv, CleanInv, [Next]_vars, NEW w \in Workers, job'[w].verb = "eject", pc'[w] = pc[w],
         pc[w] \in Ejecting \cup Releasing, Exists(job[w].dev)', ~Exists(job[w].dev)
  PROVE  \A n \in Tree(job[w].dev) : Clean(n)'
<1>1. UNCHANGED <<mounts, swaps, dirs, pc, job, outcome>>
  BY Alone
<1>2. job[w].dev \in Disks
  BY <1>1 DEF ShapeInv, JobFits, Releasing, Ejecting
<1>3. job[w].dev \in attached' \ attached
  BY <1>1, <1>2, DiskIsItself DEF Exists
<1> QED  BY <1>1, <1>3, DisksChange DEF Clean, TargetsOf, FoundSwaps

LEMMA CleanStep == ASSUME OneAtATime, ShapeInv, CleanInv, [Next]_vars PROVE CleanInv'
<1> SUFFICES ASSUME NEW w \in Workers, job'[w].verb = "eject"
             PROVE  /\ pc'[w] \in {"next", "tidydisk", "detach"} /\ Exists(job[w].dev)' =>
                         \A n \in Tree(job'[w].dev) \ job'[w].todo : Clean(n)'
                    /\ pc'[w] \in {"tidydisk", "detach"} => job'[w].todo = {}
                    /\ pc'[w] \in Releasing /\ Exists(job[w].dev)' =>
                         \A n \in Tree(job'[w].dev) \ (job'[w].todo \cup {job'[w].node}) : Clean(n)'
                    /\ pc'[w] \in {"mounted", "umount"} => job'[w].node \notin FoundSwaps'
  BY DEF CleanInv, Tree
<1>1. CASE pc'[w] = pc[w]
  <2>1. UNCHANGED <<mounts, swaps, dirs, pc, job, outcome>>
    BY <1>1, Alone
  <2>2. \A n : Clean(n)' = Clean(n)
    BY <2>1 DEF Clean, TargetsOf, FoundSwaps
  <2>3. FoundSwaps' = FoundSwaps
    BY <2>1 DEF FoundSwaps
  <2> QED  BY <1>1, <2>1, <2>2, <2>3, CleanRests DEF CleanInv, Ejecting, Releasing
<1>2. CASE pc'[w] \in {"idle", "mount", "unmount", "eject"}
  BY <1>2 DEF Releasing
<1>3. CASE Arrival(w)
  <2>k. ASSUME mounts' \subseteq mounts, swaps' \subseteq swaps, NEW n, Clean(n) PROVE Clean(n)'
    BY <2>k DEF Clean, TargetsOf, FoundSwaps
  <2>f. JobFits(w)
    BY DEF ShapeInv
  <2>1. CASE pc'[w] = "next"
    <3>1. CASE pc[w] = "tree"
      BY <1>3, <2>1, <3>1 DEF Arrival, EjectArrival, Here, host, Exists, Releasing
    <3>2. CASE pc[w] # "tree"
      <4>1. /\ pc[w] \in {"mounted", "umount"} /\ job'[w] = job[w] /\ job[w].verb = "eject"
            /\ UNCHANGED <<attached, swaps>> /\ mounts' \subseteq mounts
            /\ (TargetsOf(job[w].node) = {})'
        BY <1>3, <2>1, <3>2 DEF Arrival, EjectArrival, host, TargetsOf
      <4>2. Clean(job[w].node)'
        BY <4>1 DEF Clean, FoundSwaps, CleanInv
      <4>3. ASSUME Exists(job[w].dev)', NEW n \in Tree(job[w].dev) \ job[w].todo PROVE Clean(n)'
        BY <2>k, <4>1, <4>2, <4>3 DEF CleanInv, Exists, Releasing
      <4> QED  BY <2>1, <4>1, <4>3 DEF Releasing
    <3> QED  BY <3>1, <3>2
  <2>2. CASE pc'[w] = "tidydisk"
    BY <1>3, <2>k, <2>2 DEF Arrival, EjectArrival, host, Exists, CleanInv, Releasing
  <2>3. CASE pc'[w] = "detach"
    BY <1>3, <2>k, <2>3 DEF Arrival, EjectArrival, host, Exists, CleanInv, Releasing
  <2>4. CASE pc'[w] = "release"
    BY <1>3, <2>k, <2>4 DEF Arrival, ReleaseArrival, Here, host, Exists, CleanInv, Releasing
  <2>5. CASE pc'[w] = "swapoff"
    BY <1>3, <2>k, <2>5 DEF Arrival, ReleaseArrival, host, Exists, CleanInv, Releasing
  <2>6. CASE pc'[w] = "mounted"
    BY <1>3, <2>k, <2>6 DEF Arrival, ReleaseArrival, Exists, FoundSwaps, CleanInv, Releasing
  <2>7. CASE pc'[w] = "umount"
    BY <1>3, <2>k, <2>7 DEF Arrival, ReleaseArrival, host, Exists, FoundSwaps, CleanInv, Releasing
  <2> QED  BY <2>1, <2>2, <2>3, <2>4, <2>5, <2>6, <2>7 DEF Releasing
<1> QED  BY <1>1, <1>2, <1>3, WorkerSteps

LEMMA CleanAlways == ASSUME OneAtATime PROVE Spec => [](ShapeInv /\ CleanInv)
<1>1. Init => ShapeInv /\ CleanInv
  BY ShapeInit, NoJobIsJob DEF Init, CleanInv
<1>2. ShapeInv /\ CleanInv /\ [Next]_vars => (ShapeInv /\ CleanInv)'
  BY ShapeStep, CleanStep
<1> QED  BY <1>1, <1>2, PTL DEF Spec

(* Eject detaches a disk only after its filesystems are unmounted, at any  *)
(* depth of stacking, and its swap is off, but for swap on device-mapper   *)
(* nodes, also when the disk is pulled and comes back meanwhile.           *)
THEOREM EjectDetachesClean == ASSUME OneAtATime PROVE Spec => DetachIsClean
<1> DEFINE A == \A d \in attached \ attached', w \in Workers : pc[w] = "detach" /\ pc'[w] = "done" =>
                  \A n \in Tree(d) : TargetsOf(n) = {} /\ n \notin FoundSwaps
<1>1. ShapeInv /\ CleanInv /\ [Next]_vars => [A]_vars
  <2> SUFFICES ASSUME ShapeInv, CleanInv, [Next]_vars, NEW d \in attached \ attached', NEW w \in Workers,
                      pc[w] = "detach", pc'[w] = "done", NEW n \in Tree(d)
               PROVE  Clean(n)
    BY DEF Clean
  <2>1. d = job[w].dev
    BY DisksChange DEF OneAtATime
  <2>2. job[w].verb = "eject" /\ job[w].dev \in Disks
    BY DEF ShapeInv, JobFits, Ejecting
  <2> QED  BY <2>1, <2>2, DiskIsItself DEF CleanInv, Exists
<1> HIDE DEF A
<1>2. DetachIsClean <=> [][A]_vars
  BY DEF DetachIsClean, A
<1> QED  BY <1>1, <1>2, CleanAlways, PTL DEF Spec

(* hostek's tree holds partitions, each under its own disk (or, when lsblk *)
(* knew of no disk, itself) and its own label or name.                     *)
OwnTreeInv ==
  \A m \in mounts : m.at \in MediaPaths => m.src \in Parts /\ m.at \in OwnPaths(m.src)

LEMMA OwnTreeStep == ASSUME FstabIsForeign, ShapeInv, OwnTreeInv, [Next]_vars PROVE OwnTreeInv'
<1> SUFFICES ASSUME NEW m \in mounts' \ mounts, m.at \in MediaPaths
             PROVE  m.src \in Parts /\ m.at \in OwnPaths(m.src)
  BY DEF OwnTreeInv
<1>1. PICK w \in Workers : pc[w] = "attach" /\ m = [src |-> job[w].dev, at |-> job[w].target]
  BY MountsChange DEF Mounted, Unmounted
<1> QED  BY <1>1 DEF ShapeInv, JobFits, Mounting, FstabIsForeign

(* Nothing is mounted in a clean disk's part of the tree.                  *)
LEMMA CleanDiskHasNoMounts ==
  ASSUME OwnTreeInv, NEW d \in Disks, \A n \in Tree(d) : Clean(n), NEW t \in MediaPaths, t[1] = d
  PROVE  SourcesAt(t) = {}
<1> SUFFICES ASSUME NEW m \in mounts, m.at = t PROVE FALSE
  BY DEF SourcesAt
<1>1. m.src \in Parts /\ t \in OwnPaths(m.src)
  BY DEF OwnTreeInv
<1>2. t[1] = Parent(m.src)
  BY <1>1, DiskConstants DEF OwnPaths
<1>3. m.src \in Tree(d)
  BY <1>1, <1>2, PartIsOnItsDisk DEF Tree, Nodes
<1> QED  BY <1>3 DEF Clean, TargetsOf

(* The directories an eject has left have something mounted on them.       *)
DirsInv ==
  \A w \in Workers :
    /\ pc[w] = "detach" => \A t \in dirs : t[1] = job[w].dev => SourcesAt(t) # {}
    /\ pc[w] = "done" /\ job[w].verb = "eject" /\ outcome[w] = "ok" => \A t \in dirs : t[1] # job[w].dev

LEMMA DirsStep ==
  ASSUME OneAtATime, ShapeInv, CleanInv, OwnTreeInv, DirsInv, [Next]_vars PROVE DirsInv'
<1>1. ASSUME NEW w \in Workers, pc'[w] = "detach", NEW t \in dirs', t[1] = job'[w].dev
      PROVE  (SourcesAt(t) # {})'
  <2>1. CASE Arrival(w)
    <3>1. job'[w] = job[w] /\ mounts' = mounts /\ RemoveDirs({x \in dirs : x[1] = job[w].dev})
      BY <1>1, <2>1 DEF Arrival, EjectArrival, host
    <3> QED  BY <1>1, <3>1 DEF RemoveDirs, SourcesAt
  <2>2. CASE pc'[w] = pc[w]
    BY <1>1, <2>2, Alone DEF DirsInv, SourcesAt
  <2> QED  BY <1>1, <2>1, <2>2, WorkerSteps
<1>2. ASSUME NEW w \in Workers, pc'[w] = "done", job'[w].verb = "eject", outcome'[w] = "ok", NEW t \in dirs'
      PROVE  t[1] # job'[w].dev
  <2>1. CASE Arrival(w)
    <3>1. pc[w] = "detach" /\ Exists(job[w].dev) /\ job'[w] = job[w] /\ dirs' = dirs
      BY <1>2, <2>1 DEF Arrival, EjectArrival
    <3>2. \A n \in Tree(job[w].dev) : Clean(n)
      BY <1>2, <3>1 DEF CleanInv
    <3>3. t \in MediaPaths /\ job[w].dev \in Disks
      BY <1>2, <3>1 DEF ShapeInv, JobFits, Ejecting
    <3> QED  BY <1>2, <3>1, <3>2, <3>3, CleanDiskHasNoMounts DEF DirsInv
  <2>2. CASE pc'[w] = pc[w]
    BY <1>2, <2>2, Alone DEF DirsInv
  <2> QED  BY <1>2, <2>1, <2>2, WorkerSteps
<1> QED  BY <1>1, <1>2 DEF DirsInv

LEMMA MediaInit == ASSUME Init PROVE \A m \in mounts : m.at \notin MediaPaths
BY BootConstants DEF Init

(* A disk that was ejected leaves none of its mount directories behind,    *)
(* when nothing overlaps and /etc/fstab stays out of hostek's tree.        *)
THEOREM EjectTidiesUp ==
  ASSUME OneAtATime, FstabIsForeign PROVE Spec => []EjectedLeavesNoDirectory
<1> DEFINE I == ShapeInv /\ CleanInv /\ OwnTreeInv /\ DirsInv
<1>1. Init => I
  BY ShapeInit, NoJobIsJob, MediaInit DEF Init, CleanInv, OwnTreeInv, DirsInv
<1>2. I /\ [Next]_vars => I'
  BY ShapeStep, CleanStep, OwnTreeStep, DirsStep
<1>3. I => EjectedLeavesNoDirectory
  BY DEF DirsInv, EjectedLeavesNoDirectory
<1> HIDE DEF I
<1> QED  BY <1>1, <1>2, <1>3, PTL DEF Spec

(* No label is the kernel name of a partition.                             *)
LabelsAreNoNames == \A p \in Parts : Label[p] \notin Parts

(* One volume per path of hostek's tree, and the path a mount goes for is  *)
(* free.                                                                   *)
SoloInv ==
  /\ \A m, k \in mounts : m.at = k.at /\ m.at \in MediaPaths => m.src = k.src
  /\ \A w \in Workers : pc[w] \in {"mkdir", "attach"} /\ job[w].target \in MediaPaths =>
       SourcesAt(job[w].target) = {}

(* The kernel name is unique by construction only among kernel names.      *)
LEMMA OwnNameIsFree ==
  ASSUME LabelsAreNoNames, OwnTreeInv, NEW p \in Parts, TargetsOf(p) = {}, NEW x \in {Parent(p), p}
  PROVE  SourcesAt(<<x, p>>) = {}
<1> SUFFICES ASSUME NEW m \in mounts, m.at = <<x, p>> PROVE FALSE
  BY DEF SourcesAt
<1>1. <<x, p>> \in MediaPaths
  BY OwnPathsAreMedia DEF OwnPaths
<1>2. m.src \in Parts /\ m.at \in OwnPaths(m.src)
  BY <1>1 DEF OwnTreeInv
<1>3. m.src = p
  BY <1>2 DEF OwnPaths, Leaf, LabelsAreNoNames
<1> QED  BY <1>3 DEF TargetsOf

LEMMA SoloStep ==
  ASSUME OneAtATime, FstabIsForeign, LabelsAreNoNames, ShapeInv, FreshInv, OwnTreeInv, SoloInv, [Next]_vars
  PROVE  SoloInv'
<1>1. ASSUME NEW m \in mounts', NEW k \in mounts', m.at = k.at, m.at \in MediaPaths PROVE m.src = k.src
  <2>1. ASSUME NEW w \in Workers, Mounted(w) PROVE m.src = k.src
    <3> DEFINE new == [src |-> job[w].dev, at |-> job[w].target]
    <3>1. mounts' = mounts \cup {new} /\ (job[w].target \in MediaPaths => SourcesAt(job[w].target) = {})
      BY <2>1 DEF Mounted, SoloInv
    <3>2. \A x \in mounts : x.at # job[w].target \/ job[w].target \notin MediaPaths
      BY <3>1 DEF SourcesAt
    <3> QED  BY <1>1, <3>1, <3>2 DEF SoloInv
  <2>2. CASE mounts' \subseteq mounts
    BY <1>1, <2>2 DEF SoloInv
  <2> QED  BY <2>1, <2>2, MountsChange DEF Unmounted
<1>2. ASSUME NEW w \in Workers, pc'[w] \in {"mkdir", "attach"}, job'[w].target \in MediaPaths
      PROVE  (SourcesAt(job[w].target) = {})'
  <2>f. JobFits(w)
    BY DEF ShapeInv
  <2>1. CASE pc'[w] = pc[w]
    BY <1>2, <2>1, Alone DEF SoloInv, SourcesAt
  <2>2. CASE Arrival(w) /\ pc'[w] = "mkdir"
    <3>1. /\ pc[w] = "occupied" /\ mounts' = mounts /\ job[w].dev \in Parts /\ TargetsOf(job[w].dev) = {}
          /\ \/ /\ job'[w].target = job[w].target
                /\ SourcesAt(job[w].target) = {} \/ job[w].dev \in SourcesAt(job[w].target)
             \/ job'[w].target = <<job[w].target[1], job[w].dev>>
          /\ job[w].target \in OwnPaths(job[w].dev)
      BY <2>2, <2>f DEF Arrival, MountArrival, Here, host, FreshInv, JobFits, Mounting
    <3>2. job[w].dev \notin SourcesAt(job[w].target)
      BY <3>1 DEF SourcesAt, TargetsOf
    <3>3. job[w].target[1] \in {Parent(job[w].dev), job[w].dev}
      BY <3>1 DEF OwnPaths
    <3>4. SourcesAt(job'[w].target) = {}
      BY <3>1, <3>2, <3>3, OwnNameIsFree
    <3> QED  BY <3>1, <3>4 DEF SourcesAt
  <2>3. CASE Arrival(w) /\ pc'[w] = "attach"
    <3>1. CASE pc[w] = "mkdir"
      BY <1>2, <2>3, <3>1 DEF Arrival, MountArrival, host, SoloInv, SourcesAt
    <3>2. CASE pc[w] # "mkdir"
      BY <1>2, <2>3, <2>f, <3>2 DEF Arrival, MountArrival, Here, JobFits, Mounting, FstabIsForeign
    <3> QED  BY <3>1, <3>2
  <2> QED  BY <1>2, <2>1, <2>2, <2>3, WorkerSteps
<1> QED  BY <1>1, <1>2 DEF SoloInv

(* hostek never mounts one volume on top of another in its own tree, when  *)
(* nothing overlaps, /etc/fstab stays out of the tree and no label is the  *)
(* kernel name of another partition.                                       *)
THEOREM VolumesHaveTheirOwnPaths ==
  ASSUME OneAtATime, FstabIsForeign, LabelsAreNoNames PROVE Spec => []NeverOvermounts
<1> DEFINE I == ShapeInv /\ FreshInv /\ OwnTreeInv /\ SoloInv
<1>1. Init => I
  BY ShapeInit, MediaInit DEF Init, FreshInv, OwnTreeInv, SoloInv
<1>2. I /\ [Next]_vars => I'
  BY ShapeStep, FreshStep, OwnTreeStep, SoloStep
<1>3. I => NeverOvermounts
  <2> SUFFICES ASSUME SoloInv, NEW t \in MediaPaths PROVE Cardinality(SourcesAt(t)) <= 1
    BY DEF NeverOvermounts
  <2>1. CASE SourcesAt(t) = {}
    BY <2>1, FS_EmptySet
  <2>2. CASE \E n : n \in SourcesAt(t)
    <3>1. PICK n : n \in SourcesAt(t)
      BY <2>2
    <3>2. SourcesAt(t) = {n}
      BY <3>1 DEF SoloInv, SourcesAt
    <3>3. Cardinality(SourcesAt(t)) = 1
      BY ONLY <3>2, FS_Singleton
    <3> QED  BY <3>3
  <2> QED  BY <2>1, <2>2
<1> HIDE DEF I
<1> QED  BY <1>1, <1>2, <1>3, PTL DEF Spec

--------------------------------------------------------------------------------
(***************************************************************************)
(* The script keeps the promise of module Storage.                         *)
(***************************************************************************)
(* A node is swap or mounted, never both; what is being mounted is a plain *)
(* filesystem, and what is being unmounted was mounted, so is no swap.     *)
SwapInv ==
  /\ swaps \subseteq FirstSwaps
  /\ \A m \in mounts : m.src \notin swaps
  /\ \A w \in Workers : pc[w] \in {"fstab", "name", "occupied", "mkdir", "attach"} => FsType[job[w].dev] = "plain"
  /\ \A w \in Workers : pc[w] \in Releasing /\ job[w].verb = "unmount" => job[w].node \notin swaps

LEMMA SwapInit == ASSUME Init PROVE SwapInv
BY BootConstants DEF Init, SwapInv, Releasing

LEMMA SwapStep == ASSUME ShapeInv, SwapInv, [Next]_vars PROVE SwapInv'
<1>1. swaps' \subseteq swaps
  BY SwapsGo
<1>2. ASSUME NEW m \in mounts' PROVE m.src \notin swaps'
  <2>1. CASE m \in mounts
    BY <1>1, <2>1 DEF SwapInv
  <2>2. CASE m \notin mounts
    <3>1. PICK w \in Workers : pc[w] = "attach" /\ m = [src |-> job[w].dev, at |-> job[w].target]
      BY <1>2, <2>2, MountsChange DEF Mounted, Unmounted
    <3>2. job[w].dev \in Parts /\ FsType[job[w].dev] = "plain"
      BY <3>1 DEF ShapeInv, JobFits, Mounting, SwapInv
    <3>3. job[w].dev \notin FirstSwaps
      BY <3>2, BootConstants
    <3> QED  BY <1>1, <3>1, <3>3 DEF SwapInv
  <2> QED  BY <2>1, <2>2
<1>3. ASSUME NEW w \in Workers, pc'[w] \in {"fstab", "name", "occupied", "mkdir", "attach"} PROVE FsType[job'[w].dev] = "plain"
  BY <1>3, WorkerSteps DEF Arrival, MountArrival, Here, SwapInv
<1>4. ASSUME NEW w \in Workers, pc'[w] \in Releasing, job'[w].verb = "unmount" PROVE job'[w].node \notin swaps'
  <2>1. CASE pc'[w] = "release" /\ Arrival(w)
    <3>1. JobFits(w)
      BY DEF ShapeInv
    <3>2. job'[w].node = job[w].dev /\ TargetsOf(job[w].dev) # {}
      BY <1>4, <2>1, <3>1 DEF Arrival, ReleaseArrival, Here, JobFits, Ejecting
    <3>3. job[w].dev \notin swaps
      BY <3>2 DEF TargetsOf, SwapInv
    <3> QED  BY <1>1, <3>2, <3>3
  <2>2. CASE pc'[w] \in Checked /\ Arrival(w)
    BY <1>1, <1>4, <2>2 DEF Arrival, ReleaseArrival, SwapInv, Releasing, Checked
  <2>3. CASE pc'[w] = pc[w] /\ job'[w] = job[w]
    BY <1>1, <1>4, <2>3 DEF SwapInv
  <2> QED  BY <1>4, <2>1, <2>2, <2>3, WorkerSteps DEF Releasing, Checked
<1> QED  BY <1>1, <1>2, <1>3, <1>4 DEF SwapInv

(* An eject works on nodes of its disk.                                    *)
InTreeInv ==
  \A w \in Workers : job[w].verb = "eject" =>
    /\ pc[w] \in {"next"} \cup Releasing => job[w].todo \subseteq Tree(job[w].dev)
    /\ pc[w] \in Releasing => job[w].node \in Tree(job[w].dev)

LEMMA InTreeStep == ASSUME ShapeInv, InTreeInv, [Next]_vars PROVE InTreeInv'
<1> SUFFICES ASSUME NEW w \in Workers, job'[w].verb = "eject", pc'[w] \in {"next"} \cup Releasing
             PROVE  /\ job'[w].todo \subseteq Tree(job'[w].dev)
                    /\ pc'[w] \in Releasing => job'[w].node \in Tree(job'[w].dev)
  BY DEF InTreeInv, Tree
<1>f. JobFits(w)
  BY DEF ShapeInv
<1>1. CASE pc'[w] = pc[w] /\ job'[w] = job[w]
  BY <1>1 DEF InTreeInv
<1>2. CASE Arrival(w) /\ pc'[w] = "next"
  BY <1>2 DEF Arrival, EjectArrival, Here, InTreeInv, Releasing
<1>3. CASE Arrival(w) /\ pc'[w] = "release"
  BY <1>f, <1>3 DEF Arrival, ReleaseArrival, Here, InTreeInv, Releasing, JobFits, Ejecting
<1>4. CASE Arrival(w) /\ pc'[w] \in Checked
  BY <1>4 DEF Arrival, ReleaseArrival, InTreeInv, Releasing, Checked
<1> QED  BY <1>1, <1>2, <1>3, <1>4, WorkerSteps DEF Releasing, Checked

(* The words of Storage are those of the script.                           *)
LEMMA PromiseWords ==
  /\ \A n : Promise!PathsOf(n) = TargetsOf(n)
  /\ \A t : Promise!NodesAt(t) = SourcesAt(t)
  /\ \A d : Promise!NodesOn(d) = Tree(d)
  /\ \A d : Promise!CarriesSystem(d) => ~MissesSystem(d)
  /\ \A d : (\A n \in Tree(d) : TargetsOf(n) = {}) => ~Promise!Mounted(d)
<1>1. \A n : Promise!PathsOf(n) = TargetsOf(n)
  BY DEF Promise!PathsOf, TargetsOf
<1>2. \A t : Promise!NodesAt(t) = SourcesAt(t)
  BY DEF Promise!NodesAt, SourcesAt
<1>3. \A d : Promise!NodesOn(d) = Tree(d)
  BY DEF Promise!NodesOn, Tree
<1>4. \A d : Promise!CarriesSystem(d) => ~MissesSystem(d)
  BY <1>1, <1>3 DEF Promise!CarriesSystem, MissesSystem
<1>5. \A d : (\A n \in Tree(d) : TargetsOf(n) = {}) => ~Promise!Mounted(d)
  BY <1>1, <1>3 DEF Promise!Mounted
<1> QED  BY <1>1, <1>2, <1>3, <1>4, <1>5

(* A wrapper's command is one step of the promise, or none.                *)
LEMMA WrapperKeepsPromise ==
  ASSUME ShapeInv, CalmInv, FreshInv, CleanInv, SoloInv, SwapInv, InTreeInv, NEW w \in Workers, Wrapper(w)
  PROVE  UNCHANGED host \/ Promise!Next
<1>f. JobFits(w) /\ job[w] \in Jobs
  BY DEF ShapeInv
<1>1. CASE AttachVolume(w)
  <2> DEFINE p == job[w].dev
             t == job[w].target
  <2>1. pc[w] = "attach" /\ UNCHANGED <<attached, swaps>>
    BY <1>1 DEF AttachVolume
  <2>2. CASE mounts' = mounts
    BY <2>1, <2>2 DEF host
  <2>3. CASE mounts' # mounts
    <3>1. Exists(p) /\ mounts' = mounts \cup {[src |-> p, at |-> t]}
      BY <1>1, <2>3 DEF AttachVolume
    <3>2. p \in Parts /\ TargetsOf(p) = {} /\ (t \in MediaPaths => SourcesAt(t) = {})
      BY <1>f, <2>1 DEF JobFits, Mounting, FreshInv, SoloInv
    <3>3. t \in AllPaths
      BY <1>f, <2>1, <3>2, OwnPathsAreMedia DEF JobFits, AllPaths
    <3>4. Promise!Mount(p, t)
      BY <2>1, <3>1, <3>2, PromiseWords DEF Promise!Mount, Exists
    <3>5. p \in Nodes
      BY <3>2 DEF Nodes
    <3> QED  BY <3>3, <3>4, <3>5 DEF Promise!Next
  <2> QED  BY <2>2, <2>3
<1>2. CASE UmountAll(w)
  <2>1. /\ pc[w] = "umount" /\ UNCHANGED <<attached, swaps>> /\ mounts' \subseteq mounts
        /\ \A m \in mounts \ mounts' : m.src = job[w].node
    BY <1>2 DEF UmountAll
  <2>2. TargetsOf(job[w].node) \cap Protected = {}
    BY <2>1 DEF CalmInv, Checked
  <2>3. Promise!Unmount(job[w].node)
    BY <2>1, <2>2, PromiseWords DEF Promise!Unmount
  <2>4. job[w].node \in Nodes
    BY <1>f DEF Jobs
  <2> QED  BY <2>3, <2>4 DEF Promise!Next
<1>3. CASE SwapOff(w)
  <2> DEFINE n == job[w].node
  <2>1. pc[w] = "swapoff" /\ UNCHANGED <<attached, mounts>> /\ swaps' \in {swaps, swaps \ {n}}
    BY <1>3 DEF SwapOff
  <2>2. CASE swaps' = swaps
    BY <2>1, <2>2 DEF host
  <2>3. CASE swaps' # swaps
    <3>1. n \in swaps /\ swaps' = swaps \ {n}
      BY <2>1, <2>3
    <3>2. job[w].verb = "eject" /\ job[w].dev \in Disks
      BY <1>f, <2>1, <3>1 DEF JobFits, SwapInv, Releasing
    <3>3. MissesSystem(job[w].dev)
      BY <2>1, <3>2 DEF CalmInv, PastRefusal, Releasing
    <3>4. n \in Nodes
      BY <1>f DEF Jobs
    <3>5. job[w].dev \in DisksOf(n)
      BY <2>1, <3>2 DEF InTreeInv, Releasing, Tree
    <3>6. Promise!SwapOff(n)
      BY <2>1, <3>1, <3>3, <3>5, PromiseWords DEF Promise!SwapOff
    <3> QED  BY <3>4, <3>6 DEF Promise!Next
  <2> QED  BY <2>2, <2>3
<1>4. CASE Detach(w)
  <2> DEFINE d == job[w].dev
  <2>1. pc[w] = "detach" /\ UNCHANGED <<mounts, swaps>> /\ (attached' = attached \/ (Exists(d) /\ attached' = attached \ {d}))
    BY <1>4 DEF Detach
  <2>2. CASE attached' = attached
    BY <2>1, <2>2 DEF host
  <2>3. CASE attached' # attached
    <3>1. Exists(d) /\ attached' = attached \ {d}
      BY <2>1, <2>3
    <3>2. job[w].verb = "eject" /\ d \in Disks
      BY <1>f, <2>1 DEF JobFits, Ejecting
    <3>3. \A n \in Tree(d) : Clean(n)
      BY <2>1, <3>1, <3>2 DEF CleanInv
    <3>4. Promise!Detach(d)
      BY <2>1, <3>1, <3>3, PromiseWords DEF Promise!Detach, Clean, FoundSwaps
    <3> QED  BY <3>2, <3>4 DEF Promise!Next
  <2> QED  BY <2>2, <2>3
<1>5. CASE ~(AttachVolume(w) \/ UmountAll(w) \/ SwapOff(w) \/ Detach(w))
  BY <1>5 DEF Wrapper, MountVerb, Release, UnmountVerb, EjectVerb, FindMounted, ReadVolume, FindFstab, NamePath, AvoidOccupied,
     MakeDirectory, CheckTargets, SeeMounted, Released, FindTarget, TidyTarget, RefuseSystemDisk, ListTree, NextNode, TidyDisk, host
<1> QED  BY <1>1, <1>2, <1>3, <1>4, <1>5

(* "Refuses the disk that carries the running system", "already mounted",  *)
(* "so hostek never overmounts one volume on top of another": command by   *)
(* command the host changes only as Storage allows at that very moment,    *)
(* when nothing overlaps, /etc/fstab stays out of hostek's tree and no     *)
(* label is the kernel name of another partition.                          *)
THEOREM StorageIsKept ==
  ASSUME OneAtATime, FstabIsForeign, LabelsAreNoNames PROVE Spec => ImplementsStorage
<1> DEFINE I == /\ ShapeInv /\ CalmInv /\ FreshInv /\ CleanInv /\ OwnTreeInv /\ SoloInv
                /\ SwapInv /\ InTreeInv
<1>c. Calm
  BY DEF Calm
<1>1. Init => I
  BY ShapeInit, CalmInit, NoJobIsJob, MediaInit, SwapInit
     DEF Init, FreshInv, CleanInv, OwnTreeInv, SoloInv, InTreeInv
<1>2. I /\ [Next]_vars => I'
  BY <1>c, ShapeStep, CalmStep, FreshStep, CleanStep, OwnTreeStep, SoloStep, SwapStep, InTreeStep
<1>3. Init => Promise!Init
  BY DEF Init, Promise!Init
<1>4. I /\ [Next]_vars => [Promise!Next]_<<attached, mounts, swaps>>
  <2> SUFFICES ASSUME I, [Next]_vars PROVE UNCHANGED host \/ Promise!Next
    BY DEF host
  <2>1. CASE \E w \in Workers : Wrapper(w)
    BY <2>1, WrapperKeepsPromise
  <2>2. CASE \E w \in Workers : Accept(w) \/ Reply(w)
    BY <2>2 DEF Accept, Reply
  <2>3. CASE \E d \in Disks : Pull(d)
    BY <2>3 DEF Pull, Promise!Pull, Promise!Next
  <2>4. CASE \E d \in Disks : Rescan(d)
    <3>1. PICK d \in Disks : Rescan(d)
      BY <2>4
    <3>2. Promise!Rescan(d)
      BY <3>1, PromiseWords DEF Rescan, Promise!Rescan
    <3> QED  BY <3>2 DEF Promise!Next
  <2>5. CASE UNCHANGED vars
    BY <2>5 DEF vars, host
  <2> QED  BY <2>1, <2>2, <2>3, <2>4, <2>5 DEF Next
<1> HIDE DEF I
<1> QED  BY <1>1, <1>2, <1>3, <1>4, PTL DEF Spec, ImplementsStorage, Promise!Spec
================================================================================
