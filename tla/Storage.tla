-------------------------------- MODULE Storage --------------------------------
(***************************************************************************)
(* What the storage actions promise: whatever a wrapper looks at and does  *)
(* command by command, the host only ever changes by single steps that are *)
(* allowed at the very moment they happen.  A volume is mounted once, on a *)
(* path of hostek's that is free; a device is unmounted when nothing the   *)
(* system lives on is mounted from it; swap goes off only with a disk that *)
(* does not plainly carry the system; and a disk is detached only when no  *)
(* filesystem of it is in use, nor swap, but on a device-mapper node.      *)
(* Module Diskctl implements this with a script that checks first and acts *)
(* later.                                                                  *)
(***************************************************************************)

CONSTANTS
  Nodes, Disks,
  Mapped,        \* device-mapper nodes
  DisksOf(_),    \* the disks a node lies on
  Paths,         \* where a volume may be mounted
  MediaPaths,    \* hostek's own tree among them
  Protected,     \* the paths the system lives on
  Pullable,      \* disks somebody may pull out
  FirstMounts, FirstSwaps

VARIABLES attached, mounts, swaps

Init == attached = Disks /\ mounts = FirstMounts /\ swaps = FirstSwaps

PathsOf(n) == {m.at : m \in {k \in mounts : k.src = n}}
NodesAt(t) == {m.src : m \in {k \in mounts : k.at = t}}
NodesOn(d) == {n \in Nodes : d \in DisksOf(n)}
CarriesSystem(d) == \E n \in NodesOn(d) : PathsOf(n) # {} /\ PathsOf(n) \subseteq Protected
Mounted(d) == \E n \in NodesOn(d) : PathsOf(n) # {}

Mount(n, t) ==
  /\ UNCHANGED <<attached, swaps>>
  /\ DisksOf(n) \subseteq attached /\ PathsOf(n) = {}
  /\ t \in MediaPaths => NodesAt(t) = {}
  /\ mounts' = mounts \cup {[src |-> n, at |-> t]}

(* All of a device's mounts, or those before the first busy one.           *)
Unmount(n) ==
  /\ PathsOf(n) \cap Protected = {}
  /\ mounts' \subseteq mounts /\ \A m \in mounts \ mounts' : m.src = n
  /\ UNCHANGED <<attached, swaps>>

SwapOff(n) ==
  /\ n \in swaps /\ \E d \in DisksOf(n) : ~CarriesSystem(d)
  /\ swaps' = swaps \ {n}
  /\ UNCHANGED <<attached, mounts>>

Detach(d) ==
  /\ ~Mounted(d) /\ NodesOn(d) \cap swaps \subseteq Mapped
  /\ attached' = attached \ {d}
  /\ UNCHANGED <<mounts, swaps>>

(* The outside.                                                            *)
Pull(d) ==
  /\ d \in Pullable
  /\ attached' = attached \ {d}
  /\ UNCHANGED <<mounts, swaps>>

Rescan(d) ==
  /\ ~Mounted(d) /\ NodesOn(d) \cap swaps = {}
  /\ attached' = attached \cup {d}
  /\ UNCHANGED <<mounts, swaps>>

Next ==
  \/ \E d \in Disks : Detach(d) \/ Pull(d) \/ Rescan(d)
  \/ \E n \in Nodes : Unmount(n) \/ SwapOff(n)
  \/ \E n \in Nodes, t \in Paths : Mount(n, t)

Spec == Init /\ [][Next]_<<attached, mounts, swaps>>
================================================================================
