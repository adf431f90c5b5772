-------------------------------- MODULE Thermal --------------------------------
(***************************************************************************)
(* The hardware collector's three probe loops and the temperature chart    *)
(* they make together: the static probe publishes the inventory and the    *)
(* list of components, the SMART probe publishes what each disk answered,  *)
(* the dynamic probe joins a snapshot of both into one point of the chart. *)
(*                                                                         *)
(* Abstractions: the temperature of a disk is the disk that measured it;   *)
(* of the inventory only the number of GPUs is kept; a point is taken      *)
(* whenever the loop gets to it.  SmartProbe has the life of one SMART     *)
(* probe in full; here it is the table it publishes.                       *)
(***************************************************************************)
EXTENDS Naturals, Sequences, SequencesExt

CONSTANTS
  Names,        \* kernel names of disks
  Disks,        \* disks that may be plugged in
  Silent,       \* those that answer no SMART query
  ThermalCap,   \* thermalCap
  MaxRows       \* bound: GPUs the driver lists

ASSUME ThermalConstants ==
  /\ Silent \subseteq Disks /\ ThermalCap \in Nat \ {0} /\ MaxRows \in Nat

VARIABLES
  slot,        \* the disk plugged in under each name
  cpuSensor,   \* the host has a CPU temperature
  lsblkWorks,  \* at least now and then
  inventory,   \* Collector.st: the number of GPUs
  thermCrit,   \* Collector.thermCrit: its GPUs and its disks with their labels
  smart,       \* Collector.smart
  dynGpus,     \* Collector.dyn: the number of GPUs that answer
  static,      \* the static probe between its GPU query and its store; seen:
               \* a snapshot has been taken of the last one
  point,       \* the dynamic probe between its snapshot and its store
  thermRing    \* Collector.thermRing
probed == <<inventory, thermCrit, static>>
fittings == <<cpuSensor, lsblkWorks>>
thermalVars == <<slot, fittings, probed, smart, dynGpus, point, thermRing>>

Empty == "empty"
NoDisks == [n \in {} |-> Empty]
Plugged == {n \in Names : slot[n] # Empty}
Listed(names) == [n \in names |-> slot[n]]
NotProbing == [on |-> FALSE, gpus |-> 0, seen |-> FALSE]
NoPoint == [on |-> FALSE, gpus |-> 0, crit |-> [gpus |-> 0, disks |-> NoDisks], smart |-> NoDisks]

(* Start probes everything once before it starts the loops; the first      *)
(* point is then recorded before the first SMART table is there.           *)
ThermalInit ==
  /\ slot \in [Names -> Disks \cup {Empty}] /\ cpuSensor \in BOOLEAN /\ lsblkWorks \in BOOLEAN
  /\ inventory \in 0 .. MaxRows
  /\ thermCrit = [gpus |-> inventory, disks |-> Listed(Plugged)]
  /\ smart = Listed({n \in Plugged : slot[n] \notin Silent})
  /\ dynGpus = inventory
  /\ static = NotProbing /\ point = NoPoint
  /\ thermRing = IF cpuSensor THEN <<[cpu |-> TRUE, gpus |-> inventory, disks |-> NoDisks]>> ELSE <<>>

--------------------------------------------------------------------------------
(* Somebody plugs a disk in or takes it out.                               *)
PlugIn(n, d) ==
  /\ slot[n] = Empty /\ d \notin {slot[m] : m \in Names}
  /\ slot' = [slot EXCEPT ![n] = d]
  /\ UNCHANGED <<fittings, probed, smart, dynGpus, point, thermRing>>

PullOut(n) ==
  /\ slot[n] # Empty /\ slot' = [slot EXCEPT ![n] = Empty]
  /\ UNCHANGED <<fittings, probed, smart, dynGpus, point, thermRing>>

(* The static probe asks for the GPUs, then for the disks, and stores the  *)
(* inventory with the components derived from it; a failing lsblk leaves   *)
(* the components without disks.  There are ten minutes between two static *)
(* probes and two seconds between two points: one is taken in between.     *)
ProbeGpus ==
  /\ ~static.on /\ static.seen
  /\ \E k \in 0 .. MaxRows : static' = [on |-> TRUE, gpus |-> k, seen |-> FALSE]
  /\ UNCHANGED <<slot, fittings, inventory, thermCrit, smart, dynGpus, point, thermRing>>

MetaOfLastProbe(names) ==                               \* mutant of ThermalMeta
  [gpus |-> inventory, disks |-> Listed(names)]
MetaWithoutDisks(names) ==                              \* mutant of ThermalMeta
  [gpus |-> static.gpus, disks |-> thermCrit.disks]
ThermalMeta(names) == [gpus |-> static.gpus, disks |-> Listed(names)]

StoreStatic(names) ==
  /\ static.on
  /\ inventory' = static.gpus /\ thermCrit' = ThermalMeta(names)
  /\ static' = NotProbing
  /\ UNCHANGED <<slot, fittings, smart, dynGpus, point, thermRing>>

StaticListsDisks == lsblkWorks /\ StoreStatic(Plugged)
StaticListFails == StoreStatic({})

(* The SMART probe replaces the whole table; an empty list of disks, which *)
(* is also what a failing lsblk gives, leaves it as it is.                 *)
SmartTable == Listed({n \in Plugged : slot[n] \notin Silent})

ProbeSmartTable ==
  /\ Plugged # {} /\ smart' = SmartTable
  /\ UNCHANGED <<slot, fittings, probed, dynGpus, point, thermRing>>

(* The dynamic probe reads the sensors and a snapshot of the two tables    *)
(* under the read lock ...                                                 *)
Snapshot ==
  /\ ~point.on
  /\ \E k \in 0 .. MaxRows : point' = [on |-> TRUE, gpus |-> k, crit |-> thermCrit, smart |-> smart]
  /\ static' = [static EXCEPT !.seen = ~static.on]
  /\ UNCHANGED <<slot, fittings, inventory, thermCrit, smart, dynGpus, thermRing>>

(* ... derives the point from them, and stores it.  A component without a  *)
(* temperature is left out, a point without a temperature is not recorded. *)
Least(j, k) == IF j < k THEN j ELSE k
SampleOfTable ==                                        \* mutant of Sample
  [cpu |-> cpuSensor, gpus |-> Least(point.gpus, point.crit.gpus), disks |-> point.smart]
Sample ==
  [cpu |-> cpuSensor, gpus |-> Least(point.gpus, point.crit.gpus),
   disks |-> [n \in DOMAIN point.crit.disks \cap DOMAIN point.smart |-> point.smart[n]]]
Measured(s) == s.cpu \/ s.gpus > 0 \/ s.disks # NoDisks

TrimmedAtTheEnd(seq) ==                                 \* mutant of Trimmed
  IF Len(seq) > ThermalCap THEN SubSeq(seq, 1, ThermalCap) ELSE seq
Trimmed(seq) ==
  IF Len(seq) > ThermalCap THEN SubSeq(seq, Len(seq) - ThermalCap + 1, Len(seq)) ELSE seq

StoreDynamic ==
  /\ point.on
  /\ dynGpus' = point.gpus
  /\ thermRing' = IF Measured(Sample) THEN Trimmed(Append(thermRing, Sample)) ELSE thermRing
  /\ point' = NoPoint
  /\ UNCHANGED <<slot, fittings, probed, smart>>

ThermalLoops ==
  ProbeGpus \/ StaticListsDisks \/ StaticListFails \/ ProbeSmartTable \/ Snapshot \/ StoreDynamic
ThermalNext ==
  ThermalLoops \/ \E n \in Names : PullOut(n) \/ \E d \in Disks : PlugIn(n, d)

(* The tickers keep the three loops going, every command has a timeout.    *)
StaticEnds == StaticListsDisks \/ StaticListFails
ThermalSpec ==
  /\ ThermalInit /\ [][ThermalNext]_thermalVars
  /\ WF_thermalVars(ProbeGpus) /\ WF_thermalVars(StaticEnds)
  /\ SF_thermalVars(StaticListsDisks) /\ WF_thermalVars(ProbeSmartTable)
  /\ WF_thermalVars(Snapshot) /\ WF_thermalVars(StoreDynamic)

--------------------------------------------------------------------------------
(* Get() merges live values into the inventory by row, Thermal() lists the *)
(* components: both are always of one static probe, and the chart is never *)
(* longer than its capacity nor has a point without a temperature.         *)
ChartFollowsProbes ==
  /\ thermCrit.gpus = inventory
  /\ Len(thermRing) <= ThermalCap
  /\ \A i \in DOMAIN thermRing : Measured(thermRing[i])

LatestPoint == Last(thermRing)

(* The chart is a window that slides over the points: when it changes, one *)
(* point is new at its end and the older ones keep their order, the oldest *)
(* going once it is full.  The new point has no row that is not in the     *)
(* component list of its snapshot, whatever the probes published since and *)
(* whatever the SMART table names, and no value of a disk that is silent.  *)
Slides(old, new) ==
  /\ new # <<>> /\ Len(new) = Least(Len(old) + 1, ThermalCap)
  /\ \A i \in 1 .. Len(new) - 1 : new[i] = old[Len(old) - Len(new) + 1 + i]
FitsList(new, crit) ==
  /\ new.gpus <= crit.gpus /\ DOMAIN new.disks \subseteq DOMAIN crit.disks
  /\ \A n \in DOMAIN new.disks : new.disks[n] \in Disks \ Silent
ChartSlides ==
  [][thermRing' # thermRing =>
       Slides(thermRing, thermRing') /\ FitsList(Last(thermRing'), point.crit)]_thermalVars
OnChart(n, d) == thermRing # <<>> /\ n \in DOMAIN LatestPoint.disks /\ LatestPoint.disks[n] = d

(* A disk that answers SMART and stays plugged in gets its own temperature *)
(* on the chart again and again, as long as lsblk works now and then.      *)
PluggedDiskIsCharted ==
  \A n \in Names, d \in Disks \ Silent :
    lsblkWorks /\ <>[](slot[n] = d) => []<>OnChart(n, d)

(* A disk that is taken out for good leaves the chart, even if lsblk never *)
(* works again, on a host that has a CPU temperature to go on with: where  *)
(* nothing is measured any more, the chart stops at its last point.        *)
UnpluggedDiskLeavesChart ==
  \A n \in Names : cpuSensor /\ <>[](slot[n] = Empty) => <>[](\A d \in Disks : ~OnChart(n, d))
================================================================================
