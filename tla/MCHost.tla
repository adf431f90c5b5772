--------------------------------- MODULE MCHost ---------------------------------
(***************************************************************************)
(* The parts of the daemon that run beside each other and share nothing    *)
(* but what the modules name: a behaviour follows one of them, the others  *)
(* rest in an initial state.  The metrics part follows one kind of reading *)
(* at a time, all of them with every outcome of their reads.               *)
(***************************************************************************)
EXTENDS Feeds, Metrics, Thermal, HostSettings, Views, TLC

VARIABLE part

(* Instance: three requests that contradict each other in every field, one *)
(* of them what a shell may ask; a route of each kind.                     *)
MCBodies ==
  {"headless" :> TRUE, [f \in Fields |-> f = "persist"], [f \in {"persist", "resume"} |-> f = "resume"]}
MCRoutes ==
  {[perm |-> {}, csrf |-> FALSE, shared |-> TRUE],
   [perm |-> {"thermal"}, csrf |-> FALSE, shared |-> FALSE],
   [perm |-> {"power"}, csrf |-> TRUE, shared |-> TRUE]}
MCMemberships == {{}, {"thermal"}, {Admin}}

--------------------------------------------------------------------------------
FeedsRest == feed = "net" /\ FeedInit
MetricsRest == counter = [s \in Sources |-> 0] /\ MetricsInit
ThermalRest ==
  slot = [n \in Names |-> Empty] /\ cpuSensor = FALSE /\ lsblkWorks = FALSE /\ inventory = 0 /\ ThermalInit
SettingsRest == os = Off /\ SettingsInit
ViewsRest == groups = [r \in Readers |-> {}] /\ cache = (CHOOSE s \in Slices : TRUE) /\ ViewsInit

Readings == {"net", "procs", "gpus"}

HostInit ==
  \/ /\ part = "feeds" /\ FeedInit
     /\ MetricsRest /\ ThermalRest /\ SettingsRest /\ ViewsRest
  \/ /\ part \in Readings /\ MetricsInit
     /\ FeedsRest /\ ThermalRest /\ SettingsRest /\ ViewsRest
  \/ /\ part = "thermal" /\ ThermalInit
     /\ FeedsRest /\ MetricsRest /\ SettingsRest /\ ViewsRest
  \/ /\ part = "settings" /\ SettingsInit
     /\ FeedsRest /\ MetricsRest /\ ThermalRest /\ ViewsRest
  \/ /\ part = "views" /\ ViewsInit
     /\ FeedsRest /\ MetricsRest /\ ThermalRest /\ SettingsRest

(* The last sample is taken.                                               *)
MetricsOver == taken = MaxSamples /\ draft = NoDraft /\ UNCHANGED metricsVars

MetricsPart ==
  \/ part = "net" /\ \E s \in Sources : Transfer(s) \/ Fall(s)
  \/ part = "procs" /\ \E p \in Procs : Work(p) \/ Recycle(p)
  \/ part = "gpus" /\ SampleGpus
  \/ part \in Readings /\ (Measure \/ Publish \/ MetricsOver)

HostNext ==
  /\ UNCHANGED part
  /\ \/ /\ part = "feeds" /\ FeedNext
        /\ UNCHANGED <<metricsVars, thermalVars, settingsVars, viewsVars>>
     \/ /\ MetricsPart
        /\ UNCHANGED <<feedVars, thermalVars, settingsVars, viewsVars>>
     \/ /\ part = "thermal" /\ ThermalNext
        /\ UNCHANGED <<feedVars, metricsVars, settingsVars, viewsVars>>
     \/ /\ part = "settings" /\ SettingsNext
        /\ UNCHANGED <<feedVars, metricsVars, thermalVars, viewsVars>>
     \/ /\ part = "views" /\ ViewsNext
        /\ UNCHANGED <<feedVars, metricsVars, thermalVars, settingsVars>>

InThermal(A) == part = "thermal" /\ A
HostSpec ==
  /\ HostInit
  /\ [][HostNext]_<<feedVars, metricsVars, thermalVars, settingsVars, viewsVars, part>>
  /\ WF_thermalVars(InThermal(ProbeGpus)) /\ WF_thermalVars(InThermal(StaticEnds))
  /\ SF_thermalVars(InThermal(StaticListsDisks)) /\ WF_thermalVars(InThermal(ProbeSmartTable))
  /\ WF_thermalVars(InThermal(Snapshot)) /\ WF_thermalVars(InThermal(StoreDynamic))
================================================================================
