------------------------------- MODULE SmartProbe -------------------------------
(***************************************************************************)
(* The SMART side of backend/internal/hardware: the probe loop             *)
(* (Collector.Start, probeSmart, storeSmart), the depth-1 nudge channel    *)
(* and the Disks handler, over disks that are plugged in, unplugged, stop  *)
(* answering and whose kernel names are used again by other disks.         *)
(*                                                                         *)
(* Abstractions: a disk is the generation of its kernel name (1 is the     *)
(* first disk ever called that); the SMART payload read from a disk is its *)
(* generation; a time stamp is kept as its age in ticks of smartInterval,  *)
(* and ages stop at MaxAge, which is beyond every threshold.  All disks    *)
(* are SATA, the only transport with liveness.                             *)
(***************************************************************************)
EXTENDS Naturals, FiniteSets

CONSTANTS
  Names,        \* kernel names of whole disks
  Readers,      \* Disks() requests being served at the same time
  MaxPlugs      \* bound: how many disks use one name, one after the other

UnreachableAfter == 2               \* diskUnreachable: two probe cycles
MaxAge == UnreachableAfter + 1

ASSUME ProbeConstants == MaxPlugs \in Nat \ {0} /\ IsFiniteSet(Readers)

VARIABLES
  plugged,    \* plugged[n]: generation of the disk lsblk lists as n, or 0
  used,       \* used[n]: generations n has had so far
  answers,    \* names whose disk answers smartctl
  offline,    \* names whose SCSI device the kernel has set offline
  caches,     \* Collector.smart, smartOK and smartTried, published together
  nudge,      \* an element is waiting in smartNudge
  due,        \* the ticker of the probe loop has fired
  ppc,        \* where the probe loop is
  probe,      \* its local variables
  rpc,        \* where each reader is
  reader,     \* its local variables
  started,    \* Start has returned: the loops and the server run
  probed,     \* history: probed[n], the generation the last published probe met as n
  silent,     \* history: silent[n], the age of n's last published answer; MaxAge: none
  cause,      \* history: what woke the running probe
  nudged      \* history: publications caused by a nudge since lsblk's list last changed

world == <<plugged, used, answers, offline>>
probeVars == <<ppc, probe, due, cause>>
readerVars == <<rpc, reader>>
history == <<probed, silent, nudged>>
vars == <<world, caches, nudge, probeVars, readerVars, started, history>>

Listed == {n \in Names : plugged[n] # 0}
Gens == 1 .. MaxPlugs
Ages == 0 .. MaxAge

(* A Go map from names: a function on the names it has a key for.          *)
MapOf(S) == UNION {[D -> S] : D \in SUBSET Names}
NoMap == [n \in {} |-> 0]
(* The map m after m[n] = v.                                               *)
Put(m, n, v) == [x \in DOMAIN m \cup {n} |-> IF x = n THEN v ELSE m[x]]

Caches == [smart : MapOf(Gens), ok : MapOf(Ages), tried : SUBSET Names]
NoCaches == [smart |-> NoMap, ok |-> NoMap, tried |-> {}]

NoProbe == [names |-> {}, todo |-> {}, got |-> NoMap, met |-> NoMap,
            prev |-> NoMap, stamp |-> 0]
NoReader == [rows |-> NoMap, seen |-> NoCaches]

Init ==
  /\ plugged = [n \in Names |-> 1]
  /\ used = [n \in Names |-> 1]
  /\ answers \in SUBSET Names
  /\ offline = {}
  /\ caches = NoCaches
  /\ nudge = FALSE
  /\ due = FALSE
  /\ ppc = "list"
  /\ probe = NoProbe
  /\ rpc = [d \in Readers |-> "idle"]
  /\ reader = [d \in Readers |-> NoReader]
  /\ started = FALSE
  /\ probed = [n \in Names |-> 0]
  /\ silent = [n \in Names |-> MaxAge]
  /\ cause = "start"
  /\ nudged = 0

--------------------------------------------------------------------------------
(***************************************************************************)
(* The hardware and the clock.                                             *)
(***************************************************************************)
Plug(n) ==
  /\ plugged[n] = 0 /\ used[n] < MaxPlugs
  /\ plugged' = [plugged EXCEPT ![n] = used[n] + 1]
  /\ used' = [used EXCEPT ![n] = @ + 1]
  /\ answers' \in {answers \cup {n}, answers}   \* some devices have no SMART
  /\ nudged' = 0
  /\ UNCHANGED <<offline, caches, nudge, probeVars, readerVars, started, probed, silent>>

(* The disk is gone; the kernel reaps its node, or leaves it listed and    *)
(* sets its device offline, now, later or never.                           *)
Unplug(n) ==
  /\ plugged[n] # 0
  /\ \/ plugged' = plugged /\ offline' \in {offline, offline \cup {n}}
     \/ plugged' = [plugged EXCEPT ![n] = 0] /\ offline' = offline \ {n}
  /\ answers' = answers \ {n}
  /\ <<plugged, answers, offline>> # <<plugged', answers', offline'>>
  /\ nudged' = IF plugged' = plugged THEN nudged ELSE 0
  /\ UNCHANGED <<used, caches, nudge, probeVars, readerVars, started, probed, silent>>

Older(m) == [n \in DOMAIN m |-> IF m[n] < MaxAge THEN m[n] + 1 ELSE MaxAge]

(* smartInterval passes: every stamp gets older and the ticker fires.      *)
Tick ==
  /\ started /\ ~due
  /\ due' = TRUE
  /\ caches' = [caches EXCEPT !.ok = Older(@)]
  /\ probe' = [probe EXCEPT !.prev = Older(@),
                            !.stamp = IF ppc = "publish" /\ @ < MaxAge THEN @ + 1 ELSE @]
  /\ reader' = [d \in Readers |-> [reader[d] EXCEPT !.seen.ok = Older(@)]]
  /\ silent' = Older(silent)
  /\ UNCHANGED <<world, nudge, ppc, cause, rpc, started, probed, nudged>>

--------------------------------------------------------------------------------
(***************************************************************************)
(* The probe loop.                                                         *)
(***************************************************************************)
TickWithoutProbe ==                                 \* mutant of WakeByTicker
  /\ ppc = "wait" /\ due
  /\ due' = FALSE
  /\ UNCHANGED <<world, caches, nudge, ppc, probe, cause, readerVars, started, history>>

WakeByTicker ==
  /\ ppc = "wait" /\ due
  /\ due' = FALSE
  /\ ppc' = "list"
  /\ cause' = "ticker"
  /\ UNCHANGED <<world, caches, nudge, probe, readerVars, started, history>>

NudgeWithoutProbe ==                                \* mutant of WakeByNudge
  /\ ppc = "wait" /\ nudge
  /\ nudge' = FALSE
  /\ UNCHANGED <<world, caches, probeVars, readerVars, started, history>>

WakeByNudge ==
  /\ ppc = "wait" /\ nudge
  /\ nudge' = FALSE
  /\ ppc' = "list"
  /\ cause' = "nudge"
  /\ UNCHANGED <<world, caches, due, probe, readerVars, started, history>>

(* wholeDiskNames.                                                         *)
ListNames ==
  /\ ppc = "list" /\ Listed # {}
  /\ probe' = [probe EXCEPT !.names = Listed, !.todo = Listed]
  /\ ppc' = "ask"
  /\ UNCHANGED <<world, caches, nudge, due, cause, readerVars, started, history>>

(* An empty list, because there is no disk or because lsblk failed, ends   *)
(* the probe and keeps the caches.                                         *)
ListNothing ==
  /\ ppc = "list"
  /\ ppc' = "wait"
  /\ started' = TRUE
  /\ UNCHANGED <<world, caches, nudge, due, cause, probe, readerVars, history>>

(* One run of the wrapper: the disk that has the name now answers or not.  *)
AskDisk(n) ==
  /\ ppc = "ask" /\ n \in probe.todo
  /\ probe' = [probe EXCEPT !.todo = @ \ {n},
                            !.met = Put(@, n, plugged[n]),
                            !.got = IF n \in answers THEN Put(@, n, plugged[n]) ELSE @]
  /\ UNCHANGED <<world, caches, nudge, ppc, due, cause, readerVars, started, history>>

(* The previous liveness map is read under RLock, then the clock.          *)
SnapshotLiveness ==
  /\ ppc = "ask" /\ probe.todo = {}
  /\ probe' = [probe EXCEPT !.prev = caches.ok, !.stamp = 0]
  /\ ppc' = "publish"
  /\ UNCHANGED <<world, caches, nudge, due, cause, readerVars, started, history>>

(* A disk that answered is stamped now, a listed but silent one keeps its  *)
(* old stamp, and a name that left the list is dropped.                    *)
StampsNotRenewed(p) ==                              \* mutants of MergedLiveness
  [n \in DOMAIN p.got \cup (p.names \cap DOMAIN p.prev) |->
     IF n \in p.names \cap DOMAIN p.prev THEN p.prev[n] ELSE p.stamp]
StampsNotCarried(p) == [n \in DOMAIN p.got |-> p.stamp]
MergedLiveness(p) ==
  [n \in DOMAIN p.got \cup (p.names \cap DOMAIN p.prev) |->
     IF n \in DOMAIN p.got THEN p.stamp ELSE p.prev[n]]

(* storeSmart: the three maps are published as one.                        *)
Publish ==
  /\ ppc = "publish"
  /\ caches' = [smart |-> probe.got, ok |-> MergedLiveness(probe), tried |-> probe.names]
  /\ probe' = NoProbe
  /\ ppc' = "wait"
  /\ started' = TRUE
  /\ probed' = [n \in Names |-> IF n \in DOMAIN probe.met THEN probe.met[n] ELSE probed[n]]
  /\ silent' = [n \in Names |-> IF n \in DOMAIN probe.got THEN probe.stamp ELSE silent[n]]
  /\ nudged' = IF cause = "nudge" THEN nudged + 1 ELSE nudged
  /\ UNCHANGED <<world, nudge, due, cause, readerVars>>

--------------------------------------------------------------------------------
(***************************************************************************)
(* Disks: list, snapshot the caches, answer, nudge.                        *)
(***************************************************************************)
ListDisks(d) ==
  /\ started /\ rpc[d] = "idle"
  /\ reader' = [reader EXCEPT ![d].rows = [n \in Listed |-> plugged[n]]]
  /\ rpc' = [rpc EXCEPT ![d] = "snapshot"]
  /\ UNCHANGED <<world, caches, nudge, probeVars, started, history>>

SnapshotInTwoReads(d) ==                            \* mutant of SnapshotCaches
  /\ rpc[d] = "snapshot"
  /\ \/ /\ reader' = [reader EXCEPT ![d].seen.ok = caches.ok, ![d].seen.tried = caches.tried]
        /\ UNCHANGED rpc
     \/ /\ reader' = [reader EXCEPT ![d].seen.smart = caches.smart]
        /\ rpc' = [rpc EXCEPT ![d] = "rows"]
  /\ UNCHANGED <<world, caches, nudge, probeVars, started, history>>

SnapshotCaches(d) ==
  /\ rpc[d] = "snapshot"
  /\ reader' = [reader EXCEPT ![d].seen = caches]
  /\ rpc' = [rpc EXCEPT ![d] = "rows"]
  /\ UNCHANGED <<world, caches, nudge, probeVars, started, history>>

(* A disk is called unreachable at once when its device is offline, and    *)
(* else when it used to answer and has been silent for too long.           *)
Unreachable(c, n) ==
  \/ n \in offline
  \/ n \notin DOMAIN c.smart /\ n \in DOMAIN c.ok /\ c.ok[n] > UnreachableAfter

(* The row of disk n in the answer to d.                                   *)
Live(d, n) == n \in DOMAIN reader[d].seen.smart
PendingUntilHealth(d, n) == ~Live(d, n)             \* mutant of SmartPending
SmartPending(d, n) == n \notin reader[d].seen.tried
Answered(d) == rpc[d] = "rows"
Rows(d) == DOMAIN reader[d].rows

(* The nudge is dropped when one is already queued; it never blocks.       *)
AnswerDisks(d) ==
  /\ Answered(d)
  /\ nudge' = (nudge \/ \E n \in Rows(d) : SmartPending(d, n))
  /\ rpc' = [rpc EXCEPT ![d] = "idle"]
  /\ reader' = [reader EXCEPT ![d] = NoReader]
  /\ UNCHANGED <<world, caches, probeVars, started, history>>

(* A failed lsblk gives an empty list: no rows, no nudge, no state.        *)

ServeReader(d) == ListDisks(d) \/ SnapshotCaches(d) \/ AnswerDisks(d)
ProbeStep ==
  \/ ListNames \/ ListNothing \/ SnapshotLiveness \/ Publish
  \/ \E n \in Names : AskDisk(n)

Next ==
  \/ \E n \in Names : Plug(n) \/ Unplug(n)
  \/ Tick
  \/ WakeByTicker \/ WakeByNudge \/ ProbeStep
  \/ \E d \in Readers : ServeReader(d)

Spec == Init /\ [][Next]_vars

(* The probe goroutine and the handlers run on, the browser polls, and     *)
(* lsblk does not fail for ever.                                           *)
Fairness ==
  /\ WF_vars(ProbeStep) /\ WF_vars(WakeByNudge) /\ SF_vars(ListNames)
  /\ \A d \in Readers : WF_vars(ServeReader(d))
(* The clock also runs on.                                                 *)
ClockFairness == WF_vars(Tick) /\ WF_vars(WakeByTicker)

PolledSpec == Spec /\ Fairness

--------------------------------------------------------------------------------
(***************************************************************************)
(* Properties.                                                             *)
(***************************************************************************)
(* Every variable holds what its Go counterpart can hold.                  *)
TypeOK ==
  /\ plugged \in [Names -> 0 .. MaxPlugs] /\ used \in [Names -> Gens]
  /\ answers \subseteq Listed /\ offline \subseteq Listed \ answers
  /\ caches \in Caches
  /\ nudge \in BOOLEAN /\ due \in BOOLEAN /\ started \in BOOLEAN
  /\ ppc \in {"wait", "list", "ask", "publish"}
  /\ probe.todo \subseteq probe.names /\ probe.names \subseteq Names
  /\ rpc \in [Readers -> {"idle", "snapshot", "rows"}]
  /\ \A d \in Readers : reader[d].seen \in Caches

(* A reader (Disks) never sees the health map, the liveness stamps and the *)
(* "probe has run" set from different probe runs: a disk with health has a *)
(* stamp, and a disk with a stamp has been tried (storeSmart's promise).   *)
Coherent(c) == DOMAIN c.smart \subseteq DOMAIN c.ok /\ DOMAIN c.ok \subseteq c.tried
OneProbeRun == Coherent(caches) /\ \A d \in Readers : Coherent(reader[d].seen)

(* A disk is only called unreachable when the kernel has set it offline or *)
(* its last published answer is more than two intervals old: carrying a    *)
(* stamp forward and dropping it with the name never makes a disk look     *)
(* older than it is.                                                       *)
UnreachableIsEarned ==
  \A n \in Names : Unreachable(caches, n) => n \in offline \/ silent[n] > UnreachableAfter

(* Nudges are self-limiting (the comment in Disks): once the list of disks *)
(* stands still, only the probe that was running, the one that then tries  *)
(* all disks, the one queued meanwhile, and one per request that started   *)
(* from an older list are ever published for a nudge, however many polls.  *)
NudgesAreSelfLimiting == nudged <= 3 + Cardinality(Readers)

(* A plug-in does not wait for the ticker: a listed disk that no probe has *)
(* tried is tried, or leaves, though the clock may never tick again.       *)
PendingEndsWithoutTicker ==
  \A n \in Names : (n \in Listed \ caches.tried) ~> (n \notin Listed \/ n \in caches.tried)

(* Whatever reuses a name, a running ticker brings a probe to the disk     *)
(* that has it, unless it leaves first.                                    *)
EveryDiskIsProbed ==
  ClockFairness => \A n \in Names : \A g \in Gens :
    (started /\ plugged[n] = g) ~> (plugged[n] # g \/ probed[n] = g)

(* A disk that answered once and went silent does not look healthy for     *)
(* ever: while the ticker runs it is called unreachable, answers again, or *)
(* leaves the list.                                                        *)
SilentDiskIsFlagged ==
  ClockFairness => \A n \in Names :
    (n \in DOMAIN caches.ok /\ n \notin answers)
      ~> (n \in answers \/ n \notin Listed \/ Unreachable(caches, n))
================================================================================
