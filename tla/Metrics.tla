-------------------------------- MODULE Metrics --------------------------------
(***************************************************************************)
(* The metrics collector and the GPU sampler it reads.  One goroutine      *)
(* measures the host and publishes a snapshot, two ring buffers and the    *)
(* averages in one critical section; another replaces the GPU snapshot     *)
(* whenever it likes; readers copy what is published.                      *)
(*                                                                         *)
(* Abstractions: a source (the network counters, the system disk) counts   *)
(* one kind of bytes, and its rate is the bytes told for a sample, before  *)
(* the division by the time since the baseline; a GPU is its power, and an *)
(* average over 1, 5 or 15 minutes is any value the decay may give.        *)
(***************************************************************************)
EXTENDS Integers, Sequences, SequencesExt

CONSTANTS
  Sources,     \* the counters read: network, system disk
  Procs,       \* pids
  RingCap,     \* ringCap
  MaxGpus,     \* bound: GPUs the driver lists
  MaxWatts,    \* bound: power a GPU draws
  MaxCount,    \* bound: value of a counter, bytes moved in all
  MaxSamples   \* bound: samples taken

ASSUME MetricsConstants ==
  /\ RingCap \in Nat \ {0} /\ MaxGpus \in Nat /\ MaxWatts \in Nat
  /\ MaxCount \in Nat /\ MaxSamples \in Nat

VARIABLES
  counter,   \* the kernel's counters
  ledger,    \* per source: bytes told so far, bytes moved since the first
             \* baseline, and whether the counter ever fell
  base,      \* prevNetRx, prevDiskRead: the counter at the last good read
  cpuTime,   \* CPU time of each pid; since: used by its process since listed
  prevProc,  \* Collector.prevProc
  snap,      \* gpu.Sampler.snap: the power of each GPU listed
  decays,    \* gpuPwrLs: the average power of each row
  draft,     \* what sample() has measured and not yet published
  pub,       \* summary, procs, powerAvg: what the readers see
  ring,      \* Collector.ring and powerRing
  powerRing,
  taken      \* samples taken
kernel == <<counter, cpuTime>>
metricsVars == <<kernel, ledger, base, prevProc, snap, decays, draft, pub,
                 ring, powerRing, taken>>

Unread == -1
NoDraft == <<>>
NewProcess == [total |-> 0, since |-> 0]
NoRow == [p \in {} |-> 0]
Blank == [time |-> 0, rows |-> NoRow, gpus |-> <<>>, avgs |-> <<>>]

MetricsInit ==
  /\ counter \in [Sources -> {0, 1}]
  /\ ledger = [s \in Sources |-> [told |-> 0, moved |-> 0, fell |-> FALSE]]
  /\ base = [s \in Sources |-> Unread]
  /\ cpuTime = [p \in Procs |-> NewProcess] /\ prevProc = NoRow
  /\ snap = <<>> /\ decays = <<>>
  /\ draft = NoDraft /\ pub = Blank /\ ring = <<>> /\ powerRing = <<>>
  /\ taken = 0

--------------------------------------------------------------------------------
(* The host: bytes move; an interface goes and takes its count with it;    *)
(* processes use CPU time, end, and leave their pid to another.            *)
Transfer(s) ==
  /\ counter[s] < MaxCount /\ ledger[s].moved < MaxCount
  /\ counter' = [counter EXCEPT ![s] = @ + 1]
  /\ ledger' = [ledger EXCEPT ![s].moved = @ + IF base[s] = Unread THEN 0 ELSE 1]
  /\ UNCHANGED <<base, cpuTime, prevProc, snap, decays, draft, pub, ring, powerRing, taken>>

Fall(s) ==
  /\ \E n \in 0 .. counter[s] - 1 : counter' = [counter EXCEPT ![s] = n]
  /\ ledger' = [ledger EXCEPT ![s].fell = @ \/ base[s] # Unread]
  /\ UNCHANGED <<base, cpuTime, prevProc, snap, decays, draft, pub, ring, powerRing, taken>>

Work(p) ==
  /\ cpuTime[p].total < MaxCount
  /\ cpuTime' = [cpuTime EXCEPT ![p] = [total |-> @.total + 1, since |-> @.since + 1]]
  /\ UNCHANGED <<counter, ledger, base, prevProc, snap, decays, draft, pub, ring,
                 powerRing, taken>>

Recycle(p) ==
  /\ cpuTime' = [cpuTime EXCEPT ![p] = NewProcess]
  /\ UNCHANGED <<counter, ledger, base, prevProc, snap, decays, draft, pub, ring,
                 powerRing, taken>>

(* The GPU sampler replaces its snapshot; a failing nvidia-smi lists none. *)
SampleGpus ==
  /\ \E n \in 0 .. MaxGpus : snap' \in [1 .. n -> 1 .. MaxWatts]
  /\ UNCHANGED <<kernel, ledger, base, prevProc, decays, draft, pub, ring, powerRing, taken>>

--------------------------------------------------------------------------------
(* A counter that reads is told as its difference to the baseline, zero    *)
(* when it is the first or the counter fell, and becomes the baseline; one *)
(* that does not is told as zero and leaves the baseline.                  *)
Rate(s) == IF base[s] # Unread /\ counter[s] >= base[s] THEN counter[s] - base[s] ELSE 0

ReadForgets(good) ==                                    \* mutant of ReadCounters
  /\ base' = [s \in Sources |-> IF s \in good THEN counter[s] ELSE Unread]
  /\ ledger' = [s \in Sources |->
       IF s \in good THEN [ledger[s] EXCEPT !.told = @ + Rate(s)] ELSE ledger[s]]
ReadCounters(good) ==
  /\ base' = [s \in Sources |-> IF s \in good THEN counter[s] ELSE base[s]]
  /\ ledger' = [s \in Sources |->
       IF s \in good THEN [ledger[s] EXCEPT !.told = @ + Rate(s)] ELSE ledger[s]]

(* The processes that can be listed and read get a row; when the listing   *)
(* itself fails, the rows published last are told again.                   *)
Share(p) ==
  IF p \in DOMAIN prevProc /\ cpuTime[p].total >= prevProc[p]
  THEN cpuTime[p].total - prevProc[p] ELSE 0
ProcRows(listed) == [p \in listed |-> [cpu |-> Share(p), used |-> cpuTime[p].since]]

ListProcs(listed) ==
  /\ prevProc' = [p \in listed |-> cpuTime[p].total]
  /\ cpuTime' = [p \in Procs |-> [cpuTime[p] EXCEPT !.since = 0]]

(* An average starts at its first sample and then moves towards each one.  *)
(* There is one for each row ever listed; only the listed rows are told.   *)
Towards(a, w) == (IF a < w THEN a ELSE w) .. (IF a < w THEN w ELSE a)

UnprimedAverage(i) ==                                   \* mutant of NextAverage
  IF i > Len(snap) THEN {decays[i]}
  ELSE Towards(IF i > Len(decays) THEN 0 ELSE decays[i], snap[i])
NextAverage(i) ==
  IF i > Len(snap) THEN {decays[i]}
  ELSE IF i > Len(decays) THEN {snap[i]} ELSE Towards(decays[i], snap[i])

Averages ==
  {new \in [DOMAIN snap \cup DOMAIN decays -> 0 .. MaxWatts] :
     \A i \in DOMAIN new : new[i] \in NextAverage(i)}

Measure ==
  /\ draft = NoDraft /\ taken < MaxSamples
  /\ \E good \in SUBSET Sources : ReadCounters(good)
  /\ \E rows \in {pub.rows} \cup {ProcRows(listed) : listed \in SUBSET Procs}, new \in Averages :
       /\ \/ rows = pub.rows /\ UNCHANGED <<prevProc, cpuTime>>
          \/ rows = ProcRows(DOMAIN rows) /\ ListProcs(DOMAIN rows)
       /\ decays' = new
       /\ draft' = [time |-> taken + 1, rows |-> rows, gpus |-> snap,
                    avgs |-> SubSeq(new, 1, Len(snap))]
  /\ taken' = taken + 1
  /\ UNCHANGED <<counter, snap, pub, ring, powerRing>>

(* Publish: everything in one critical section, each ring trimmed to the   *)
(* newest RingCap points.                                                  *)
Newest(seq) == IF Len(seq) > RingCap THEN SubSeq(seq, Len(seq) - RingCap + 1, Len(seq)) ELSE seq

Publish ==
  /\ draft # NoDraft
  /\ pub' = draft
  /\ ring' = Newest(Append(ring, draft.time))
  /\ powerRing' = Newest(Append(powerRing, [time |-> draft.time, gpus |-> draft.gpus]))
  /\ draft' = NoDraft
  /\ UNCHANGED <<kernel, ledger, base, prevProc, snap, decays, taken>>

MetricsNext ==
  \/ \E s \in Sources : Transfer(s) \/ Fall(s)
  \/ \E p \in Procs : Work(p) \/ Recycle(p)
  \/ SampleGpus \/ Measure \/ Publish

MetricsSpec == MetricsInit /\ [][MetricsNext]_metricsVars

--------------------------------------------------------------------------------
(* Over any run of good and failed reads, the collector has told every     *)
(* byte moved since its first baseline exactly once, except those since    *)
(* the last good read; when a counter fell it has told less, never more.   *)
CountersAreAccounted ==
  \A s \in Sources :
    /\ ledger[s].told <= ledger[s].moved
    /\ ~ledger[s].fell /\ base[s] # Unread =>
         ledger[s].told + (counter[s] - base[s]) = ledger[s].moved

(* A process row tells no CPU time its own process has not used since the  *)
(* listing before, whoever had the pid then.                               *)
SharesAreOwn == \A p \in DOMAIN pub.rows : pub.rows[p].cpu <= pub.rows[p].used

(* Rates and shares tell the host's traffic and work once, to their owner. *)
TrafficIsAccounted == CountersAreAccounted /\ SharesAreOwn

(* What readers see belongs together at every moment: both rings hold the  *)
(* newest samples in order and end in the summary, a row of power averages *)
(* is there for each GPU of the summary, and every average is a power that *)
(* GPUs draw, none of it left unset.                                       *)
HistoryIsCoherent ==
  /\ Len(ring) <= RingCap /\ Len(powerRing) = Len(ring)
  /\ \A i \in DOMAIN ring :
       powerRing[i].time = ring[i] /\ ring[i] = pub.time - Len(ring) + i
  /\ ring # <<>> => Last(powerRing).gpus = pub.gpus
  /\ Len(pub.avgs) = Len(pub.gpus)
  /\ \A i \in DOMAIN pub.avgs : pub.avgs[i] \in 1 .. MaxWatts
================================================================================
