--------------------------------- MODULE Feeds ---------------------------------
(***************************************************************************)
(* The co-process samplers netmon, diskmon and powermon.  Each keeps one   *)
(* privileged wrapper alive, reads its stream and publishes what the       *)
(* stream says under a lock.  The three loops are alike and share nothing, *)
(* so a behaviour follows one of them, the variable feed.                  *)
(*                                                                         *)
(* Abstractions: a process moves one kind of bytes (reads and writes, and  *)
(* received and sent, are treated alike); a block of the wrapper is read   *)
(* at one moment, and covers the processes it could read; the rate of a    *)
(* nethogs line is the number of its block.                                *)
(***************************************************************************)
EXTENDS Naturals, Integers

CONSTANTS
  Pids,
  MaxBytes,      \* bound: bytes a process moves
  Period,        \* ticks between two blocks of a wrapper
  MaxBlocks,     \* bound: blocks of one nethogs stream
  EnergyRange,   \* values of the RAPL counter before it wraps
  RangeKnown     \* max_energy_range_uj is readable

ASSUME FeedConstants ==
  /\ MaxBytes \in Nat /\ Period \in Nat \ {0} /\ MaxBlocks \in Nat
  /\ EnergyRange \in Nat \ {0} /\ RangeKnown \in BOOLEAN

VARIABLES
  feed,      \* the sampler a behaviour follows
  fpc,       \* where its loop is
  avail,     \* Sampler.avail
  shown,     \* Sampler.rates, or Sampler.watts: what Get returns
  cur,       \* the block being read (cur, pending)
  prev,      \* Sampler.prev; empty when prevT is zero
  age,       \* ticks since the last marker
  proc,      \* the kernel's counter of each pid; since: bytes its process
             \* has moved since the last block
  round,     \* nethogs: the number of the block being read
  energy     \* the RAPL counter, the wrapper's prev, and the energy used since
host == <<proc, energy>>
feedVars == <<feed, fpc, avail, shown, cur, prev, age, round, host>>

Nothing == [p \in {} |-> 0]
Fresh == [bytes |-> 0, since |-> 0]

FeedInit ==
  /\ feed \in {"net", "disk", "power"}
  /\ fpc = "sleep" /\ avail = FALSE
  /\ shown = Nothing /\ cur = Nothing /\ prev = Nothing
  /\ age = 0 /\ round = 0
  /\ proc = [p \in Pids |-> Fresh]
  /\ energy = [raw |-> 0, prev |-> 0, used |-> 0]

--------------------------------------------------------------------------------
(* The host: processes move bytes, end and leave their pid to another one, *)
(* the package uses energy, less than a whole range between two readings.  *)
Move(p) ==
  /\ feed = "disk" /\ proc[p].bytes < MaxBytes
  /\ proc' = [proc EXCEPT ![p] = [bytes |-> @.bytes + 1, since |-> @.since + 1]]
  /\ UNCHANGED <<feed, fpc, avail, shown, cur, prev, age, round, energy>>

Replace(p) ==
  /\ feed = "disk"
  /\ proc' = [proc EXCEPT ![p] = Fresh]
  /\ UNCHANGED <<feed, fpc, avail, shown, cur, prev, age, round, energy>>

Burn ==
  /\ feed = "power" /\ energy.used < EnergyRange - 1
  /\ energy' = [energy EXCEPT !.raw = (@ + 1) % EnergyRange, !.used = @ + 1]
  /\ UNCHANGED <<feed, fpc, avail, shown, cur, prev, age, round, proc>>

FeedTick ==
  /\ feed = "disk" /\ fpc = "read" /\ age < Period
  /\ age' = age + 1
  /\ UNCHANGED <<feed, fpc, avail, shown, cur, prev, round, host>>

--------------------------------------------------------------------------------
(* The loop starts the wrapper; sudo or the wrapper may be refused.        *)
Launch ==
  /\ fpc = "sleep"
  /\ \/ fpc' = "read" /\ avail' = TRUE
     \/ fpc' = "stopped" /\ UNCHANGED avail
  /\ cur' = Nothing /\ age' = 0 /\ round' = 0
  /\ energy' = [energy EXCEPT !.prev = energy.raw, !.used = 0]
  /\ UNCHANGED <<feed, shown, prev, proc>>

DeltaWraps(new, old) == (new - old) % (MaxBytes + 1)   \* mutant of Delta
Delta(new, old) == IF new >= old THEN new - old ELSE 0

Moving ==
  {p \in DOMAIN cur \cap DOMAIN prev : age > 0 /\ Delta(cur[p].bytes, prev[p].bytes) > 0}

(* diskmon: rates are the differences to the block before, over the time   *)
(* since that one was flushed; moved is what the process really moved.  A  *)
(* block without a line changes nothing.                                   *)
FlushDisk ==
  \/ cur = Nothing /\ UNCHANGED <<shown, prev>>
  \/ /\ cur # Nothing
     /\ shown' = [p \in Moving |-> [bytes |-> Delta(cur[p].bytes, prev[p].bytes),
                                    secs |-> age, moved |-> cur[p].moved]]
     /\ prev' = cur

(* netmon: a block of the trace is shown as it is, unless it is empty.     *)
FlushNet == UNCHANGED prev /\ shown' = IF cur = Nothing THEN shown ELSE cur

Flush ==
  \/ feed = "disk" /\ FlushDisk
  \/ feed = "net" /\ FlushNet
  \/ feed = "power" /\ UNCHANGED <<shown, prev>>

(* A marker ends the block before; the lines after it are the next one.  A *)
(* disk block is never empty: some process can always be read.             *)
DiskBlock ==
  /\ feed = "disk" /\ fpc = "read" /\ (cur = Nothing \/ age = Period)
  /\ FlushDisk
  /\ \E S \in (SUBSET Pids) \ {{}} :
       cur' = [p \in S |-> [bytes |-> proc[p].bytes, moved |-> proc[p].since]]
  /\ proc' = [p \in Pids |-> [proc[p] EXCEPT !.since = 0]]
  /\ age' = 0
  /\ UNCHANGED <<feed, fpc, avail, round, energy>>

NetBlock ==
  /\ feed = "net" /\ fpc = "read" /\ round < MaxBlocks
  /\ FlushNet
  /\ \E S \in SUBSET Pids : cur' = [p \in S |-> round]
  /\ round' = round + 1
  /\ UNCHANGED <<feed, fpc, avail, age, host>>

(* The wrapper prints the difference of two readings, put right when the   *)
(* counter wrapped and its range is known; the daemon ignores a negative   *)
(* one.                                                                    *)
Joules(d) == IF d < 0 /\ RangeKnown THEN d + EnergyRange ELSE d

PowerLine ==
  LET d == Joules(energy.raw - energy.prev) IN
  /\ feed = "power" /\ fpc = "read"
  /\ shown' = IF d < 0 THEN shown ELSE [p \in {"cpu"} |-> [watts |-> d, used |-> energy.used]]
  /\ energy' = [energy EXCEPT !.prev = energy.raw, !.used = 0]
  /\ UNCHANGED <<feed, fpc, avail, cur, prev, age, round, proc>>

(* End of the stream: what was read of the last block is flushed, then the *)
(* loop waits for the wrapper, withdraws the availability and, in a second *)
(* critical section, the rates.  powermon does both in the first.          *)
StreamEnds ==
  /\ fpc = "read"
  /\ Flush
  /\ fpc' = "stopped"
  /\ UNCHANGED <<feed, avail, cur, age, round, host>>

Withdraw ==
  /\ fpc = "stopped"
  /\ avail' = FALSE
  /\ shown' = IF feed = "power" THEN Nothing ELSE shown
  /\ fpc' = "clear"
  /\ UNCHANGED <<feed, cur, prev, age, round, host>>

Clear ==
  /\ fpc = "clear"
  /\ shown' = Nothing /\ prev' = Nothing
  /\ fpc' = "sleep"
  /\ UNCHANGED <<feed, avail, cur, age, round, host>>

FeedLoop ==
  Launch \/ DiskBlock \/ NetBlock \/ PowerLine \/ StreamEnds \/ Withdraw \/ Clear
FeedNext ==
  (\E p \in Pids : Move(p) \/ Replace(p)) \/ Burn \/ FeedTick \/ FeedLoop

FeedSpec == FeedInit /\ [][FeedNext]_feedVars

--------------------------------------------------------------------------------
(* No disk rate tells bytes its process has not moved since the block      *)
(* before, whoever owned the pid then; and while the stream lasts the time *)
(* it divides by is the time those bytes took.  (The block that is flushed *)
(* at the end of the stream is divided by a shorter time: it is shown      *)
(* until the loop clears it, two critical sections later.)                 *)
DiskRatesAreTrue ==
  feed = "disk" =>
    \A p \in DOMAIN shown :
      shown[p].bytes <= shown[p].moved /\ (fpc = "read" => shown[p].secs = Period)

(* The network rates shown are all from one block of the trace.            *)
NetRatesAreOneBlock ==
  feed = "net" => \A p, q \in DOMAIN shown : shown[p] = shown[q]

(* The power shown is the energy used between two readings of a counter    *)
(* that wraps.                                                             *)
PowerIsTrue ==
  feed = "power" => \A p \in DOMAIN shown : shown[p].watts = shown[p].used

(* A sampler whose stream is gone is unavailable and shows nothing.        *)
DeadFeedIsEmpty == fpc = "sleep" => ~avail /\ shown = Nothing

(* What the samplers tell the rest of the daemon is true of the host: no   *)
(* rate from a wrapped or reused counter, none mixed from two blocks, none *)
(* of a dead stream.                                                       *)
FeedsAreHonest ==
  DiskRatesAreTrue /\ NetRatesAreOneBlock /\ PowerIsTrue /\ DeadFeedIsEmpty
================================================================================
