----------------------------- MODULE MonitorProofs -----------------------------
(***************************************************************************)
(* Proofs about what the daemon measures: Feeds, the co-process samplers,  *)
(* for any number of processes and any period, byte bound and energy       *)
(* range; Metrics, for any number of sources, processes and GPUs and any   *)
(* capacity of the rings; Thermal, for any names, disks and capacity of    *)
(* the chart.                                                              *)
(***************************************************************************)
EXTENDS Feeds, Metrics, Thermal, TLAPS

--------------------------------------------------------------------------------
(***************************************************************************)
(* Feeds.  What makes a disk rate true is that a counter can only fall     *)
(* behind the block it was read in, by a new owner of the pid, or run      *)
(* ahead of it by what its process has moved since.  What makes a power    *)
(* value true is that less than a whole range is used between two          *)
(* readings.                                                               *)
(***************************************************************************)
Kernel == [bytes : Nat, since : Nat]
IsBlock(b) == \A p \in DOMAIN b : p \in Pids /\ b[p].bytes \in Nat /\ b[p].moved \in Nat

FeedsTypeOK ==
  /\ feed \in {"net", "disk", "power"}
  /\ fpc \in {"sleep", "read", "stopped", "clear"}
  /\ age \in Nat
  /\ proc \in [Pids -> Kernel]
  /\ energy \in [raw : Nat, prev : Nat, used : Nat]

LoopOK ==
  /\ fpc = "sleep" => ~avail /\ shown = Nothing /\ (feed = "disk" => prev = Nothing)
  /\ fpc = "clear" => ~avail
  /\ feed = "disk" /\ fpc = "read" /\ cur = Nothing => prev = Nothing

(* The block being read and the counters, the block before and the block   *)
(* being read.                                                             *)
CounterAhead == \A p \in DOMAIN cur : proc[p].bytes <= cur[p].bytes + proc[p].since
BlockAhead ==
  \A p \in DOMAIN cur \cap DOMAIN prev : cur[p].bytes <= prev[p].bytes + cur[p].moved
DiskOK ==
  feed = "disk" => IsBlock(cur) /\ IsBlock(prev) /\ CounterAhead /\ BlockAhead

OneRound(b) == \A p, q \in DOMAIN b : b[p] = b[q]
NetOK == feed = "net" => OneRound(cur)

EnergyOK ==
  /\ energy.raw < EnergyRange /\ energy.prev < EnergyRange /\ energy.used < EnergyRange
  /\ \/ energy.raw = energy.prev + energy.used
     \/ energy.raw + EnergyRange = energy.prev + energy.used

FeedsInv ==
  /\ FeedsTypeOK /\ LoopOK /\ DiskOK /\ NetOK /\ EnergyOK
  /\ DiskRatesAreTrue /\ NetRatesAreOneBlock /\ PowerIsTrue

--------------------------------------------------------------------------------
(* Counting one up in a ring.                                              *)
LEMMA NextInRing ==
  ASSUME NEW n \in Nat \ {0}, NEW x \in Nat, x < n
  PROVE  (x + 1) % n = IF x + 1 = n THEN 0 ELSE x + 1
OBVIOUS

(* A difference of two readings is the energy used, or is known to be      *)
(* wrong.                                                                  *)
LEMMA JoulesAreTrue ==
  ASSUME FeedsTypeOK, EnergyOK, NEW d, d = Joules(energy.raw - energy.prev), ~(d < 0)
  PROVE  d = energy.used
<1>1. energy.raw \in Nat /\ energy.prev \in Nat /\ energy.used \in Nat
  BY DEF FeedsTypeOK
<1> QED  BY <1>1, FeedConstants DEF EnergyOK, Joules

(* Nothing is a block, of one round.                                       *)
LEMMA NothingIsEmpty == DOMAIN Nothing = {}
BY DEF Nothing

(* The rates of a flushed block are true, whatever the time was.           *)
LEMMA FlushedIsTrue ==
  ASSUME FeedsTypeOK, DiskOK, feed = "disk",
         shown' = [p \in Moving |-> [bytes |-> Delta(cur[p].bytes, prev[p].bytes),
                                     secs |-> age, moved |-> cur[p].moved]]
  PROVE  \A p \in DOMAIN shown' : shown'[p].bytes <= shown'[p].moved /\ shown'[p].secs = age
<1> SUFFICES ASSUME NEW p \in Moving
             PROVE  Delta(cur[p].bytes, prev[p].bytes) <= cur[p].moved
  OBVIOUS
<1>1. p \in DOMAIN cur /\ p \in DOMAIN prev
  BY DEF Moving
<1>2. cur[p].bytes \in Nat /\ prev[p].bytes \in Nat /\ cur[p].moved \in Nat
  BY <1>1 DEF DiskOK, IsBlock
<1>3. cur[p].bytes <= prev[p].bytes + cur[p].moved
  BY <1>1 DEF DiskOK, BlockAhead
<1> QED  BY <1>2, <1>3 DEF Delta

--------------------------------------------------------------------------------
(* The initial states satisfy the invariant.                               *)
LEMMA FeedsInitInv == ASSUME FeedInit PROVE FeedsInv
<1>1. FeedsTypeOK
  BY DEF FeedInit, FeedsTypeOK, Fresh, Kernel
<1>2. LoopOK
  BY DEF FeedInit, LoopOK
<1>3. DiskOK /\ NetOK
  BY NothingIsEmpty DEF FeedInit, DiskOK, NetOK, IsBlock, CounterAhead, BlockAhead, OneRound
<1>4. EnergyOK
  BY FeedConstants DEF FeedInit, EnergyOK
<1>5. DiskRatesAreTrue /\ NetRatesAreOneBlock /\ PowerIsTrue
  BY NothingIsEmpty DEF FeedInit, DiskRatesAreTrue, NetRatesAreOneBlock, PowerIsTrue
<1> QED  BY <1>1, <1>2, <1>3, <1>4, <1>5 DEF FeedsInv

(* Every step preserves the invariant.                                     *)
LEMMA FeedsStepInv == ASSUME FeedsInv, [FeedNext]_feedVars PROVE FeedsInv'
<1> USE FeedConstants
<1>t. FeedsTypeOK /\ LoopOK /\ DiskOK /\ NetOK /\ EnergyOK
  BY DEF FeedsInv
<1>r. DiskRatesAreTrue /\ NetRatesAreOneBlock /\ PowerIsTrue
  BY DEF FeedsInv
<1>k. ASSUME UNCHANGED <<feed, fpc, shown>>
      PROVE  (DiskRatesAreTrue /\ NetRatesAreOneBlock /\ PowerIsTrue)'
  BY <1>k, <1>r DEF DiskRatesAreTrue, NetRatesAreOneBlock, PowerIsTrue
<1>1. ASSUME NEW p \in Pids, Move(p) PROVE FeedsInv'
  <2>1. UNCHANGED <<feed, fpc, avail, shown, cur, prev, age, energy>>
    BY <1>1 DEF Move
  <2>2. proc[p].bytes \in Nat /\ proc[p].since \in Nat
    BY <1>t DEF FeedsTypeOK, Kernel
  <2>3. proc' = [proc EXCEPT ![p] = [bytes |-> proc[p].bytes + 1, since |-> proc[p].since + 1]]
    BY <1>1 DEF Move
  <2>4. proc' \in [Pids -> Kernel]
    BY <2>2, <2>3, <1>t DEF FeedsTypeOK, Kernel
  <2>5. ASSUME feed = "disk", NEW q \in DOMAIN cur
        PROVE  proc'[q].bytes <= cur[q].bytes + proc'[q].since
    <3>1. q \in Pids /\ cur[q].bytes \in Nat /\ proc[q].bytes <= cur[q].bytes + proc[q].since
      BY <2>5, <1>t DEF DiskOK, IsBlock, CounterAhead
    <3> QED  BY <3>1, <2>2, <2>3, <1>t DEF FeedsTypeOK
  <2>6. DiskOK'
    BY <2>1, <2>5, <1>t DEF DiskOK, IsBlock, CounterAhead, BlockAhead
  <2> QED  BY <2>1, <2>4, <2>6, <1>t, <1>k DEF FeedsInv, FeedsTypeOK, LoopOK, NetOK, OneRound, EnergyOK
<1>2. ASSUME NEW p \in Pids, Replace(p) PROVE FeedsInv'
  <2>1. UNCHANGED <<feed, fpc, avail, shown, cur, prev, age, energy>>
    BY <1>2 DEF Replace
  <2>2. proc' = [proc EXCEPT ![p] = Fresh] /\ Fresh \in Kernel /\ Fresh.bytes = 0 /\ Fresh.since = 0
    BY <1>2 DEF Replace, Fresh, Kernel
  <2>3. proc' \in [Pids -> Kernel]
    BY <2>2, <1>t DEF FeedsTypeOK
  <2>4. ASSUME feed = "disk", NEW q \in DOMAIN cur
        PROVE  proc'[q].bytes <= cur[q].bytes + proc'[q].since
    <3>1. q \in Pids /\ cur[q].bytes \in Nat /\ proc[q].bytes <= cur[q].bytes + proc[q].since
      BY <2>4, <1>t DEF DiskOK, IsBlock, CounterAhead
    <3> QED  BY <3>1, <2>2, <1>t DEF FeedsTypeOK
  <2>5. DiskOK'
    BY <2>1, <2>4, <1>t DEF DiskOK, IsBlock, CounterAhead, BlockAhead
  <2> QED  BY <2>1, <2>3, <2>5, <1>t, <1>k DEF FeedsInv, FeedsTypeOK, LoopOK, NetOK, OneRound, EnergyOK
<1>3. CASE Burn
  <2>1. UNCHANGED <<feed, fpc, avail, shown, cur, prev, age, proc>>
    BY <1>3 DEF Burn
  <2>2. energy.raw \in Nat /\ energy.prev \in Nat /\ energy.used \in Nat /\ energy.used < EnergyRange - 1
    BY <1>3, <1>t DEF FeedsTypeOK, Burn
  <2>3. energy' = [energy EXCEPT !.raw = (energy.raw + 1) % EnergyRange, !.used = energy.used + 1]
    BY <1>3 DEF Burn
  <2>4. (energy.raw + 1) % EnergyRange = IF energy.raw + 1 = EnergyRange THEN 0 ELSE energy.raw + 1
    BY <2>2, <1>t, NextInRing DEF EnergyOK
  <2>5. /\ energy'.raw = (IF energy.raw + 1 = EnergyRange THEN 0 ELSE energy.raw + 1)
        /\ energy'.prev = energy.prev /\ energy'.used = energy.used + 1
        /\ energy' \in [raw : Nat, prev : Nat, used : Nat]
    <3> DEFINE n == (energy.raw + 1) % EnergyRange
    <3>1. n = (IF energy.raw + 1 = EnergyRange THEN 0 ELSE energy.raw + 1) /\ n \in Nat
      BY <2>2, <2>4
    <3>2. energy' = [energy EXCEPT !.raw = n, !.used = energy.used + 1]
      BY <2>3
    <3> HIDE DEF n
    <3>3. energy'.raw = n /\ energy'.prev = energy.prev /\ energy'.used = energy.used + 1
      BY <3>2, <1>t DEF FeedsTypeOK
    <3>4. energy' \in [raw : Nat, prev : Nat, used : Nat]
      <4>1. energy \in [raw : Nat, prev : Nat, used : Nat] /\ energy.used + 1 \in Nat
        BY <2>2, <1>t DEF FeedsTypeOK
      <4> QED  BY <4>1, <3>1, <3>2
    <3> QED  BY <3>1, <3>3, <3>4
  <2>6. EnergyOK'
    BY <2>2, <2>5, <1>t DEF EnergyOK
  <2> QED  BY <2>1, <2>5, <2>6, <1>t, <1>k
           DEF FeedsInv, FeedsTypeOK, LoopOK, DiskOK, IsBlock, CounterAhead, BlockAhead, NetOK, OneRound
<1>4. CASE FeedTick
  <2>1. UNCHANGED <<feed, fpc, avail, shown, cur, prev, proc, energy>> /\ age' \in Nat
    BY <1>4, <1>t DEF FeedTick, FeedsTypeOK, host
  <2> QED  BY <2>1, <1>t, <1>k
           DEF FeedsInv, FeedsTypeOK, LoopOK, DiskOK, IsBlock, CounterAhead, BlockAhead, NetOK, OneRound, EnergyOK
<1>5. CASE Launch
  <2>1. UNCHANGED <<feed, shown, prev, proc>> /\ cur' = Nothing /\ age' = 0 /\ fpc = "sleep"
    BY <1>5 DEF Launch
  <2>2. fpc' \in {"read", "stopped"}
    BY <1>5 DEF Launch
  <2>3. shown = Nothing /\ (feed = "disk" => prev = Nothing)
    BY <2>1, <1>t DEF LoopOK
  <2>4. energy' = [energy EXCEPT !.prev = energy.raw, !.used = 0]
    BY <1>5 DEF Launch
  <2>5. /\ energy' \in [raw : Nat, prev : Nat, used : Nat]
        /\ energy'.raw = energy.raw /\ energy'.prev = energy.raw /\ energy'.used = 0
    BY <2>4, <1>t DEF FeedsTypeOK
  <2>6. EnergyOK'
    BY <2>5, <1>t DEF EnergyOK, FeedsTypeOK
  <2>7. FeedsTypeOK'
    BY <2>1, <2>2, <2>5, <1>t DEF FeedsTypeOK
  <2>8. DiskOK' /\ NetOK'
    BY <2>1, <2>3, NothingIsEmpty DEF DiskOK, NetOK, IsBlock, CounterAhead, BlockAhead, OneRound
  <2>9. (DiskRatesAreTrue /\ NetRatesAreOneBlock /\ PowerIsTrue)'
    BY <2>1, <2>3, NothingIsEmpty DEF DiskRatesAreTrue, NetRatesAreOneBlock, PowerIsTrue
  <2>10. LoopOK'
    BY <2>1, <2>2, <2>3 DEF LoopOK
  <2> QED  BY <2>6, <2>7, <2>8, <2>9, <2>10 DEF FeedsInv
<1>6. CASE DiskBlock
  <2>1. UNCHANGED <<feed, fpc, avail, energy>> /\ feed = "disk" /\ fpc = "read" /\ age' = 0
    BY <1>6 DEF DiskBlock
  <2>2. PICK S \in (SUBSET Pids) \ {{}} :
          cur' = [p \in S |-> [bytes |-> proc[p].bytes, moved |-> proc[p].since]]
    BY <1>6 DEF DiskBlock
  <2>3. proc' = [p \in Pids |-> [proc[p] EXCEPT !.since = 0]]
    BY <1>6 DEF DiskBlock
  <2>4. \A p \in Pids : proc[p] \in Kernel /\ proc[p].bytes \in Nat /\ proc[p].since \in Nat
    BY <1>t DEF FeedsTypeOK, Kernel
  <2>5. \A p \in Pids : proc'[p] \in Kernel /\ proc'[p].bytes = proc[p].bytes /\ proc'[p].since = 0
    BY <2>3, <2>4 DEF Kernel
  <2>6. /\ DOMAIN cur' = S /\ S \subseteq Pids
        /\ \A p \in S : cur'[p].bytes = proc[p].bytes /\ cur'[p].moved = proc[p].since
    BY <2>2
  <2>7. cur' # Nothing
    BY <2>6, NothingIsEmpty
  <2>8. proc' \in [Pids -> Kernel]
    BY <2>3, <2>5
  <2>9. FeedsTypeOK' /\ LoopOK' /\ NetOK' /\ EnergyOK'
    BY <2>1, <2>7, <2>8, <1>t DEF FeedsTypeOK, LoopOK, NetOK, EnergyOK
  <2>10. IsBlock(cur)' /\ CounterAhead'
    <3>1. IsBlock(cur)'
      BY <2>4, <2>6 DEF IsBlock
    <3> QED  BY <3>1, <2>4, <2>5, <2>6 DEF CounterAhead
  <2>11. CASE cur = Nothing /\ UNCHANGED <<shown, prev>>
    <3>1. prev' = Nothing
      BY <2>1, <2>11, <1>t DEF LoopOK
    <3>2. DiskOK'
      BY <2>10, <3>1, NothingIsEmpty DEF DiskOK, IsBlock, BlockAhead
    <3> QED  BY <2>1, <2>9, <2>11, <3>2, <1>k DEF FeedsInv
  <2>12. CASE /\ cur # Nothing
              /\ shown' = [p \in Moving |-> [bytes |-> Delta(cur[p].bytes, prev[p].bytes),
                                             secs |-> age, moved |-> cur[p].moved]]
              /\ prev' = cur
    <3>1. age = Period
      BY <1>6, <2>12 DEF DiskBlock
    <3>2. DiskRatesAreTrue'
      BY <3>1, <2>1, <2>12, <1>t, FlushedIsTrue DEF DiskRatesAreTrue
    <3>3. ASSUME NEW p \in DOMAIN cur' \cap DOMAIN prev'
          PROVE  cur'[p].bytes <= prev'[p].bytes + cur'[p].moved
      BY <2>1, <2>6, <2>12, <1>t DEF DiskOK, CounterAhead
    <3>4. IsBlock(prev)'
      BY <2>1, <2>12, <1>t DEF DiskOK, IsBlock
    <3>5. DiskOK'
      BY <2>10, <3>3, <3>4 DEF DiskOK, BlockAhead
    <3>6. NetRatesAreOneBlock' /\ PowerIsTrue'
      BY <2>1 DEF NetRatesAreOneBlock, PowerIsTrue
    <3> QED  BY <2>9, <3>2, <3>5, <3>6 DEF FeedsInv
  <2> QED  BY <1>6, <2>11, <2>12 DEF DiskBlock, FlushDisk
<1>7. CASE NetBlock
  <2>1. UNCHANGED <<feed, fpc, avail, age, proc, energy>> /\ feed = "net" /\ fpc = "read"
    BY <1>7 DEF NetBlock, host
  <2>2. shown' = IF cur = Nothing THEN shown ELSE cur
    BY <1>7 DEF NetBlock, FlushNet
  <2>3. PICK S \in SUBSET Pids : cur' = [p \in S |-> round]
    BY <1>7 DEF NetBlock
  <2>4. NetOK' /\ NetRatesAreOneBlock'
    BY <2>1, <2>2, <2>3, <1>t, <1>r DEF NetOK, NetRatesAreOneBlock, OneRound
  <2>5. DiskOK' /\ DiskRatesAreTrue' /\ PowerIsTrue'
    BY <2>1 DEF DiskOK, DiskRatesAreTrue, PowerIsTrue
  <2> QED  BY <2>1, <2>4, <2>5, <1>t DEF FeedsInv, FeedsTypeOK, LoopOK, EnergyOK
<1>8. CASE PowerLine
  <2> DEFINE d == Joules(energy.raw - energy.prev)
  <2>1. UNCHANGED <<feed, fpc, avail, cur, prev, age, proc>> /\ feed = "power" /\ fpc = "read"
    BY <1>8 DEF PowerLine
  <2>2. shown' = IF d < 0 THEN shown ELSE [p \in {"cpu"} |-> [watts |-> d, used |-> energy.used]]
    BY <1>8 DEF PowerLine
  <2>3. energy' = [energy EXCEPT !.prev = energy.raw, !.used = 0]
    BY <1>8 DEF PowerLine
  <2>4. /\ energy' \in [raw : Nat, prev : Nat, used : Nat]
        /\ energy'.raw = energy.raw /\ energy'.prev = energy.raw /\ energy'.used = 0
    BY <2>3, <1>t DEF FeedsTypeOK
  <2>5. EnergyOK'
    BY <2>4, <1>t DEF EnergyOK, FeedsTypeOK
  <2>6. PowerIsTrue'
    <3>1. ~(d < 0) => d = energy.used
      BY <1>t, JoulesAreTrue
    <3> HIDE DEF d
    <3> QED  BY <3>1, <2>1, <2>2, <1>r DEF PowerIsTrue
  <2>7. DiskOK' /\ NetOK' /\ DiskRatesAreTrue' /\ NetRatesAreOneBlock'
    BY <2>1 DEF DiskOK, NetOK, DiskRatesAreTrue, NetRatesAreOneBlock
  <2> QED  BY <2>1, <2>4, <2>5, <2>6, <2>7, <1>t DEF FeedsInv, FeedsTypeOK, LoopOK
<1>9. CASE StreamEnds
  <2>1. UNCHANGED <<feed, avail, cur, age, proc, energy>> /\ fpc = "read" /\ fpc' = "stopped"
    BY <1>9 DEF StreamEnds, host
  <2>2. FeedsTypeOK' /\ LoopOK' /\ NetOK' /\ EnergyOK'
    BY <2>1, <1>t DEF FeedsTypeOK, LoopOK, NetOK, OneRound, EnergyOK
  <2>3. CASE UNCHANGED <<shown, prev>>
    BY <2>1, <2>2, <2>3, <1>t, <1>r
    DEF FeedsInv, DiskOK, IsBlock, CounterAhead, BlockAhead, DiskRatesAreTrue, NetRatesAreOneBlock, PowerIsTrue
  <2>4. CASE /\ feed = "disk" /\ prev' = cur
             /\ shown' = [p \in Moving |-> [bytes |-> Delta(cur[p].bytes, prev[p].bytes),
                                            secs |-> age, moved |-> cur[p].moved]]
    <3>1. DiskRatesAreTrue'
      BY <2>1, <2>4, <1>t, FlushedIsTrue DEF DiskRatesAreTrue
    <3>2. IsBlock(cur) /\ CounterAhead
      BY <2>4, <1>t DEF DiskOK
    <3>3. BlockAhead'
      BY <2>1, <2>4, <3>2 DEF BlockAhead, IsBlock
    <3>4. DiskOK'
      BY <2>1, <2>4, <3>2, <3>3 DEF DiskOK, IsBlock, CounterAhead
    <3>5. NetRatesAreOneBlock' /\ PowerIsTrue'
      BY <2>1, <2>4 DEF NetRatesAreOneBlock, PowerIsTrue
    <3> QED  BY <2>2, <3>1, <3>4, <3>5 DEF FeedsInv
  <2>5. CASE feed = "net" /\ shown' \in {shown, cur}
    <3>1. NetRatesAreOneBlock'
      BY <2>5, <2>1, <1>t, <1>r DEF NetRatesAreOneBlock, NetOK, OneRound
    <3>2. DiskOK' /\ DiskRatesAreTrue' /\ PowerIsTrue'
      BY <2>1, <2>5 DEF DiskOK, DiskRatesAreTrue, PowerIsTrue
    <3> QED  BY <2>2, <3>1, <3>2 DEF FeedsInv
  <2> QED  BY <1>9, <2>3, <2>4, <2>5 DEF StreamEnds, Flush, FlushDisk, FlushNet
<1>10. CASE Withdraw \/ Clear
  <2>1. UNCHANGED <<feed, cur, age, proc, energy>>
    BY <1>10 DEF Withdraw, Clear, host
  <2>2. /\ fpc' \in {"clear", "sleep"} /\ shown' \in {shown, Nothing} /\ prev' \in {prev, Nothing}
        /\ fpc \in {"stopped", "clear"}
    BY <1>10 DEF Withdraw, Clear
  <2>3. FeedsTypeOK' /\ NetOK' /\ EnergyOK'
    BY <2>1, <2>2, <1>t DEF FeedsTypeOK, NetOK, OneRound, EnergyOK
  <2>4. LoopOK'
    BY <1>10, <1>t DEF Withdraw, Clear, LoopOK
  <2>5. DiskOK'
    <3>1. feed = "disk" => IsBlock(prev') /\ BlockAhead'
      BY <2>1, <2>2, <1>t, NothingIsEmpty DEF DiskOK, IsBlock, BlockAhead
    <3> QED  BY <3>1, <2>1, <1>t DEF DiskOK, IsBlock, CounterAhead
  <2>6. (DiskRatesAreTrue /\ NetRatesAreOneBlock /\ PowerIsTrue)'
    BY <2>1, <2>2, <1>r, NothingIsEmpty DEF DiskRatesAreTrue, NetRatesAreOneBlock, PowerIsTrue
  <2> QED  BY <2>3, <2>4, <2>5, <2>6 DEF FeedsInv
<1>11. CASE UNCHANGED feedVars
  <2>1. UNCHANGED <<feed, fpc, avail, shown, cur, prev, age, proc, energy>>
    BY <1>11 DEF feedVars, host
  <2> QED  BY <2>1, <1>t, <1>k
           DEF FeedsInv, FeedsTypeOK, LoopOK, DiskOK, IsBlock, CounterAhead, BlockAhead, NetOK, OneRound, EnergyOK
<1> QED
  BY <1>1, <1>2, <1>3, <1>4, <1>5, <1>6, <1>7, <1>8, <1>9, <1>10, <1>11 DEF FeedNext, FeedLoop

--------------------------------------------------------------------------------
(* The invariant holds for every number of processes, every period and     *)
(* every energy range.                                                     *)
THEOREM FeedsInvariant == FeedSpec => []FeedsInv
<1>1. FeedInit => FeedsInv
  BY FeedsInitInv
<1>2. FeedsInv /\ [FeedNext]_feedVars => FeedsInv'
  BY FeedsStepInv
<1> QED
  BY <1>1, <1>2, PTL DEF FeedSpec

(* No rate of a wrapped or reused counter, none mixed from two blocks,     *)
(* none of a dead stream (diskmon.go delta, netmon.go and powermon.go      *)
(* loop), however the stream's end falls between the host's steps.         *)
THEOREM HonestFeeds == FeedSpec => []FeedsAreHonest
<1>1. FeedsInv => FeedsAreHonest
  BY DEF FeedsInv, FeedsAreHonest, DeadFeedIsEmpty, LoopOK
<1> QED
  BY <1>1, FeedsInvariant, PTL

--------------------------------------------------------------------------------
(***************************************************************************)
(* Metrics, in three independent invariants: of the counters, the process  *)
(* rows and the history.                                                   *)
(*                                                                         *)
(* The counters.  What is told so far and what the next good read would    *)
(* tell never exceed what was moved, also after the counter fell; before   *)
(* the first good read there is nothing to tell.                           *)
(***************************************************************************)
Account == [told : Nat, moved : Nat, fell : BOOLEAN]

SourceOK(s) ==
  /\ base[s] = Unread => ledger[s].told = 0 /\ ledger[s].moved = 0 /\ ledger[s].fell = FALSE
  /\ ledger[s].told + Rate(s) <= ledger[s].moved
  /\ base[s] # Unread /\ ledger[s].fell = FALSE =>
       ledger[s].told + (counter[s] - base[s]) = ledger[s].moved

CountersInv ==
  /\ counter \in [Sources -> Nat]
  /\ base \in [Sources -> Nat \cup {Unread}]
  /\ ledger \in [Sources -> Account]
  /\ \A s \in Sources : SourceOK(s)

(* A rate is never negative.                                               *)
LEMMA RateIsNatural ==
  ASSUME CountersInv, NEW s \in Sources
  PROVE  Rate(s) \in Nat
<1>1. counter[s] \in Nat /\ base[s] \in Nat \cup {Unread}
  BY DEF CountersInv
<1> QED  BY <1>1 DEF Rate, Unread

(* The counters start unread.                                              *)
LEMMA CountersInit == ASSUME MetricsInit PROVE CountersInv
<1>1. counter \in [Sources -> Nat] /\ base \in [Sources -> Nat \cup {Unread}]
  BY DEF MetricsInit
<1>2. ledger \in [Sources -> Account]
  BY DEF MetricsInit, Account
<1>3. ASSUME NEW s \in Sources PROVE SourceOK(s)
  <2>1. ledger[s].told = 0 /\ ledger[s].moved = 0 /\ ledger[s].fell = FALSE /\ base[s] = Unread
    BY DEF MetricsInit
  <2> QED  BY <2>1 DEF SourceOK, Rate
<1> QED  BY <1>1, <1>2, <1>3 DEF CountersInv

(* Moving, falling and reading keep the accounts.                          *)
LEMMA CountersStep == ASSUME CountersInv, [MetricsNext]_metricsVars PROVE CountersInv'
<1>t. /\ counter \in [Sources -> Nat] /\ base \in [Sources -> Nat \cup {Unread}]
      /\ ledger \in [Sources -> Account] /\ \A s \in Sources : SourceOK(s)
  BY DEF CountersInv
<1>a. \A s \in Sources :
        /\ counter[s] \in Nat /\ base[s] \in Nat \cup {Unread} /\ ledger[s] \in Account
        /\ ledger[s].told \in Nat /\ ledger[s].moved \in Nat /\ ledger[s].fell \in BOOLEAN
  BY <1>t DEF Account
<1>u. ASSUME UNCHANGED <<counter, base, ledger>> PROVE CountersInv'
  BY <1>u, <1>t DEF CountersInv, SourceOK, Rate
<1>1. ASSUME NEW s \in Sources, Transfer(s) PROVE CountersInv'
  <2> DEFINE more == IF base[s] = Unread THEN 0 ELSE 1
  <2>1. UNCHANGED base /\ counter' = [counter EXCEPT ![s] = counter[s] + 1]
    BY <1>1 DEF Transfer
  <2>2. ledger' = [ledger EXCEPT ![s] = [ledger[s] EXCEPT !.moved = ledger[s].moved + more]]
    BY <1>1, <1>t DEF Transfer
  <2> HIDE DEF more
  <2>3. more \in Nat /\ (base[s] = Unread => more = 0) /\ (base[s] # Unread => more = 1)
    BY DEF more
  <2>4. /\ [ledger[s] EXCEPT !.moved = ledger[s].moved + more] \in Account
        /\ [ledger[s] EXCEPT !.moved = ledger[s].moved + more].moved = ledger[s].moved + more
        /\ [ledger[s] EXCEPT !.moved = ledger[s].moved + more].told = ledger[s].told
        /\ [ledger[s] EXCEPT !.moved = ledger[s].moved + more].fell = ledger[s].fell
    BY <1>a, <2>3 DEF Account
  <2>5. /\ ledger' \in [Sources -> Account] /\ counter' \in [Sources -> Nat]
        /\ ledger'[s].moved = ledger[s].moved + more /\ ledger'[s].told = ledger[s].told
        /\ ledger'[s].fell = ledger[s].fell /\ counter'[s] = counter[s] + 1
        /\ \A q \in Sources \ {s} : ledger'[q] = ledger[q] /\ counter'[q] = counter[q]
    BY <2>1, <2>2, <2>4, <1>a, <1>t
  <2>6. ASSUME NEW q \in Sources \ {s} PROVE SourceOK(q)'
    BY <2>1, <2>5, <1>t DEF SourceOK, Rate
  <2>7. SourceOK(s)'
    BY <2>1, <2>3, <2>5, <1>t, <1>a DEF SourceOK, Rate, Unread
  <2> QED  BY <2>1, <2>5, <2>6, <2>7, <1>t DEF CountersInv
<1>2. ASSUME NEW s \in Sources, Fall(s) PROVE CountersInv'
  <2> DEFINE x == [ledger[s] EXCEPT !.fell = ledger[s].fell \/ base[s] # Unread]
  <2>1. PICK n \in 0 .. counter[s] - 1 : counter' = [counter EXCEPT ![s] = n]
    BY <1>2 DEF Fall
  <2>2. UNCHANGED base /\ ledger' = [ledger EXCEPT ![s] = x]
    BY <1>2, <1>t DEF Fall
  <2>3. x \in Account /\ x.told = ledger[s].told /\ x.moved = ledger[s].moved
    BY <1>a DEF Account
  <2>4. x.fell = FALSE <=> ledger[s].fell = FALSE /\ base[s] = Unread
    BY <1>a DEF Account
  <2> HIDE DEF x
  <2>5. /\ ledger' \in [Sources -> Account] /\ counter' \in [Sources -> Nat]
        /\ ledger'[s] = x /\ counter'[s] = n /\ n \in Nat /\ n < counter[s]
        /\ \A q \in Sources \ {s} : ledger'[q] = ledger[q] /\ counter'[q] = counter[q]
    BY <2>1, <2>2, <2>3, <1>a, <1>t
  <2>6. ASSUME NEW q \in Sources \ {s} PROVE SourceOK(q)'
    BY <2>2, <2>5, <1>t DEF SourceOK, Rate
  <2>7. SourceOK(s)'
    BY <2>2, <2>3, <2>4, <2>5, <1>t, <1>a DEF SourceOK, Rate, Unread
  <2> QED  BY <2>2, <2>5, <2>6, <2>7, <1>t DEF CountersInv
<1>3. CASE Measure
  <2>1. PICK good \in SUBSET Sources : ReadCounters(good)
    BY <1>3 DEF Measure
  <2>2. UNCHANGED counter
    BY <1>3 DEF Measure
  <2>3. ASSUME NEW s \in Sources
        PROVE  base'[s] \in Nat \cup {Unread} /\ ledger'[s] \in Account /\ SourceOK(s)'
    <3>r. Rate(s) \in Nat
      BY RateIsNatural
    <3>1. CASE s \in good
      <4> DEFINE x == [ledger[s] EXCEPT !.told = ledger[s].told + Rate(s)]
      <4>1. base'[s] = counter[s] /\ ledger'[s] = x
        BY <2>1, <3>1 DEF ReadCounters
      <4>2. /\ x \in Account /\ x.told = ledger[s].told + Rate(s)
            /\ x.moved = ledger[s].moved /\ x.fell = ledger[s].fell
        BY <1>a, <3>r DEF Account
      <4> HIDE DEF x
      <4>3. Rate(s)' = 0
        BY <4>1, <2>2, <1>a DEF Rate
      <4>4. base[s] # Unread /\ ledger[s].fell = FALSE => Rate(s) = counter[s] - base[s]
        BY <1>t, <1>a, <3>r DEF SourceOK, Rate, Unread
      <4>5. base[s] = Unread => Rate(s) = 0
        BY DEF Rate
      <4>6. base'[s] # Unread
        BY <4>1, <1>a DEF Unread
      <4> QED  BY <4>1, <4>2, <4>3, <4>4, <4>5, <4>6, <3>r, <2>2, <1>t, <1>a DEF SourceOK
    <3>2. CASE s \notin good
      <4>1. base'[s] = base[s] /\ ledger'[s] = ledger[s]
        BY <2>1, <3>2 DEF ReadCounters
      <4> QED  BY <4>1, <2>2, <1>t, <1>a DEF SourceOK, Rate
    <3> QED  BY <3>1, <3>2
  <2>4. base' \in [Sources -> Nat \cup {Unread}] /\ ledger' \in [Sources -> Account]
    BY <2>1, <2>3 DEF ReadCounters
  <2> QED  BY <2>2, <2>3, <2>4, <1>t DEF CountersInv
<1>4. CASE UNCHANGED <<counter, base, ledger>>
  BY <1>4, <1>u
<1> QED
  <2>1. ASSUME NEW p \in Procs, Work(p) \/ Recycle(p) PROVE UNCHANGED <<counter, base, ledger>>
    BY <2>1 DEF Work, Recycle
  <2>2. SampleGpus \/ Publish \/ UNCHANGED metricsVars => UNCHANGED <<counter, base, ledger>>
    BY DEF SampleGpus, Publish, metricsVars, kernel
  <2> QED  BY <1>1, <1>2, <1>3, <1>4, <2>1, <2>2 DEF MetricsNext

(* Every byte moved since the first baseline is told once, or less when    *)
(* the counter fell (metrics.go: rates from the deltas to the last good    *)
(* read).                                                                  *)
THEOREM CountersTold == MetricsSpec => []CountersAreAccounted
<1>1. MetricsInit => CountersInv
  BY CountersInit
<1>2. CountersInv /\ [MetricsNext]_metricsVars => CountersInv'
  BY CountersStep
<1>3. CountersInv => CountersAreAccounted
  <2> SUFFICES ASSUME CountersInv, NEW s \in Sources
               PROVE  /\ ledger[s].told <= ledger[s].moved
                      /\ ~ledger[s].fell /\ base[s] # Unread =>
                           ledger[s].told + (counter[s] - base[s]) = ledger[s].moved
    BY DEF CountersAreAccounted
  <2>1. /\ ledger[s].told \in Nat /\ ledger[s].moved \in Nat /\ ledger[s].fell \in BOOLEAN
        /\ Rate(s) \in Nat /\ SourceOK(s)
    BY RateIsNatural DEF CountersInv, Account
  <2>2. ~ledger[s].fell => ledger[s].fell = FALSE
    BY <2>1
  <2>3. ledger[s].told <= ledger[s].moved
    BY <2>1 DEF SourceOK
  <2>4. base[s] # Unread /\ ledger[s].fell = FALSE =>
          ledger[s].told + (counter[s] - base[s]) = ledger[s].moved
    BY <2>1 DEF SourceOK
  <2> QED  BY <2>2, <2>3, <2>4
<1> QED
  BY <1>1, <1>2, <1>3, PTL DEF MetricsSpec

--------------------------------------------------------------------------------
(***************************************************************************)
(* The process rows.  A pid's counter runs ahead of its baseline by what   *)
(* its process has used since, or has fallen behind with a new process.    *)
(***************************************************************************)
CpuTimes == [total : Nat, since : Nat]
RowsOK(rows) ==
  DOMAIN rows \subseteq Procs /\ \A p \in DOMAIN rows : rows[p].cpu <= rows[p].used

SharesInv ==
  /\ cpuTime \in [Procs -> CpuTimes]
  /\ DOMAIN prevProc \subseteq Procs
  /\ \A p \in DOMAIN prevProc :
       prevProc[p] \in Nat /\ cpuTime[p].total <= prevProc[p] + cpuTime[p].since
  /\ RowsOK(pub.rows)
  /\ draft # NoDraft => RowsOK(draft.rows)

(* No row before the first sample.                                         *)
LEMMA SharesInit == ASSUME MetricsInit PROVE SharesInv
<1>1. cpuTime \in [Procs -> CpuTimes]
  BY DEF MetricsInit, NewProcess, CpuTimes
<1>2. DOMAIN NoRow = {}
  BY DEF NoRow
<1>3. prevProc = NoRow /\ pub.rows = NoRow /\ draft = NoDraft
  BY DEF MetricsInit, Blank
<1> QED  BY <1>1, <1>2, <1>3 DEF SharesInv, RowsOK

(* The rows of a listing are true of the processes listed.                 *)
LEMMA ListedRowsAreTrue ==
  ASSUME SharesInv, NEW listed \in SUBSET Procs
  PROVE  RowsOK(ProcRows(listed))
<1> SUFFICES ASSUME NEW p \in listed PROVE Share(p) <= cpuTime[p].since
  BY DEF RowsOK, ProcRows
<1>1. cpuTime[p].total \in Nat /\ cpuTime[p].since \in Nat
  BY DEF SharesInv, CpuTimes
<1>2. p \in DOMAIN prevProc =>
        prevProc[p] \in Nat /\ cpuTime[p].total <= prevProc[p] + cpuTime[p].since
  BY DEF SharesInv
<1> QED  BY <1>1, <1>2 DEF Share

(* A listing makes a new baseline of every process listed.                 *)
LEMMA ListingIsBaseline ==
  ASSUME SharesInv, NEW listed \in SUBSET Procs, ListProcs(listed)
  PROVE  /\ cpuTime' \in [Procs -> CpuTimes] /\ DOMAIN prevProc' \subseteq Procs
         /\ \A p \in DOMAIN prevProc' :
              prevProc'[p] \in Nat /\ cpuTime'[p].total <= prevProc'[p] + cpuTime'[p].since
<1>1. /\ prevProc' = [p \in listed |-> cpuTime[p].total]
      /\ cpuTime' = [p \in Procs |-> [cpuTime[p] EXCEPT !.since = 0]]
  BY DEF ListProcs
<1>2. \A p \in Procs : cpuTime[p] \in CpuTimes /\ cpuTime[p].total \in Nat
  BY DEF SharesInv, CpuTimes
<1>3. \A p \in Procs : /\ [cpuTime[p] EXCEPT !.since = 0] \in CpuTimes
                       /\ [cpuTime[p] EXCEPT !.since = 0].total = cpuTime[p].total
                       /\ [cpuTime[p] EXCEPT !.since = 0].since = 0
  BY <1>2 DEF CpuTimes
<1>4. cpuTime' \in [Procs -> CpuTimes]
  BY <1>1, <1>3
<1>5. ASSUME NEW p \in listed
      PROVE  prevProc'[p] \in Nat /\ cpuTime'[p].total <= prevProc'[p] + cpuTime'[p].since
  BY <1>1, <1>2, <1>3
<1> QED  BY <1>1, <1>4, <1>5

(* Working, recycling, listing and publishing keep the rows true.          *)
LEMMA SharesStep == ASSUME SharesInv, [MetricsNext]_metricsVars PROVE SharesInv'
<1>t. /\ cpuTime \in [Procs -> CpuTimes] /\ DOMAIN prevProc \subseteq Procs
      /\ \A p \in DOMAIN prevProc :
           prevProc[p] \in Nat /\ cpuTime[p].total <= prevProc[p] + cpuTime[p].since
      /\ RowsOK(pub.rows) /\ (draft # NoDraft => RowsOK(draft.rows))
  BY DEF SharesInv
<1>n. \A p \in Procs : cpuTime[p].total \in Nat /\ cpuTime[p].since \in Nat
  BY <1>t DEF CpuTimes
<1>1. ASSUME NEW p \in Procs, Work(p) PROVE SharesInv'
  <2> DEFINE x == [total |-> cpuTime[p].total + 1, since |-> cpuTime[p].since + 1]
  <2>1. cpuTime' = [cpuTime EXCEPT ![p] = x] /\ UNCHANGED <<prevProc, draft, pub>>
    BY <1>1 DEF Work
  <2>2. x \in CpuTimes /\ x.total = cpuTime[p].total + 1 /\ x.since = cpuTime[p].since + 1
    BY <1>n DEF CpuTimes
  <2> HIDE DEF x
  <2>3. cpuTime' \in [Procs -> CpuTimes] /\ cpuTime'[p] = x /\ \A q \in Procs \ {p} : cpuTime'[q] = cpuTime[q]
    BY <2>1, <2>2, <1>t
  <2>4. ASSUME NEW q \in DOMAIN prevProc
        PROVE  cpuTime'[q].total <= prevProc[q] + cpuTime'[q].since
    BY <2>2, <2>3, <1>t, <1>n
  <2> QED  BY <2>1, <2>3, <2>4, <1>t DEF SharesInv
<1>2. ASSUME NEW p \in Procs, Recycle(p) PROVE SharesInv'
  <2>1. cpuTime' = [cpuTime EXCEPT ![p] = NewProcess] /\ UNCHANGED <<prevProc, draft, pub>>
    BY <1>2 DEF Recycle
  <2>2. NewProcess \in CpuTimes /\ NewProcess.total = 0 /\ NewProcess.since = 0
    BY DEF NewProcess, CpuTimes
  <2>3. /\ cpuTime' \in [Procs -> CpuTimes] /\ cpuTime'[p] = NewProcess
        /\ \A q \in Procs \ {p} : cpuTime'[q] = cpuTime[q]
    BY <2>1, <2>2, <1>t
  <2>4. ASSUME NEW q \in DOMAIN prevProc
        PROVE  cpuTime'[q].total <= prevProc[q] + cpuTime'[q].since
    BY <2>2, <2>3, <1>t, <1>n
  <2> QED  BY <2>1, <2>3, <2>4, <1>t DEF SharesInv
<1>3. CASE Measure
  <2>1. PICK rows \in {pub.rows} \cup {ProcRows(listed) : listed \in SUBSET Procs} :
          /\ \/ rows = pub.rows /\ UNCHANGED <<prevProc, cpuTime>>
             \/ rows = ProcRows(DOMAIN rows) /\ ListProcs(DOMAIN rows)
          /\ draft'.rows = rows
    BY <1>3 DEF Measure
  <2>2. UNCHANGED pub
    BY <1>3 DEF Measure
  <2>3. DOMAIN rows \in SUBSET Procs
    BY <2>1, <1>t DEF RowsOK, ProcRows
  <2>4. RowsOK(rows)
    BY <2>1, <2>3, <1>t, ListedRowsAreTrue
  <2>5. CASE UNCHANGED <<prevProc, cpuTime>>
    BY <2>1, <2>2, <2>4, <2>5, <1>t DEF SharesInv
  <2>6. CASE ListProcs(DOMAIN rows)
    BY <2>1, <2>2, <2>3, <2>4, <2>6, <1>t, ListingIsBaseline DEF SharesInv
  <2> QED  BY <2>1, <2>5, <2>6
<1>4. CASE Publish
  BY <1>4, <1>t DEF Publish, SharesInv, kernel
<1>5. CASE UNCHANGED <<cpuTime, prevProc, draft, pub>>
  BY <1>5, <1>t DEF SharesInv
<1> QED
  <2>1. ASSUME NEW s \in Sources, Transfer(s) \/ Fall(s) PROVE UNCHANGED <<cpuTime, prevProc, draft, pub>>
    BY <2>1 DEF Transfer, Fall
  <2>2. SampleGpus \/ UNCHANGED metricsVars => UNCHANGED <<cpuTime, prevProc, draft, pub>>
    BY DEF SampleGpus, metricsVars, kernel
  <2> QED  BY <1>1, <1>2, <1>3, <1>4, <1>5, <2>1, <2>2 DEF MetricsNext

(* Neither bytes nor CPU time are ever told twice or of somebody else, for *)
(* any number of sources and processes (metrics.go, the baselines of       *)
(* sample and readProcs).                                                  *)
THEOREM TrafficAccounted == MetricsSpec => []TrafficIsAccounted
<1>1. MetricsInit => SharesInv
  BY SharesInit
<1>2. SharesInv /\ [MetricsNext]_metricsVars => SharesInv'
  BY SharesStep
<1>3. SharesInv => SharesAreOwn
  BY DEF SharesInv, SharesAreOwn, RowsOK
<1>4. CountersAreAccounted /\ SharesAreOwn => TrafficIsAccounted
  BY DEF TrafficIsAccounted
<1> QED
  BY <1>1, <1>2, <1>3, <1>4, CountersTold, PTL DEF MetricsSpec

--------------------------------------------------------------------------------
(***************************************************************************)
(* The history.  Samples are numbered; what is published is the sample     *)
(* before the one being measured, and both rings end in it.                *)
(***************************************************************************)
Watts == 1 .. MaxWatts
Point == [time : Nat, gpus : Seq(Watts)]

ViewOK(v) == v.gpus \in Seq(Watts) /\ v.avgs \in Seq(Watts) /\ Len(v.avgs) = Len(v.gpus)

RingsOK ==
  /\ ring \in Seq(Nat) /\ powerRing \in Seq(Point)
  /\ Len(ring) <= RingCap /\ Len(powerRing) = Len(ring)
  /\ \A i \in 1 .. Len(ring) :
       powerRing[i].time = ring[i] /\ ring[i] = pub.time - Len(ring) + i
  /\ Len(ring) > 0 => powerRing[Len(ring)].gpus = pub.gpus

HistoryInv ==
  /\ taken \in Nat /\ pub.time \in Nat
  /\ snap \in Seq(Watts) /\ decays \in Seq(Watts)
  /\ draft = NoDraft => pub.time = taken
  /\ draft # NoDraft => draft.time = taken /\ pub.time + 1 = taken /\ ViewOK(draft)
  /\ ViewOK(pub)
  /\ RingsOK

(* What a ring keeps are its newest points.                                *)
LEMMA NewestIsSuffix ==
  ASSUME NEW S, NEW seq \in Seq(S)
  PROVE  /\ Newest(seq) \in Seq(S)
         /\ Len(Newest(seq)) = IF Len(seq) > RingCap THEN RingCap ELSE Len(seq)
         /\ \A i \in 1 .. Len(Newest(seq)) :
              Newest(seq)[i] = seq[i + (Len(seq) - Len(Newest(seq)))]
<1> USE MetricsConstants
<1>1. CASE Len(seq) > RingCap
  <2> DEFINE k == Len(seq) - RingCap + 1
  <2>1. k \in 1 .. Len(seq) /\ Len(seq) \in Nat /\ Len(seq) - k + 1 = RingCap
    BY <1>1
  <2>2. Newest(seq) = SubSeq(seq, k, Len(seq))
    BY <1>1 DEF Newest
  <2> HIDE DEF k
  <2>3. /\ SubSeq(seq, k, Len(seq)) \in Seq(S) /\ Len(SubSeq(seq, k, Len(seq))) = Len(seq) - k + 1
        /\ \A i \in 1 .. Len(seq) - k + 1 : SubSeq(seq, k, Len(seq))[i] = seq[k + i - 1]
    BY <2>1
  <2> QED  BY <1>1, <2>1, <2>2, <2>3
<1>2. CASE ~(Len(seq) > RingCap)
  BY <1>2 DEF Newest
<1> QED  BY <1>1, <1>2

(* The averages are again one of watts for each row ever listed.           *)
LEMMA AveragesAreWatts ==
  ASSUME HistoryInv, NEW new \in Averages
  PROVE  new \in Seq(Watts) /\ Len(new) >= Len(snap)
<1> DEFINE m == IF Len(snap) > Len(decays) THEN Len(snap) ELSE Len(decays)
<1>1. /\ snap \in Seq(Watts) /\ decays \in Seq(Watts)
      /\ Len(snap) \in Nat /\ Len(decays) \in Nat
  BY DEF HistoryInv
<1>2. m \in Nat /\ m >= Len(snap) /\ m >= Len(decays)
  BY <1>1
<1>3. DOMAIN snap \cup DOMAIN decays = 1 .. m
  BY <1>1
<1>4. /\ new \in [1 .. m -> 0 .. MaxWatts]
      /\ \A i \in 1 .. m : new[i] \in NextAverage(i)
  BY <1>3 DEF Averages
<1>5. \A i \in 1 .. m : i \in 1 .. Len(snap) \/ i \in 1 .. Len(decays)
  BY <1>1
<1> HIDE DEF m
<1>6. ASSUME NEW i \in 1 .. m PROVE new[i] \in Watts
  <2>1. new[i] \in NextAverage(i)
    BY <1>4
  <2>2. i \in Nat /\ (i \in 1 .. Len(snap) \/ i \in 1 .. Len(decays))
    BY <1>2, <1>5
  <2>3. i \in 1 .. Len(snap) => snap[i] \in Watts
    BY <1>1
  <2>4. i \in 1 .. Len(decays) => decays[i] \in Watts
    BY <1>1
  <2>5. CASE i > Len(snap)
    BY <2>1, <2>2, <2>4, <2>5, <1>1 DEF NextAverage
  <2>6. CASE ~(i > Len(snap)) /\ i > Len(decays)
    BY <2>1, <2>2, <2>3, <2>6, <1>1 DEF NextAverage
  <2>7. CASE ~(i > Len(snap)) /\ ~(i > Len(decays))
    <3>1. snap[i] \in Watts /\ decays[i] \in Watts
      BY <2>2, <2>3, <2>4, <2>7, <1>1
    <3>2. new[i] \in Towards(decays[i], snap[i])
      BY <2>1, <2>7 DEF NextAverage
    <3> QED  BY <3>1, <3>2, MetricsConstants DEF Towards, Watts
  <2> QED  BY <2>5, <2>6, <2>7
<1>7. new \in [1 .. m -> Watts]
  BY <1>4, <1>6
<1> QED  BY <1>7, <1>2

(* The history starts empty, with sample 0.                                *)
LEMMA HistoryInit == ASSUME MetricsInit PROVE HistoryInv
<1>1. <<>> \in Seq(Watts) /\ <<>> \in Seq(Nat) /\ <<>> \in Seq(Point) /\ Len(<<>>) = 0
  OBVIOUS
<1>2. /\ taken = 0 /\ snap = <<>> /\ decays = <<>> /\ draft = NoDraft
      /\ ring = <<>> /\ powerRing = <<>>
      /\ pub.time = 0 /\ pub.gpus = <<>> /\ pub.avgs = <<>>
  BY DEF MetricsInit, Blank
<1>3. ViewOK(pub)
  BY <1>1, <1>2 DEF ViewOK
<1>4. RingsOK
  BY <1>1, <1>2, MetricsConstants DEF RingsOK
<1> QED  BY <1>1, <1>2, <1>3, <1>4 DEF HistoryInv

(* Sampling, measuring and publishing keep it coherent.                    *)
LEMMA HistoryStep == ASSUME HistoryInv, [MetricsNext]_metricsVars PROVE HistoryInv'
<1> USE MetricsConstants
<1>t. /\ taken \in Nat /\ pub.time \in Nat
      /\ snap \in Seq(Watts) /\ decays \in Seq(Watts)
      /\ draft = NoDraft => pub.time = taken
      /\ draft # NoDraft => draft.time = taken /\ pub.time + 1 = taken /\ ViewOK(draft)
      /\ ViewOK(pub) /\ RingsOK
  BY DEF HistoryInv
<1>1. CASE SampleGpus
  <2>1. PICK n \in 0 .. MaxGpus : snap' \in [1 .. n -> Watts]
    BY <1>1 DEF SampleGpus, Watts
  <2>2. snap' \in Seq(Watts)
    BY <2>1
  <2>3. UNCHANGED <<taken, pub, decays, draft, ring, powerRing>>
    BY <1>1 DEF SampleGpus
  <2> QED  BY <2>2, <2>3, <1>t DEF HistoryInv, RingsOK, ViewOK
<1>2. CASE Measure
  <2>1. draft = NoDraft /\ taken' = taken + 1 /\ UNCHANGED <<snap, pub, ring, powerRing>>
    BY <1>2 DEF Measure
  <2>2. PICK new \in Averages, rows \in {pub.rows} \cup {ProcRows(listed) : listed \in SUBSET Procs} :
          /\ decays' = new
          /\ draft' = [time |-> taken + 1, rows |-> rows, gpus |-> snap,
                       avgs |-> SubSeq(new, 1, Len(snap))]
    BY <1>2 DEF Measure
  <2>3. new \in Seq(Watts) /\ Len(new) >= Len(snap)
    BY AveragesAreWatts
  <2>4. /\ SubSeq(new, 1, Len(snap)) \in Seq(Watts)
        /\ Len(SubSeq(new, 1, Len(snap))) = Len(snap)
    BY <2>3, <1>t
  <2>5. draft'.time = taken' /\ draft'.gpus = snap /\ draft'.avgs = SubSeq(new, 1, Len(snap))
    BY <2>1, <2>2
  <2>6. ViewOK(draft)'
    BY <2>4, <2>5, <1>t DEF ViewOK
  <2>7. draft' # NoDraft
    <3>1. "time" \in DOMAIN draft'
      BY <2>2
    <3>2. DOMAIN NoDraft = {}
      BY DEF NoDraft
    <3> QED  BY <3>1, <3>2
  <2>8. pub.time + 1 = taken' /\ taken' \in Nat
    BY <2>1, <1>t
  <2>9. RingsOK'
    BY <2>1, <1>t DEF RingsOK
  <2>10. ViewOK(pub)'
    BY <2>1, <1>t DEF ViewOK
  <2> QED  BY <2>1, <2>2, <2>3, <2>5, <2>6, <2>7, <2>8, <2>9, <2>10, <1>t DEF HistoryInv
<1>3. CASE Publish
  <2> DEFINE p == [time |-> draft.time, gpus |-> draft.gpus]
             r == Append(ring, draft.time)
             w == Append(powerRing, p)
             n == Len(ring)
  <2>1. /\ pub' = draft /\ draft' = NoDraft /\ ring' = Newest(r) /\ powerRing' = Newest(w)
        /\ UNCHANGED <<snap, decays, taken>> /\ draft # NoDraft
    BY <1>3 DEF Publish
  <2>2. /\ draft.time = taken /\ pub.time + 1 = taken /\ taken \in Nat /\ pub.time \in Nat
        /\ draft.gpus \in Seq(Watts)
    BY <2>1, <1>t DEF ViewOK
  <2>3. p \in Point /\ p.time = taken /\ p.gpus = draft.gpus
    BY <2>2 DEF Point
  <2>4. /\ ring \in Seq(Nat) /\ powerRing \in Seq(Point) /\ n \in Nat /\ n <= RingCap
        /\ Len(powerRing) = n
        /\ \A i \in 1 .. n : powerRing[i].time = ring[i] /\ ring[i] = pub.time - n + i
    BY <1>t DEF RingsOK
  <2> HIDE DEF p
  <2>5. /\ r \in Seq(Nat) /\ Len(r) = n + 1 /\ r[n + 1] = taken
        /\ \A i \in 1 .. n : r[i] = ring[i]
    BY <2>2, <2>4
  <2>6. /\ w \in Seq(Point) /\ Len(w) = n + 1 /\ w[n + 1] = p
        /\ \A i \in 1 .. n : w[i] = powerRing[i]
    BY <2>3, <2>4
  <2> HIDE DEF r, w, n
  <2>7. \A i \in 1 .. n + 1 : w[i].time = r[i] /\ r[i] = taken - (n + 1) + i
    <3> SUFFICES ASSUME NEW i \in 1 .. n + 1
                 PROVE  w[i].time = r[i] /\ r[i] = taken - (n + 1) + i
      OBVIOUS
    <3>1. CASE i = n + 1
      BY <3>1, <2>2, <2>3, <2>4, <2>5, <2>6
    <3>2. CASE i \in 1 .. n
      <4>1. w[i].time = r[i]
        BY <3>2, <2>4, <2>5, <2>6
      <4>2. r[i] = pub.time - n + i
        BY <3>2, <2>4, <2>5
      <4>3. i \in Nat /\ pub.time - n + i = taken - (n + 1) + i
        BY <3>2, <2>2, <2>4
      <4> QED  BY <4>1, <4>2, <4>3
    <3> QED  BY <3>1, <3>2, <2>4
  <2> DEFINE m == IF n + 1 > RingCap THEN RingCap ELSE n + 1
  <2>8. m \in Nat /\ m > 0 /\ m <= RingCap /\ m <= n + 1
    BY <2>4
  <2>9. /\ ring' \in Seq(Nat) /\ Len(ring') = m
        /\ \A i \in 1 .. m : ring'[i] = r[i + ((n + 1) - m)]
    <3>1. /\ Newest(r) \in Seq(Nat)
          /\ Len(Newest(r)) = IF Len(r) > RingCap THEN RingCap ELSE Len(r)
          /\ \A i \in 1 .. Len(Newest(r)) : Newest(r)[i] = r[i + (Len(r) - Len(Newest(r)))]
      BY <2>5, NewestIsSuffix
    <3>2. Len(Newest(r)) = m
      BY <3>1, <2>5
    <3> HIDE DEF m
    <3> QED  BY <3>1, <3>2, <2>1, <2>5
  <2>10. /\ powerRing' \in Seq(Point) /\ Len(powerRing') = m
         /\ \A i \in 1 .. m : powerRing'[i] = w[i + ((n + 1) - m)]
    <3>1. /\ Newest(w) \in Seq(Point)
          /\ Len(Newest(w)) = IF Len(w) > RingCap THEN RingCap ELSE Len(w)
          /\ \A i \in 1 .. Len(Newest(w)) : Newest(w)[i] = w[i + (Len(w) - Len(Newest(w)))]
      BY <2>6, NewestIsSuffix
    <3>2. Len(Newest(w)) = m
      BY <3>1, <2>6
    <3> HIDE DEF m
    <3> QED  BY <3>1, <3>2, <2>1, <2>6
  <2> HIDE DEF m
  <2>11. ASSUME NEW i \in 1 .. m
         PROVE  powerRing'[i].time = ring'[i] /\ ring'[i] = taken - m + i
    <3> DEFINE j == i + ((n + 1) - m)
    <3>1. j \in 1 .. n + 1 /\ taken - (n + 1) + j = taken - m + i
      BY <2>2, <2>4, <2>8
    <3>2. ring'[i] = r[j] /\ powerRing'[i] = w[j]
      BY <2>9, <2>10
    <3> HIDE DEF j
    <3> QED  BY <3>1, <3>2, <2>7
  <2>12. powerRing'[m].gpus = draft.gpus
    <3>1. m \in 1 .. m /\ m + ((n + 1) - m) = n + 1
      BY <2>8, <2>4
    <3>2. powerRing'[m] = w[n + 1]
      BY <3>1, <2>10
    <3> QED  BY <3>2, <2>6, <2>3
  <2>13. RingsOK'
    BY <2>1, <2>2, <2>8, <2>9, <2>10, <2>11, <2>12 DEF RingsOK
  <2> QED  BY <2>1, <2>2, <2>13, <1>t DEF HistoryInv, ViewOK
<1>4. CASE UNCHANGED <<taken, pub, snap, decays, draft, ring, powerRing>>
  BY <1>4, <1>t DEF HistoryInv, RingsOK, ViewOK
<1> QED
  <2>1. ASSUME NEW s \in Sources, Transfer(s) \/ Fall(s)
        PROVE  UNCHANGED <<taken, pub, snap, decays, draft, ring, powerRing>>
    BY <2>1 DEF Transfer, Fall
  <2>2. ASSUME NEW p \in Procs, Work(p) \/ Recycle(p)
        PROVE  UNCHANGED <<taken, pub, snap, decays, draft, ring, powerRing>>
    BY <2>2 DEF Work, Recycle
  <2>3. UNCHANGED metricsVars => UNCHANGED <<taken, pub, snap, decays, draft, ring, powerRing>>
    BY DEF metricsVars, kernel
  <2> QED  BY <1>1, <1>2, <1>3, <1>4, <2>1, <2>2, <2>3 DEF MetricsNext

(* Whatever the GPU sampler lists from one sample to the next, the summary *)
(* and both rings belong together and have their averages (metrics.go,     *)
(* the publishing section of sample and the decays beside it).             *)
THEOREM HistoryCoherent == MetricsSpec => []HistoryIsCoherent
<1>1. MetricsInit => HistoryInv
  BY HistoryInit
<1>2. HistoryInv /\ [MetricsNext]_metricsVars => HistoryInv'
  BY HistoryStep
<1>3. ASSUME HistoryInv PROVE HistoryIsCoherent
  <2>1. ring \in Seq(Nat) /\ powerRing \in Seq(Point) /\ Len(powerRing) = Len(ring)
    BY <1>3 DEF HistoryInv, RingsOK
  <2>2. Last(powerRing) = powerRing[Len(powerRing)]
    BY DEF Last
  <2>3. ring # <<>> => Len(ring) > 0
    BY <2>1
  <2>4. DOMAIN ring = 1 .. Len(ring)
    BY <2>1
  <2>5. pub.avgs \in Seq(Watts) /\ Len(pub.avgs) = Len(pub.gpus)
    BY <1>3 DEF HistoryInv, ViewOK
  <2>6. \A i \in DOMAIN pub.avgs : pub.avgs[i] \in Watts
    BY <2>5
  <2> QED  BY <2>1, <2>2, <2>3, <2>4, <2>5, <2>6, <1>3 DEF HistoryInv, RingsOK, HistoryIsCoherent, Watts
<1> QED
  BY <1>1, <1>2, <1>3, PTL DEF MetricsSpec

--------------------------------------------------------------------------------
(***************************************************************************)
(* Thermal.  The components and the inventory are stored by one step, and  *)
(* the chart only ever slides by a point that measures something.  That no *)
(* silent disk gets a value there is what the SMART table, and a snapshot  *)
(* of it in the dynamic probe's hands, are made of.                        *)
(***************************************************************************)
TempTables == UNION {[N -> Disks \cup {Empty}] : N \in SUBSET Names}
AnswerTables == UNION {[N -> Disks \ Silent] : N \in SUBSET Names}
Components == [gpus : 0 .. MaxRows, disks : TempTables]
ChartPoints == [cpu : BOOLEAN, gpus : 0 .. MaxRows, disks : AnswerTables]
Snapshots == [on : BOOLEAN, gpus : 0 .. MaxRows, crit : Components, smart : AnswerTables]

ThermalTypeOK ==
  /\ slot \in [Names -> Disks \cup {Empty}] /\ cpuSensor \in BOOLEAN
  /\ inventory \in 0 .. MaxRows /\ dynGpus \in 0 .. MaxRows
  /\ thermCrit \in Components /\ smart \in AnswerTables
  /\ static \in [on : BOOLEAN, gpus : 0 .. MaxRows, seen : BOOLEAN]
  /\ point \in Snapshots
  /\ thermRing \in Seq(ChartPoints)

ThermalInv == ThermalTypeOK /\ ChartFollowsProbes

(* A table of disks by name.                                               *)
LEMMA ListedIsTable ==
  ASSUME slot \in [Names -> Disks \cup {Empty}], NEW N \in SUBSET Names
  PROVE  Listed(N) \in TempTables
BY DEF Listed, TempTables

LEMMA NoDisksIsTable == NoDisks \in TempTables /\ NoDisks \in AnswerTables
<1>1. NoDisks \in [{} -> Disks \cup {Empty}] /\ NoDisks \in [{} -> Disks \ Silent]
  BY DEF NoDisks
<1> QED  BY <1>1 DEF TempTables, AnswerTables

(* The table of the SMART probe holds the disks that answer.               *)
LEMMA SmartTableAnswers ==
  ASSUME slot \in [Names -> Disks \cup {Empty}] PROVE SmartTable \in AnswerTables
<1> DEFINE N == {n \in Plugged : slot[n] \notin Silent}
<1>1. N \in SUBSET Names /\ \A n \in N : slot[n] \in Disks \ Silent
  BY DEF Plugged
<1>2. SmartTable = [n \in N |-> slot[n]]
  BY DEF SmartTable, Listed
<1>3. SmartTable \in [N -> Disks \ Silent]
  BY <1>1, <1>2
<1> QED  BY <1>1, <1>3 DEF AnswerTables

(* A part of a table is a table.                                           *)
LEMMA PartOfTable ==
  ASSUME NEW f \in AnswerTables, NEW S \in SUBSET Names
  PROVE  [n \in S \cap DOMAIN f |-> f[n]] \in AnswerTables
<1>1. PICK N \in SUBSET Names : f \in [N -> Disks \ Silent]
  BY DEF AnswerTables
<1>2. [n \in S \cap DOMAIN f |-> f[n]] \in [S \cap N -> Disks \ Silent]
  BY <1>1
<1> QED  BY <1>2 DEF AnswerTables

(* Taking the front off a sequence that is too long leaves its last        *)
(* members, in order.                                                      *)
LEMMA TrimmedKeepsTheEnd ==
  ASSUME NEW S, NEW seq \in Seq(S)
  PROVE  /\ Trimmed(seq) \in Seq(S) /\ Len(Trimmed(seq)) <= ThermalCap
         /\ \A i \in DOMAIN Trimmed(seq) : \E j \in DOMAIN seq : Trimmed(seq)[i] = seq[j]
<1>1. ThermalCap \in Nat /\ Len(seq) \in Nat
  BY ThermalConstants
<1>2. CASE Len(seq) > ThermalCap
  <2> DEFINE first == Len(seq) - ThermalCap + 1
  <2>1. Trimmed(seq) = SubSeq(seq, first, Len(seq))
    BY <1>2 DEF Trimmed
  <2>2. first \in 1 .. Len(seq) + 1
    BY <1>1, <1>2
  <2>3. /\ SubSeq(seq, first, Len(seq)) \in Seq(S)
        /\ Len(SubSeq(seq, first, Len(seq))) = ThermalCap
        /\ \A i \in 1 .. ThermalCap : SubSeq(seq, first, Len(seq))[i] = seq[first + i - 1]
    BY <1>1, <1>2, <2>2
  <2>4. ASSUME NEW i \in 1 .. ThermalCap PROVE first + i - 1 \in 1 .. Len(seq)
    BY <1>1, <1>2
  <2>5. DOMAIN Trimmed(seq) = 1 .. ThermalCap
    BY <2>1, <2>3
  <2>6. Trimmed(seq) \in Seq(S) /\ Len(Trimmed(seq)) <= ThermalCap
    BY <1>1, <2>1, <2>3
  <2>7. ASSUME NEW i \in DOMAIN Trimmed(seq) PROVE \E j \in DOMAIN seq : Trimmed(seq)[i] = seq[j]
    <3>1. i \in 1 .. ThermalCap
      BY <2>5
    <3>2. Trimmed(seq)[i] = seq[first + i - 1] /\ first + i - 1 \in DOMAIN seq
      BY <2>1, <2>3, <2>4, <3>1
    <3> QED  BY <3>2
  <2> QED  BY <2>6, <2>7
<1>3. CASE ~(Len(seq) > ThermalCap)
  BY <1>1, <1>3 DEF Trimmed
<1> QED  BY <1>2, <1>3

(* The components of a static probe are those of the inventory it stores.  *)
LEMMA StaticStoresBoth ==
  ASSUME ThermalInv, NEW N \in SUBSET Names, StoreStatic(N) PROVE ThermalInv'
<1>1. /\ static.on /\ inventory' = static.gpus /\ thermCrit' = [gpus |-> static.gpus, disks |-> Listed(N)]
      /\ static' = NotProbing /\ UNCHANGED <<slot, cpuSensor, smart, dynGpus, point, thermRing>>
  BY DEF StoreStatic, ThermalMeta, fittings
<1>2. Listed(N) \in TempTables /\ NotProbing \in [on : BOOLEAN, gpus : 0 .. MaxRows, seen : BOOLEAN]
  BY ThermalConstants, ListedIsTable DEF ThermalInv, ThermalTypeOK, NotProbing
<1>3. thermCrit' \in Components /\ inventory' \in 0 .. MaxRows
  BY <1>1, <1>2 DEF ThermalInv, ThermalTypeOK, Components
<1>4. ChartFollowsProbes'
  BY <1>1 DEF ThermalInv, ChartFollowsProbes
<1> QED  BY <1>1, <1>2, <1>3, <1>4 DEF ThermalInv, ThermalTypeOK

(* The derived point is a point.                                           *)
LEMMA SampleIsPoint == ASSUME ThermalTypeOK PROVE Sample \in ChartPoints
<1>1. /\ point.crit.disks \in TempTables /\ point.smart \in AnswerTables
      /\ point.gpus \in 0 .. MaxRows /\ point.crit.gpus \in 0 .. MaxRows
  BY DEF ThermalTypeOK, Snapshots, Components
<1>2. DOMAIN point.crit.disks \in SUBSET Names
  BY <1>1 DEF TempTables
<1>3. Sample.disks \in AnswerTables
  BY <1>1, <1>2, PartOfTable DEF Sample
<1>4. Least(point.gpus, point.crit.gpus) \in 0 .. MaxRows
  BY <1>1 DEF Least
<1> QED  BY <1>3, <1>4 DEF Sample, ThermalTypeOK, ChartPoints

LEMMA DynamicKeepsChart == ASSUME ThermalInv, StoreDynamic PROVE ThermalInv'
<1>1. /\ UNCHANGED <<slot, cpuSensor, inventory, thermCrit, static, smart>>
      /\ dynGpus' = point.gpus /\ point' = NoPoint
  BY DEF StoreDynamic, fittings, probed
<1>2. NoPoint \in Snapshots
  BY NoDisksIsTable, ThermalConstants DEF NoPoint, Snapshots, Components
<1>3. /\ thermRing' \in Seq(ChartPoints) /\ Len(thermRing') <= ThermalCap
      /\ \A i \in DOMAIN thermRing' : Measured(thermRing'[i])
  <2>1. CASE ~Measured(Sample)
    BY <2>1 DEF StoreDynamic, ThermalInv, ThermalTypeOK, ChartFollowsProbes
  <2>2. CASE Measured(Sample)
    <3> DEFINE longer == Append(thermRing, Sample)
    <3>1. thermRing' = Trimmed(longer)
      BY <2>2 DEF StoreDynamic
    <3>2. /\ longer \in Seq(ChartPoints)
          /\ \A j \in DOMAIN longer : longer[j] = Sample \/ \E i \in DOMAIN thermRing : longer[j] = thermRing[i]
      BY SampleIsPoint DEF ThermalInv, ThermalTypeOK
    <3>3. \A j \in DOMAIN longer : Measured(longer[j])
      BY <2>2, <3>2 DEF ThermalInv, ChartFollowsProbes
    <3> HIDE DEF longer
    <3> QED  BY <3>1, <3>2, <3>3, TrimmedKeepsTheEnd
  <2> QED  BY <2>1, <2>2
<1> QED  BY <1>1, <1>2, <1>3 DEF ThermalInv, ThermalTypeOK, ChartFollowsProbes, Snapshots

LEMMA ThermalStep == ASSUME ThermalInv, [ThermalNext]_thermalVars PROVE ThermalInv'
<1> USE DEF ThermalInv, ThermalTypeOK, ChartFollowsProbes, probed, fittings
<1>1. CASE ProbeGpus
  BY <1>1 DEF ProbeGpus
<1>2. CASE StaticListsDisks \/ StaticListFails
  BY <1>2, StaticStoresBoth DEF StaticListsDisks, StaticListFails, Plugged
<1>3. CASE ProbeSmartTable
  BY <1>3, SmartTableAnswers DEF ProbeSmartTable
<1>4. CASE Snapshot
  <2>1. PICK k \in 0 .. MaxRows : point' = [on |-> TRUE, gpus |-> k, crit |-> thermCrit, smart |-> smart]
    BY <1>4 DEF Snapshot
  <2>2. point' \in Snapshots
    BY <2>1 DEF Snapshots
  <2>3. static' \in [on : BOOLEAN, gpus : 0 .. MaxRows, seen : BOOLEAN]
    BY <1>4 DEF Snapshot
  <2>4. UNCHANGED <<slot, cpuSensor, inventory, thermCrit, smart, dynGpus, thermRing>>
    BY <1>4 DEF Snapshot
  <2> QED  BY <2>2, <2>3, <2>4
<1>5. CASE StoreDynamic
  BY <1>5, DynamicKeepsChart
<1>6. CASE \E n \in Names : PullOut(n) \/ \E d \in Disks : PlugIn(n, d)
  BY <1>6 DEF PullOut, PlugIn
<1>7. CASE UNCHANGED thermalVars
  BY <1>7 DEF thermalVars
<1> QED  BY <1>1, <1>2, <1>3, <1>4, <1>5, <1>6, <1>7 DEF ThermalNext, ThermalLoops

LEMMA ThermalStart == ASSUME ThermalInit PROVE ThermalInv
<1>1. Plugged \in SUBSET Names
  BY DEF Plugged
<1>2. thermCrit \in Components /\ smart \in AnswerTables
  BY <1>1, ListedIsTable, SmartTableAnswers DEF ThermalInit, Components, SmartTable
<1>3. /\ static \in [on : BOOLEAN, gpus : 0 .. MaxRows, seen : BOOLEAN]
      /\ point \in Snapshots
  BY NoDisksIsTable, ThermalConstants DEF ThermalInit, NotProbing, NoPoint, Snapshots, Components
<1>4. /\ thermRing \in Seq(ChartPoints) /\ Len(thermRing) <= ThermalCap
      /\ \A i \in DOMAIN thermRing : Measured(thermRing[i])
  <2> DEFINE x == [cpu |-> TRUE, gpus |-> inventory, disks |-> NoDisks]
  <2>1. x \in ChartPoints /\ Measured(x)
    BY NoDisksIsTable DEF ThermalInit, ChartPoints, Measured
  <2>2. thermRing = <<x>> \/ thermRing = <<>>
    BY DEF ThermalInit
  <2> HIDE DEF x
  <2>3. <<x>> \in Seq(ChartPoints) /\ Len(<<x>>) = 1 /\ \A i \in DOMAIN <<x>> : <<x>>[i] = x
    BY <2>1
  <2>4. <<>> \in Seq(ChartPoints) /\ Len(<<>>) = 0 /\ DOMAIN <<>> = {}
    OBVIOUS
  <2>5. CASE thermRing = <<x>>
    BY <2>1, <2>3, <2>5, ThermalConstants
  <2>6. CASE thermRing = <<>>
    BY <2>4, <2>6, ThermalConstants
  <2> QED  BY <2>2, <2>5, <2>6
<1> QED  BY <1>2, <1>3, <1>4 DEF ThermalInit, ThermalInv, ThermalTypeOK, ChartFollowsProbes

(* A step that changes the chart slides it by the point its own snapshot   *)
(* gives.                                                                  *)
LEMMA SlidingWindow ==
  ASSUME NEW S, NEW seq \in Seq(S), NEW x \in S, Len(seq) <= ThermalCap
  PROVE  Slides(seq, Trimmed(Append(seq, x))) /\ Last(Trimmed(Append(seq, x))) = x
<1> DEFINE longer == Append(seq, x)
           k == Len(seq)
<1>1. /\ ThermalCap \in Nat \ {0} /\ k \in Nat /\ longer \in Seq(S) /\ Len(longer) = k + 1
      /\ longer[k + 1] = x /\ \A i \in 1 .. k : longer[i] = seq[i]
  BY ThermalConstants
<1> HIDE DEF longer
<1>2. CASE k = ThermalCap
  <2>1. Trimmed(longer) = SubSeq(longer, 2, k + 1)
    BY <1>1, <1>2 DEF Trimmed
  <2>2. /\ SubSeq(longer, 2, k + 1) \in Seq(S) /\ Len(SubSeq(longer, 2, k + 1)) = k
        /\ \A i \in 1 .. k : SubSeq(longer, 2, k + 1)[i] = longer[i + 1]
    BY <1>1
  <2>3. Least(k + 1, ThermalCap) = k
    BY <1>1, <1>2 DEF Least
  <2>4. \A i \in 1 .. k - 1 : Trimmed(longer)[i] = seq[k - k + 1 + i]
    BY <1>1, <2>1, <2>2
  <2>5. Slides(seq, Trimmed(longer))
    BY <1>1, <1>2, <2>1, <2>2, <2>3, <2>4 DEF Slides
  <2>6. Last(Trimmed(longer)) = x
    BY <1>1, <1>2, <2>1, <2>2 DEF Last
  <2> QED  BY <2>5, <2>6 DEF longer
<1>3. CASE k < ThermalCap
  <2>1. Trimmed(longer) = longer /\ Least(k + 1, ThermalCap) = k + 1
    BY <1>1, <1>3 DEF Trimmed, Least
  <2>2. Slides(seq, longer) /\ Last(longer) = x
    BY <1>1, <2>1 DEF Slides, Last
  <2> QED  BY <2>1, <2>2 DEF longer
<1> QED  BY <1>1, <1>2, <1>3

LEMMA SampleFitsList ==
  ASSUME ThermalTypeOK PROVE FitsList(Sample, point.crit)
<1>1. point.gpus \in Nat /\ point.crit.gpus \in Nat /\ point.smart \in AnswerTables
  BY ThermalConstants DEF ThermalTypeOK, Snapshots, Components
<1>2. PICK N \in SUBSET Names : point.smart \in [N -> Disks \ Silent]
  BY <1>1 DEF AnswerTables
<1> QED  BY <1>1, <1>2 DEF FitsList, Sample, Least

LEMMA ChartStep ==
  ASSUME ThermalInv, [ThermalNext]_thermalVars, thermRing' # thermRing
  PROVE  Slides(thermRing, thermRing') /\ FitsList(Last(thermRing'), point.crit)
<1>1. CASE StoreDynamic
  <2>1. thermRing' = Trimmed(Append(thermRing, Sample))
    BY <1>1 DEF StoreDynamic
  <2>2. thermRing \in Seq(ChartPoints) /\ Sample \in ChartPoints /\ Len(thermRing) <= ThermalCap
    BY SampleIsPoint DEF ThermalInv, ThermalTypeOK, ChartFollowsProbes
  <2>3. Slides(thermRing, thermRing') /\ Last(thermRing') = Sample
    BY <2>1, <2>2, SlidingWindow
  <2> QED  BY <2>3, SampleFitsList DEF ThermalInv
<1>2. CASE [ThermalNext]_thermalVars /\ ~StoreDynamic
  <2>1. thermRing' = thermRing
    BY <1>2 DEF ThermalNext, ThermalLoops, ProbeGpus, StaticListsDisks, StaticListFails, StoreStatic,
                ProbeSmartTable, Snapshot, PullOut, PlugIn, thermalVars
  <2> QED  BY <2>1
<1> QED  BY <1>1, <1>2

(* The components and the inventory are always of one static probe, the    *)
(* chart is never longer than its capacity nor has a point without a       *)
(* temperature, and it only slides: by one point at its end, with no row   *)
(* its own component list does not have and no value of a silent disk.     *)
THEOREM ChartIsCoherent == ThermalSpec => []ChartFollowsProbes /\ ChartSlides
<1>1. ThermalInit => ThermalInv
  BY ThermalStart
<1>2. ThermalInv /\ [ThermalNext]_thermalVars => ThermalInv'
  BY ThermalStep
<1>3. ThermalInv => ChartFollowsProbes
  BY DEF ThermalInv
<1>4. ThermalInv /\ [ThermalNext]_thermalVars =>
        [thermRing' # thermRing =>
           Slides(thermRing, thermRing') /\ FitsList(Last(thermRing'), point.crit)]_thermalVars
  BY ChartStep
<1> QED  BY <1>1, <1>2, <1>3, <1>4, PTL DEF ThermalSpec, ChartSlides
================================================================================
