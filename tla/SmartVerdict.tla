------------------------------ MODULE SmartVerdict ------------------------------
(***************************************************************************)
(* How backend/internal/hardware/smart.go turns one smartctl payload into  *)
(* a verdict: the operators from Class to Parse are parseSmartData and     *)
(* what it calls.  Around them a drive of some make ages step by step and  *)
(* is probed after each step; Payload says what smartctl prints for it, in *)
(* the vendors' encodings the source names.                                *)
(*                                                                         *)
(* Abstractions: an optional value is a set of at most one element; the    *)
(* wording of the reason, firmware, power cycles and the bytes written are *)
(* left out; a digit string is the number it reads as.                     *)
(***************************************************************************)
EXTENDS Integers

CONSTANTS
  Makes,        \* the makes of drive, a subset of AllMakes
  Overrun,      \* the makes that may be used beyond their rated life
  UsedLevels,   \* percentages of the rated life a drive goes through
  CountLevels,  \* values its defect counters go through
  HourLevels,   \* power-on hours it goes through
  Word          \* values of the low word of a packed raw value (2^32)

(* The encodings of wear smart.go names: see WearTable.                    *)
SsdMakes == {"gauge", "life", "misnamed", "mirrored", "pinned", "reversed"}
AllMakes == SsdMakes \cup {"nvme", "hdd"}
Counters == {"uncorrectable", "offline", "reallocated", "pending", "crc"}

ASSUME VerdictConstants ==
  /\ Makes \subseteq AllMakes /\ Overrun \subseteq Makes
  /\ UsedLevels \subseteq Nat /\ CountLevels \subseteq Nat /\ HourLevels \subseteq Nat
  /\ 0 \in UsedLevels \cap CountLevels \cap HourLevels
  /\ Word \in Nat /\ \A n \in CountLevels : n < Word

VARIABLES
  drive,    \* the drive as it is (its environment, not the daemon's state)
  health    \* the SmartHealth of its last probe

vars == <<drive, health>>

--------------------------------------------------------------------------------
(***************************************************************************)
(* Parsing.  A payload has the optional fields passed, table (the ATA      *)
(* attributes by ID) and log (the NVMe health log).                        *)
(***************************************************************************)
Clamp(v, lo, hi) == IF v < lo THEN lo ELSE IF v > hi THEN hi ELSE v
Abs(v) == IF v < 0 THEN -v ELSE v

Class(p) ==
  IF p.protocol = "NVMe" \/ p.log # {} THEN "nvme"
  ELSE IF p.rotation > 0 THEN "hdd" ELSE "ssd"

(* The count of an attribute: the number its raw string starts with, else  *)
(* the low word of its raw value.                                          *)
RawUnmasked(a) == IF a.text = {} THEN a.raw ELSE CHOOSE n \in a.text : TRUE   \* mutant of RawCount
RawCount(a) == IF a.text = {} THEN a.raw % Word ELSE CHOOSE n \in a.text : TRUE
Count(t, id) == IF id \in DOMAIN t THEN RawCount(t[id]) ELSE 0

(* A gauge that counts down from 100; above 100 it reports what is used.   *)
NormalizedDown(a) ==
  IF a.value > 100
  THEN IF a.raw <= 100 THEN {Clamp(100 - a.raw, 0, 100)} ELSE {}
  ELSE IF a.value < 0 THEN {} ELSE {a.value}

(* Percent_Lifetime_Remain, which some makes keep in VALUE, some in RAW.   *)
ReadsValue(a) == IF a.value \in 0 .. 100 THEN {a.value} ELSE {}   \* mutant of LifetimeRemain
LifetimeRemain(a) ==
  IF a.raw <= 100
  THEN IF Abs(a.value + a.raw - 100) <= 2
       THEN {Clamp(a.value, 0, 100)}
       ELSE {Clamp(100 - a.raw, 0, 100)}
  ELSE IF a.value \in 0 .. 100 THEN {a.value} ELSE {}

AnyName(id, a) ==                                   \* mutant of WearPercent
  IF id = 202 THEN LifetimeRemain(a) ELSE NormalizedDown(a)
WearPercent(id, a) ==
  IF id = 231 /\ ~a.life THEN {}
  ELSE IF id = 202 THEN LifetimeRemain(a) ELSE NormalizedDown(a)

WearIds == <<231, 233, 177, 169, 202, 173>>         \* most specific first

(* The first wear attribute that resolves.                                 *)
Resolves(t, i) == WearIds[i] \in DOMAIN t /\ WearPercent(WearIds[i], t[WearIds[i]]) # {}
SsdLife(t) ==
  UNION {WearPercent(WearIds[i], t[WearIds[i]]) :
           i \in {k \in 1 .. 6 : Resolves(t, k) /\ \A j \in 1 .. k - 1 : ~Resolves(t, j)}}

Life(p) ==
  IF Class(p) = "nvme" THEN {Clamp(100 - l.used, 0, 100) : l \in p.log}
  ELSE IF Class(p) = "ssd" THEN UNION {SsdLife(t) : t \in p.table} ELSE {}

Temp(p) ==
  IF p.temp = 0 /\ p.log # {} THEN (CHOOSE l \in p.log : TRUE).temp ELSE p.temp

(***************************************************************************)
(* The verdict.                                                            *)
(***************************************************************************)
HasSignal(p) == p.passed # {} \/ p.table # {} \/ p.log # {}

NvmeCritical(l) ==
  l.warning # 0 \/ (l.threshold > 0 /\ l.spare <= l.threshold) \/ l.mediaErrors > 0
NvmeWarned(l) == (l.threshold > 0 /\ l.spare <= l.threshold + 10) \/ l.hotTime > 0

AtaCritical(t) == Count(t, 187) > 0 \/ Count(t, 198) > 0 \/ Count(t, 10) > 0
PendingIgnored(t) == Count(t, 5) > 0                  \* mutant of AtaWarned
AtaWarned(t) == Count(t, 5) > 0 \/ Count(t, 197) > 0

Critical(p) ==
  \/ FALSE \in p.passed
  \/ \E l \in p.log : NvmeCritical(l)
  \/ Class(p) # "nvme" /\ \E t \in p.table : AtaCritical(t)
  \/ \E v \in Life(p) : v <= 5
Warned(p) ==
  \/ \E l \in p.log : NvmeWarned(l)
  \/ Class(p) # "nvme" /\ \E t \in p.table : AtaWarned(t)
  \/ \E v \in Life(p) : v <= 10
  \/ Temp(p) >= IF Class(p) = "hdd" THEN 60 ELSE 70

(* A warning never hides a critical finding.                               *)
LastOneWins(p) ==                                   \* mutant of Verdict
  IF ~HasSignal(p) THEN "none"
  ELSE IF Warned(p) THEN "warning"
  ELSE IF Critical(p) THEN "critical" ELSE "healthy"
Verdict(p) ==
  IF ~HasSignal(p) THEN "none"
  ELSE IF Critical(p) THEN "critical"
  ELSE IF Warned(p) THEN "warning" ELSE "healthy"

(* The age of a spinning disk: its hours against five years of use.        *)
HddLifeRefHours == 43800
Age(p) ==
  IF HasSignal(p) /\ Class(p) = "hdd" /\ p.hours > 0
  THEN {Clamp((p.hours * 100) \div HddLifeRefHours, 0, 100)} ELSE {}

NoHealth == [status |-> "none", life |-> {}, age |-> {}]
Parse(p) ==
  IF p.valid THEN [status |-> Verdict(p), life |-> Life(p), age |-> Age(p)] ELSE NoHealth

--------------------------------------------------------------------------------
(***************************************************************************)
(* What smartctl prints for a drive.                                       *)
(***************************************************************************)
Encodings == {"packed", "spelled"}

(* A defect counter: the firmware packs another number into the high word, *)
(* which smartctl does or does not spell out in the raw string.            *)
Counter(d, c) ==
  LET n == d.count[c] IN
  [value |-> 100, life |-> FALSE, raw |-> n + Word,
   text  |-> IF d.encoding = "packed" THEN {} ELSE {n}]

IdOf(c) == CASE c = "reallocated"   -> 5
             [] c = "uncorrectable" -> 187
             [] c = "pending"       -> 197
             [] c = "offline"       -> 198
             [] c = "crc"           -> 199

Left(d) == IF d.used > 100 THEN 0 ELSE 100 - d.used
Gauge(value, raw) == [value |-> value, raw |-> raw, text |-> {raw}, life |-> FALSE]
LifeGauge(value) == [Gauge(value, 0) EXCEPT !.life = TRUE]

(* The attribute or attributes a make reports its wear in.                 *)
WearTable(d) ==
  CASE d.make = "gauge"    -> [id \in {233} |-> Gauge(Left(d), 0)]
    [] d.make = "life"     -> [id \in {231} |-> LifeGauge(Left(d))]
    [] d.make = "misnamed" -> [id \in {231, 233} |->
                                 Gauge(IF id = 231 THEN 100 - d.temp ELSE Left(d), 0)]
    [] d.make = "mirrored" -> [id \in {202} |-> Gauge(Left(d), d.used)]
    [] d.make = "pinned"   -> [id \in {202} |-> Gauge(100, d.used)]
    [] d.make = "reversed" -> [id \in {177} |-> Gauge(200, d.used)]
    [] OTHER               -> [id \in {} |-> Gauge(0, 0)]

CounterIds == {IdOf(c) : c \in Counters}
Table(d) ==
  LET wear == WearTable(d) IN
  [id \in CounterIds \cup DOMAIN wear |->
     IF id \in DOMAIN wear THEN wear[id]
     ELSE Counter(d, CHOOSE c \in Counters : IdOf(c) = id)]

SpareThreshold == 10
HealthLog(d) ==        \* the spare blocks run low, and then out, as sectors are replaced
  [used |-> d.used, threshold |-> SpareThreshold,
   spare |-> IF d.count["offline"] > 0 THEN SpareThreshold - 5
             ELSE IF d.count["reallocated"] > 0 THEN SpareThreshold + 5 ELSE 100,
   warning |-> IF d.failed THEN 1 ELSE 0,
   mediaErrors |-> d.count["uncorrectable"],
   hotTime |-> IF d.baked THEN 1 ELSE 0, temp |-> d.temp]

Payload(d) ==
  [valid    |-> TRUE,
   protocol |-> IF d.make = "nvme" THEN "NVMe" ELSE "ATA",
   rotation |-> IF d.make = "hdd" THEN 7200 ELSE 0,
   passed   |-> {~d.failed},
   table    |-> IF d.make = "nvme" THEN {} ELSE {Table(d)},
   log      |-> IF d.make = "nvme" THEN {HealthLog(d)} ELSE {},
   temp     |-> IF d.make = "nvme" THEN 0 ELSE d.temp,
   hours    |-> d.hours]

--------------------------------------------------------------------------------
(***************************************************************************)
(* A drive's life.  Each step ages it in one way and probes it.            *)
(***************************************************************************)
Cool == 35
Warm == 65     \* too warm for a spinning disk only
Hot  == 75
Temps == {Cool, Warm, Hot}

Drives == [make : Makes, encoding : Encodings, used : UsedLevels,
           count : [Counters -> CountLevels], hours : HourLevels,
           temp : Temps, baked : BOOLEAN, failed : BOOLEAN]

NewDrive(make, encoding) ==
  [make |-> make, encoding |-> encoding, used |-> 0, count |-> [c \in Counters |-> 0],
   hours |-> 0, temp |-> Cool, baked |-> FALSE, failed |-> FALSE]

Init ==
  /\ \E make \in Makes, encoding \in Encodings : drive = NewDrive(make, encoding)
  /\ health = Parse(Payload(drive))

Probed == health' = Parse(Payload(drive'))

Wear(used) ==                           \* a spinning disk has no wear gauge
  /\ drive.make # "hdd"
  /\ used > drive.used
  /\ used <= 100 \/ drive.make \in Overrun
  /\ drive' = [drive EXCEPT !.used = used]
  /\ Probed

Run(hours) ==                           \* only a spinning disk's hours are judged
  /\ drive.make = "hdd"
  /\ hours > drive.hours
  /\ drive' = [drive EXCEPT !.hours = hours]
  /\ Probed

CountersOf(make) ==
  IF make = "nvme" THEN {"uncorrectable", "reallocated", "offline"} ELSE Counters

Damage(c, n) ==
  /\ c \in CountersOf(drive.make) /\ n > drive.count[c]
  /\ drive' = [drive EXCEPT !.count[c] = n]
  /\ Probed

FailSelfTest ==
  /\ ~drive.failed
  /\ drive' = [drive EXCEPT !.failed = TRUE]
  /\ Probed

ChangeTemp(t) ==
  /\ t # drive.temp
  /\ drive' = [drive EXCEPT !.temp = t, !.baked = @ \/ t = Hot]
  /\ Probed

(* smartctl prints nothing, or something that is not its JSON, version 1.  *)
ProbeGarbled ==
  /\ health' = Parse([Payload(drive) EXCEPT !.valid = FALSE])
  /\ UNCHANGED drive

(* The device cannot be read, but smartctl prints what it knows about it.  *)
ProbeUnread ==
  /\ health' = Parse([Payload(drive) EXCEPT !.passed = {}, !.table = {}, !.log = {}])
  /\ UNCHANGED drive

Next ==
  \/ \E used \in UsedLevels : Wear(used)
  \/ \E hours \in HourLevels : Run(hours)
  \/ \E c \in Counters, n \in CountLevels : Damage(c, n)
  \/ FailSelfTest
  \/ \E t \in Temps : ChangeTemp(t)
  \/ ProbeGarbled \/ ProbeUnread

Spec == Init /\ [][Next]_vars

--------------------------------------------------------------------------------
(***************************************************************************)
(* Properties.                                                             *)
(***************************************************************************)
Statuses == {"none", "healthy", "warning", "critical"}

(* The percentages shown are percentages, whatever the firmware counts to  *)
(* (PercentageUsed runs to 255).                                           *)
TypeOK ==
  /\ drive \in Drives
  /\ health \in [status : Statuses, life : SUBSET (0 .. 100), age : SUBSET (0 .. 100)]

Rank(s) == CASE s = "healthy" -> 1 [] s = "warning" -> 2 [] s = "critical" -> 3 [] OTHER -> 0
Read(h) == h.status # "none"

(* A verdict is taken back only because the drive cooled: no new finding,  *)
(* in whatever order findings arrive, hides a worse one (deriveVerdict's   *)
(* warn must not overwrite crit).                                          *)
VerdictImprovesOnlyByCooling ==
  [][Read(health') /\ Rank(health'.status) < Rank(health.status)
       => drive'.temp < drive.temp]_vars

TooHot(d) == d.temp >= IF d.make = "hdd" THEN 60 ELSE 70

(* Nothing but a defect of the drive raises an alarm: not cabling errors   *)
(* (UDMA CRC), not old age, not heat within a drive's range, and not the   *)
(* other numbers firmwares pack into a counter.                            *)
NoFalseAlarm ==
  /\ \A c \in Counters \ {"crc"} : drive.count[c] = 0
  /\ drive.used < 90
  /\ ~drive.failed /\ ~drive.baked /\ ~TooHot(drive)
  => health.status \in {"healthy", "none"}

(* A drive with its rated life used up is critical, in whichever of the    *)
(* vendors' attributes and directions it counts its wear.                  *)
WornOutIsCritical ==
  drive.used >= 95 /\ Read(health) => health.status = "critical"

(* "healthy" is never false reassurance: no defect was reported, the drive *)
(* passed its self-test, has endurance left and is not too hot.            *)
HealthyMeansSound ==
  health.status = "healthy" =>
    /\ \A c \in CountersOf(drive.make) \ {"crc"} : drive.count[c] = 0
    /\ ~drive.failed /\ ~TooHot(drive)
    /\ drive.used < 90

(* From one probe to the next the endurance shown neither rises nor        *)
(* disappears: a drive does not grow younger (wearPercent's fallbacks must *)
(* agree with each other where they meet).                                 *)
LifeOnlyFalls ==
  [][Read(health) /\ Read(health') =>
       \A old \in health.life : \E new \in health'.life : new <= old]_vars
================================================================================
