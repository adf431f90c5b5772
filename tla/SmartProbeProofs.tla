---------------------------- MODULE SmartProbeProofs ----------------------------
(***************************************************************************)
(* Proofs about SmartProbe, for any names, readers and reuses of a name:   *)
(* what a reader sees comes from one probe run, no disk is called          *)
(* unreachable before its time, and polling never turns into probing.      *)
(*                                                                         *)
(* The invariant follows the liveness stamps: those published, and those a *)
(* probe has read and not yet carried over, are never older than the last  *)
(* published answer, while the clock moves all of them at once.            *)
(***************************************************************************)
EXTENDS SmartProbe, FiniteSetTheorems, TLAPS

Probes == [names : SUBSET Names, todo : SUBSET Names, got : MapOf(Gens),
           met : MapOf(0 .. MaxPlugs), prev : MapOf(Ages), stamp : Ages]
ReaderRecords == [rows : MapOf(Gens), seen : Caches]

ProbeTypeOK ==
  /\ plugged \in [Names -> 0 .. MaxPlugs] /\ used \in [Names -> Gens]
  /\ answers \subseteq Listed
  /\ caches \in Caches /\ probe \in Probes
  /\ reader \in [Readers -> ReaderRecords]
  /\ ppc \in {"wait", "list", "ask", "publish"}
  /\ silent \in [Names -> Ages]

(* No stamp in m is older than the last published answer of its name.      *)
NotOlder(m) == \A n \in DOMAIN m : m[n] <= silent[n]

ProbeInv ==
  /\ ProbeTypeOK
  /\ probe.todo \subseteq probe.names
  /\ DOMAIN probe.got \subseteq probe.names
  /\ ppc \in {"wait", "list"} => DOMAIN probe.got = {}
  /\ OneProbeRun
  /\ NotOlder(caches.ok)
  /\ ppc = "publish" => NotOlder(probe.prev)

--------------------------------------------------------------------------------
(* The maps.                                                               *)
LEMMA MapIs ==
  ASSUME NEW S, NEW m
  PROVE  m \in MapOf(S) <=> \E D \in SUBSET Names : m \in [D -> S]
BY DEF MapOf

(* A map holds values, for names.                                          *)
LEMMA MapHolds ==
  ASSUME NEW S, NEW m \in MapOf(S)
  PROVE  DOMAIN m \subseteq Names /\ \A n \in DOMAIN m : m[n] \in S
BY MapIs

(* The empty map is one, of anything.                                      *)
LEMMA NoMapIsMap ==
  ASSUME NEW S PROVE NoMap \in MapOf(S) /\ DOMAIN NoMap = {}
<1>1. NoMap \in [{} -> S] /\ {} \in SUBSET Names
  BY DEF NoMap
<1> QED  BY <1>1, MapIs DEF NoMap

(* Ageing keeps the names of a map, and keeps stamps apart or makes them   *)
(* equal.                                                                  *)
LEMMA OlderIsMap ==
  ASSUME NEW m \in MapOf(Ages)
  PROVE  Older(m) \in MapOf(Ages) /\ DOMAIN Older(m) = DOMAIN m
<1>1. \A n \in DOMAIN m : m[n] \in Ages
  BY MapHolds
<1>2. Older(m) \in [DOMAIN m -> Ages]
  BY <1>1 DEF Older, Ages, MaxAge, UnreachableAfter
<1>3. DOMAIN m \in SUBSET Names
  BY MapHolds
<1> QED  BY <1>2, <1>3, MapIs

(* A map with one more assignment is a map.                                *)
LEMMA PutIsMap ==
  ASSUME NEW S, NEW m \in MapOf(S), NEW n \in Names, NEW v \in S
  PROVE  Put(m, n, v) \in MapOf(S) /\ DOMAIN Put(m, n, v) = DOMAIN m \cup {n}
<1>1. DOMAIN m \cup {n} \in SUBSET Names
  BY MapHolds
<1>2. Put(m, n, v) \in [DOMAIN m \cup {n} -> S]
  BY MapHolds DEF Put
<1> QED  BY <1>1, <1>2, MapIs

(* Ageing a stamp and the last answer together does not part them.         *)
LEMMA AgeingIsMonotone ==
  ASSUME NEW a \in Ages, NEW b \in Ages, a <= b
  PROVE  (IF a < MaxAge THEN a + 1 ELSE MaxAge) <= (IF b < MaxAge THEN b + 1 ELSE MaxAge)
BY DEF Ages, MaxAge, UnreachableAfter

(* The stamps after a probe run: of the disks that answered, and of the    *)
(* listed ones it carries.                                                 *)
LEMMA MergedIsMap ==
  ASSUME NEW p \in Probes
  PROVE  /\ MergedLiveness(p) \in MapOf(Ages)
         /\ DOMAIN MergedLiveness(p) = DOMAIN p.got \cup (p.names \cap DOMAIN p.prev)
         /\ \A n \in DOMAIN MergedLiveness(p) :
              MergedLiveness(p)[n] = IF n \in DOMAIN p.got THEN p.stamp ELSE p.prev[n]
<1> DEFINE D == DOMAIN p.got \cup (p.names \cap DOMAIN p.prev)
<1>1. p.got \in MapOf(Gens) /\ p.prev \in MapOf(Ages) /\ p.stamp \in Ages /\ p.names \in SUBSET Names
  BY DEF Probes
<1>2. D \in SUBSET Names
  BY <1>1, MapHolds
<1>3. MergedLiveness(p) = [n \in D |-> IF n \in DOMAIN p.got THEN p.stamp ELSE p.prev[n]]
  BY DEF MergedLiveness
<1>4. \A n \in D : (IF n \in DOMAIN p.got THEN p.stamp ELSE p.prev[n]) \in Ages
  BY <1>1, MapHolds
<1>5. MergedLiveness(p) \in [D -> Ages]
  BY <1>3, <1>4
<1> QED  BY <1>2, <1>3, <1>5, MapIs

--------------------------------------------------------------------------------
(* The empty records.                                                      *)
LEMMA NoCachesIsCaches ==
  NoCaches \in Caches /\ NoCaches.smart = NoMap /\ NoCaches.ok = NoMap /\ NoCaches.tried = {}
<1>1. NoMap \in MapOf(Gens) /\ NoMap \in MapOf(Ages)
  BY NoMapIsMap
<1> QED  BY <1>1 DEF NoCaches, Caches

(* A probe that has not begun has no disk and no answer.                   *)
LEMMA NoProbeIsProbe ==
  NoProbe \in Probes /\ NoProbe.todo = {} /\ NoProbe.names = {} /\ DOMAIN NoProbe.got = {}
<1>1. NoMap \in MapOf(Gens) /\ NoMap \in MapOf(Ages) /\ NoMap \in MapOf(0 .. MaxPlugs) /\ DOMAIN NoMap = {}
  BY NoMapIsMap
<1>2. 0 \in Ages
  BY DEF Ages, MaxAge, UnreachableAfter
<1> QED  BY <1>1, <1>2 DEF NoProbe, Probes

(* An idle request has seen nothing.                                       *)
LEMMA NoReaderIsReader == NoReader \in ReaderRecords /\ Coherent(NoReader.seen)
<1>1. NoMap \in MapOf(Gens) /\ DOMAIN NoMap = {}
  BY NoMapIsMap
<1>2. NoReader \in ReaderRecords /\ NoReader.seen = NoCaches
  BY <1>1, NoCachesIsCaches DEF NoReader, ReaderRecords
<1> QED  BY <1>1, <1>2, NoCachesIsCaches DEF Coherent

(* The caches and the loop start empty.                                    *)
LEMMA ProbeInitInv == ASSUME Init PROVE ProbeInv
<1>1. DOMAIN NoMap = {}
  BY NoMapIsMap
<1>2. 0 \in 0 .. MaxPlugs /\ 1 \in 0 .. MaxPlugs /\ 1 \in Gens /\ MaxAge \in Ages
  BY ProbeConstants DEF Gens, Ages, MaxAge, UnreachableAfter
<1>3. Listed = Names
  BY DEF Init, Listed
<1>4. ProbeTypeOK
  BY <1>2, <1>3, NoCachesIsCaches, NoProbeIsProbe, NoReaderIsReader DEF Init, ProbeTypeOK
<1>5. OneProbeRun
  BY <1>1, NoCachesIsCaches, NoReaderIsReader DEF Init, OneProbeRun, Coherent
<1>6. NotOlder(caches.ok)
  BY <1>1, NoCachesIsCaches DEF Init, NotOlder
<1> QED  BY <1>4, <1>5, <1>6, NoProbeIsProbe DEF Init, ProbeInv

(* Every step preserves the invariant.                                     *)
LEMMA ProbeStepInv == ASSUME ProbeInv, [Next]_vars PROVE ProbeInv'
<1>t. /\ plugged \in [Names -> 0 .. MaxPlugs] /\ used \in [Names -> Gens] /\ answers \subseteq Listed
      /\ caches \in Caches /\ probe \in Probes /\ reader \in [Readers -> ReaderRecords]
      /\ ppc \in {"wait", "list", "ask", "publish"} /\ silent \in [Names -> Ages]
  BY DEF ProbeInv, ProbeTypeOK
<1>i. /\ probe.todo \subseteq probe.names /\ DOMAIN probe.got \subseteq probe.names
      /\ (ppc \in {"wait", "list"} => DOMAIN probe.got = {})
      /\ Coherent(caches) /\ (\A d \in Readers : Coherent(reader[d].seen))
      /\ NotOlder(caches.ok) /\ (ppc = "publish" => NotOlder(probe.prev))
  BY DEF ProbeInv, OneProbeRun
<1>c. /\ caches.smart \in MapOf(Gens) /\ caches.ok \in MapOf(Ages) /\ caches.tried \in SUBSET Names
  BY <1>t DEF Caches
<1>p. /\ probe.names \in SUBSET Names /\ probe.todo \in SUBSET Names /\ probe.got \in MapOf(Gens)
      /\ probe.met \in MapOf(0 .. MaxPlugs) /\ probe.prev \in MapOf(Ages) /\ probe.stamp \in Ages
  BY <1>t DEF Probes
<1>1. ASSUME NEW n \in Names, Plug(n) PROVE ProbeInv'
  <2>1. /\ plugged[n] = 0 /\ used[n] < MaxPlugs
        /\ plugged' = [plugged EXCEPT ![n] = used[n] + 1] /\ used' = [used EXCEPT ![n] = used[n] + 1]
        /\ answers' \in {answers \cup {n}, answers}
        /\ UNCHANGED <<caches, ppc, probe, reader, silent>>
    BY <1>1 DEF Plug, probeVars, readerVars
  <2>2. used[n] \in Gens
    BY <1>t
  <2>3. used[n] + 1 \in Gens /\ used[n] + 1 \in 0 .. MaxPlugs
    BY <2>1, <2>2, ProbeConstants DEF Gens
  <2>4. plugged' \in [Names -> 0 .. MaxPlugs] /\ used' \in [Names -> Gens]
    BY <2>1, <2>3, <1>t
  <2>5. plugged'[n] # 0 /\ \A m \in Names \ {n} : plugged'[m] = plugged[m]
    BY <2>1, <2>2, <1>t DEF Gens
  <2>6. answers' \subseteq Listed'
    BY <2>1, <2>5, <1>t DEF Listed
  <2> QED  BY <2>1, <2>4, <2>6, <1>t, <1>i DEF ProbeInv, ProbeTypeOK, OneProbeRun, NotOlder
<1>2. ASSUME NEW n \in Names, Unplug(n) PROVE ProbeInv'
  <2>1. /\ plugged' \in {plugged, [plugged EXCEPT ![n] = 0]} /\ answers' = answers \ {n}
        /\ UNCHANGED <<used, caches, ppc, probe, reader, silent>>
    BY <1>2 DEF Unplug, probeVars, readerVars, history
  <2>2. plugged' \in [Names -> 0 .. MaxPlugs]
    BY <2>1, <1>t, ProbeConstants
  <2>3. \A m \in Names \ {n} : plugged'[m] = plugged[m]
    BY <2>1, <1>t
  <2>4. answers' \subseteq Listed'
    BY <2>1, <2>3, <1>t DEF Listed
  <2> QED  BY <2>1, <2>2, <2>4, <1>t, <1>i DEF ProbeInv, ProbeTypeOK, OneProbeRun, NotOlder
<1>3. CASE Tick
  <2> DEFINE stamp == IF ppc = "publish" /\ probe.stamp < MaxAge THEN probe.stamp + 1 ELSE probe.stamp
             age(n) == IF silent[n] < MaxAge THEN silent[n] + 1 ELSE MaxAge
  <2>1. /\ caches' = [caches EXCEPT !.ok = Older(caches.ok)]
        /\ probe' = [probe EXCEPT !.prev = Older(probe.prev), !.stamp = stamp]
        /\ reader' = [d \in Readers |-> [reader[d] EXCEPT !.seen = [reader[d].seen EXCEPT !.ok = Older(reader[d].seen.ok)]]]
        /\ silent' = Older(silent)
        /\ UNCHANGED <<plugged, used, answers, ppc>>
    BY <1>3 DEF Tick, world
  <2>2. stamp \in Ages
    BY <1>p DEF Ages, MaxAge, UnreachableAfter
  <2> HIDE DEF stamp
  <2>3. Older(caches.ok) \in MapOf(Ages) /\ DOMAIN Older(caches.ok) = DOMAIN caches.ok
    BY <1>c, OlderIsMap
  <2>4. Older(probe.prev) \in MapOf(Ages) /\ DOMAIN Older(probe.prev) = DOMAIN probe.prev
    BY <1>p, OlderIsMap
  <2>5. silent' \in [Names -> Ages] /\ \A n \in Names : silent'[n] = age(n)
    BY <2>1, <1>t DEF Older, Ages, MaxAge, UnreachableAfter
  <2>6. /\ caches' \in Caches /\ caches'.smart = caches.smart /\ caches'.tried = caches.tried
        /\ caches'.ok = Older(caches.ok)
    BY <2>1, <2>3, <1>t DEF Caches
  <2>7. /\ probe' \in Probes /\ probe'.todo = probe.todo /\ probe'.names = probe.names
        /\ probe'.got = probe.got /\ probe'.prev = Older(probe.prev)
    BY <2>1, <2>2, <2>4, <1>t DEF Probes
  <2>8. ASSUME NEW d \in Readers
        PROVE  reader'[d] \in ReaderRecords /\ Coherent(reader'[d].seen)
    <3> DEFINE s == reader[d].seen
               z == [s EXCEPT !.ok = Older(s.ok)]
    <3>1. s \in Caches /\ s.ok \in MapOf(Ages) /\ reader[d] \in ReaderRecords /\ Coherent(s)
      BY <1>t, <1>i DEF ReaderRecords, Caches
    <3>2. Older(s.ok) \in MapOf(Ages) /\ DOMAIN Older(s.ok) = DOMAIN s.ok
      BY <3>1, OlderIsMap
    <3>3. reader'[d] = [reader[d] EXCEPT !.seen = z]
      BY <2>1
    <3> HIDE DEF s
    <3>4. z \in Caches /\ z.smart = s.smart /\ z.ok = Older(s.ok) /\ z.tried = s.tried
      BY <3>1, <3>2 DEF Caches
    <3> HIDE DEF z
    <3>5. reader'[d] \in ReaderRecords /\ reader'[d].seen = z
      BY <3>1, <3>3, <3>4 DEF ReaderRecords
    <3> QED  BY <3>1, <3>2, <3>4, <3>5 DEF Coherent
  <2>9. reader' \in [Readers -> ReaderRecords]
    BY <2>1, <2>8
  <2>10. Coherent(caches')
    BY <2>3, <2>6, <1>i DEF Coherent
  <2>11. ASSUME NEW m \in MapOf(Ages), NotOlder(m), NEW n \in DOMAIN m
         PROVE  Older(m)[n] <= silent'[n]
    <3>1. n \in Names /\ m[n] \in Ages /\ silent[n] \in Ages /\ m[n] <= silent[n]
      BY <2>11, <1>t, MapHolds DEF NotOlder
    <3>2. Older(m)[n] = IF m[n] < MaxAge THEN m[n] + 1 ELSE MaxAge
      BY DEF Older
    <3> QED  BY <3>1, <3>2, <2>5, AgeingIsMonotone
  <2>12. NotOlder(caches.ok)'
    BY <2>3, <2>6, <2>11, <1>c, <1>i DEF NotOlder
  <2>13. ppc' = "publish" => NotOlder(probe.prev)'
    BY <2>1, <2>4, <2>7, <2>11, <1>p, <1>i DEF NotOlder
  <2>14. ProbeTypeOK'
    BY <2>1, <2>5, <2>6, <2>7, <2>9, <1>t DEF ProbeTypeOK, Listed
  <2>15. probe'.todo \subseteq probe'.names /\ DOMAIN probe'.got \subseteq probe'.names
    BY <2>7, <1>i
  <2>16. ppc' \in {"wait", "list"} => DOMAIN probe'.got = {}
    BY <2>1, <2>7, <1>i
  <2> QED  BY <2>8, <2>10, <2>12, <2>13, <2>14, <2>15, <2>16 DEF ProbeInv, OneProbeRun
<1>4. CASE WakeByTicker \/ WakeByNudge \/ ListNothing
  <2>1. /\ UNCHANGED <<plugged, used, answers, caches, probe, reader, silent>>
        /\ ppc \in {"list", "wait"} /\ ppc' \in {"list", "wait"}
    BY <1>4 DEF WakeByTicker, WakeByNudge, ListNothing, world, readerVars, history
  <2> QED  BY <2>1, <1>t, <1>i DEF ProbeInv, ProbeTypeOK, OneProbeRun, NotOlder, Listed
<1>5. CASE ListNames
  <2>1. /\ UNCHANGED <<plugged, used, answers, caches, reader, silent>>
        /\ ppc = "list" /\ ppc' = "ask"
        /\ probe' = [[probe EXCEPT !.names = Listed] EXCEPT !.todo = Listed]
    BY <1>5 DEF ListNames, world, readerVars, history
  <2>2. Listed \in SUBSET Names
    BY DEF Listed
  <2>3. probe' \in Probes /\ probe'.names = Listed /\ probe'.todo = Listed
    BY <2>1, <2>2, <1>t DEF Probes
  <2>4. probe'.got = probe.got
    BY <2>1, <1>t DEF Probes
  <2>5. DOMAIN probe'.got \subseteq probe'.names
    BY <2>1, <2>4, <1>i
  <2> QED  BY <2>1, <2>3, <2>5, <1>t, <1>i DEF ProbeInv, ProbeTypeOK, OneProbeRun, NotOlder, Listed
<1>6. ASSUME NEW n \in Names, AskDisk(n) PROVE ProbeInv'
  <2> DEFINE met == Put(probe.met, n, plugged[n])
             got == IF n \in answers THEN Put(probe.got, n, plugged[n]) ELSE probe.got
  <2>1. /\ ppc = "ask" /\ n \in probe.todo
        /\ probe' = [[[probe EXCEPT !.todo = probe.todo \ {n}] EXCEPT !.met = met] EXCEPT !.got = got]
        /\ UNCHANGED <<plugged, used, answers, caches, ppc, reader, silent>>
    BY <1>6 DEF AskDisk, world, readerVars, history
  <2>2. plugged[n] \in 0 .. MaxPlugs /\ (n \in answers => plugged[n] \in Gens)
    BY <1>t, ProbeConstants DEF Listed, Gens
  <2>3. met \in MapOf(0 .. MaxPlugs)
    BY <2>2, <1>p, PutIsMap
  <2>4. got \in MapOf(Gens) /\ DOMAIN got \subseteq DOMAIN probe.got \cup {n}
    <3>1. CASE n \in answers
      <4>1. got = Put(probe.got, n, plugged[n]) /\ plugged[n] \in Gens
        BY <3>1, <2>2
      <4>2. Put(probe.got, n, plugged[n]) \in MapOf(Gens)
        BY <4>1, <1>p, PutIsMap
      <4>3. DOMAIN Put(probe.got, n, plugged[n]) = DOMAIN probe.got \cup {n}
        BY DEF Put
      <4> HIDE DEF got
      <4> QED  BY <4>1, <4>2, <4>3
    <3>2. CASE n \notin answers
      BY <3>2, <1>p
    <3> QED  BY <3>1, <3>2
  <2>5. n \in probe.names
    BY <2>1, <1>i
  <2> HIDE DEF met, got
  <2>6. /\ probe' \in Probes /\ probe'.names = probe.names /\ probe'.todo = probe.todo \ {n}
        /\ probe'.got = got
    BY <2>1, <2>3, <2>4, <1>t DEF Probes
  <2>7. probe'.todo \subseteq probe'.names /\ DOMAIN probe'.got \subseteq probe'.names
    BY <2>4, <2>5, <2>6, <1>i
  <2>8. Listed' = Listed
    BY <2>1 DEF Listed
  <2> QED  BY <2>1, <2>6, <2>7, <2>8, <1>t, <1>i DEF ProbeInv, ProbeTypeOK, OneProbeRun, NotOlder
<1>7. CASE SnapshotLiveness
  <2>1. /\ ppc' = "publish" /\ UNCHANGED <<plugged, used, answers, caches, reader, silent>>
        /\ probe' = [[probe EXCEPT !.prev = caches.ok] EXCEPT !.stamp = 0]
    BY <1>7 DEF SnapshotLiveness, world, readerVars, history
  <2>2. 0 \in Ages
    BY DEF Ages, MaxAge, UnreachableAfter
  <2>3. /\ probe' \in Probes /\ probe'.names = probe.names /\ probe'.todo = probe.todo
        /\ probe'.got = probe.got /\ probe'.prev = caches.ok
    BY <2>1, <2>2, <1>c, <1>t DEF Probes
  <2>4. Listed' = Listed
    BY <2>1 DEF Listed
  <2> QED  BY <2>1, <2>3, <2>4, <1>t, <1>i DEF ProbeInv, ProbeTypeOK, OneProbeRun, NotOlder
<1>8. CASE Publish
  <2> DEFINE ok == MergedLiveness(probe)
  <2>1. /\ ppc = "publish" /\ ppc' = "wait" /\ probe' = NoProbe
        /\ caches' = [smart |-> probe.got, ok |-> ok, tried |-> probe.names]
        /\ silent' = [n \in Names |-> IF n \in DOMAIN probe.got THEN probe.stamp ELSE silent[n]]
        /\ UNCHANGED <<plugged, used, answers, reader>>
    BY <1>8 DEF Publish, world, readerVars
  <2>2. /\ ok \in MapOf(Ages) /\ DOMAIN ok = DOMAIN probe.got \cup (probe.names \cap DOMAIN probe.prev)
        /\ \A n \in DOMAIN ok : ok[n] = IF n \in DOMAIN probe.got THEN probe.stamp ELSE probe.prev[n]
    BY <1>t, MergedIsMap
  <2> HIDE DEF ok
  <2>3. caches' \in Caches /\ Coherent(caches') /\ caches'.ok = ok
    BY <2>1, <2>2, <1>p, <1>i DEF Caches, Coherent
  <2>4. silent' \in [Names -> Ages]
    BY <2>1, <1>p, <1>t
  <2>5. NotOlder(caches.ok)'
    <3>1. SUFFICES ASSUME NEW n \in DOMAIN ok PROVE ok[n] <= silent'[n]
      BY <2>3 DEF NotOlder
    <3>2. n \in Names /\ ok[n] \in Ages
      BY <2>2, MapHolds
    <3>3. CASE n \in DOMAIN probe.got
      BY <2>1, <2>2, <3>2, <3>3 DEF Ages
    <3>4. CASE n \notin DOMAIN probe.got
      <4>1. n \in DOMAIN probe.prev /\ ok[n] = probe.prev[n] /\ silent'[n] = silent[n]
        BY <2>1, <2>2, <3>2, <3>4
      <4> QED  BY <2>1, <4>1, <1>i DEF NotOlder
    <3> QED  BY <3>3, <3>4
  <2>6. NoProbe \in Probes /\ NoProbe.todo = {} /\ DOMAIN NoProbe.got = {}
    BY NoProbeIsProbe
  <2>7. Listed' = Listed
    BY <2>1 DEF Listed
  <2> QED  BY <2>1, <2>3, <2>4, <2>5, <2>6, <2>7, <1>t, <1>i DEF ProbeInv, ProbeTypeOK, OneProbeRun
<1>9. ASSUME NEW d \in Readers, ListDisks(d) \/ SnapshotCaches(d) \/ AnswerDisks(d) PROVE ProbeInv'
  <2>1. UNCHANGED <<plugged, used, answers, caches, ppc, probe, silent>>
    BY <1>9 DEF ListDisks, SnapshotCaches, AnswerDisks, world, probeVars, history
  <2>2. /\ reader' \in [Readers -> ReaderRecords]
        /\ \A e \in Readers : Coherent(reader'[e].seen)
    <3>0. reader[d] \in ReaderRecords
      BY <1>t
    <3>1. CASE ListDisks(d)
      <4> DEFINE rows == [n \in Listed |-> plugged[n]]
                 r == [reader[d] EXCEPT !.rows = rows]
      <4>1. reader' = [reader EXCEPT ![d] = r]
        BY <3>1 DEF ListDisks
      <4>2. rows \in [Listed -> Gens] /\ Listed \in SUBSET Names
        BY <1>t, ProbeConstants DEF Listed, Gens
      <4> HIDE DEF rows
      <4>3. rows \in MapOf(Gens)
        BY <4>2, MapIs
      <4>4. r \in ReaderRecords /\ r.seen = reader[d].seen
        BY <3>0, <4>3 DEF ReaderRecords
      <4> HIDE DEF r
      <4> QED  BY <4>1, <4>4, <1>t, <1>i
    <3>2. CASE SnapshotCaches(d)
      <4> DEFINE r == [reader[d] EXCEPT !.seen = caches]
      <4>1. reader' = [reader EXCEPT ![d] = r]
        BY <3>2 DEF SnapshotCaches
      <4>2. r \in ReaderRecords /\ r.seen = caches
        BY <3>0, <1>t DEF ReaderRecords
      <4> HIDE DEF r
      <4> QED  BY <4>1, <4>2, <1>t, <1>i
    <3>3. CASE AnswerDisks(d)
      <4>1. reader' = [reader EXCEPT ![d] = NoReader]
        BY <3>3 DEF AnswerDisks
      <4> QED  BY <4>1, NoReaderIsReader, <1>t, <1>i
    <3> QED  BY <1>9, <3>1, <3>2, <3>3
  <2>3. Listed' = Listed
    BY <2>1 DEF Listed
  <2> QED  BY <2>1, <2>2, <2>3, <1>t, <1>i DEF ProbeInv, ProbeTypeOK, OneProbeRun, NotOlder
<1>10. CASE UNCHANGED vars
  <2>1. UNCHANGED <<plugged, used, answers, caches, ppc, probe, reader, silent>>
    BY <1>10 DEF vars, world, probeVars, readerVars, history
  <2> QED  BY <2>1, <1>t, <1>i DEF ProbeInv, ProbeTypeOK, OneProbeRun, NotOlder, Listed
<1> QED  BY <1>1, <1>2, <1>3, <1>4, <1>5, <1>6, <1>7, <1>8, <1>9, <1>10 DEF Next, ProbeStep, ServeReader

--------------------------------------------------------------------------------
(***************************************************************************)
(* The nudges.  Since the list of disks last changed, the probe that was   *)
(* blind to the change has not been published, or it was the only one, or  *)
(* all listed disks are tried: from then on a nudge must come from the     *)
(* running probe, the queue, or a request that is behind the list.         *)
(***************************************************************************)
NudgesTypeOK ==
  /\ nudge \in BOOLEAN /\ nudged \in Nat
  /\ rpc \in [Readers -> {"idle", "snapshot", "rows"}]

Blind == ppc \in {"ask", "publish"} /\ ~(Listed \subseteq probe.names)
AllTried == Listed \subseteq caches.tried
Running == IF ppc # "wait" /\ cause = "nudge" THEN 1 ELSE 0
Queued == IF nudge = TRUE THEN 1 ELSE 0
UpToDate(d) ==
  /\ rpc[d] = "snapshot" => Rows(d) \subseteq Listed
  /\ rpc[d] = "rows" => Rows(d) \subseteq reader[d].seen.tried
Behind == {d \in Readers : ~UpToDate(d)}

NudgesInv ==
  /\ NudgesTypeOK
  /\ Blind => nudged = 0
  /\ ~AllTried => nudged <= 1
  /\ AllTried /\ ~Blind =>
       nudged + Running + Queued + Cardinality(Behind) <= 3 + Cardinality(Readers)

(* Requests are counted; fewer of them count for no more.                  *)
LEMMA ReadersCounted ==
  ASSUME NEW S \in SUBSET Readers, NEW T \in SUBSET S
  PROVE  /\ Cardinality(Readers) \in Nat /\ Cardinality(S) \in Nat /\ Cardinality(T) \in Nat
         /\ Cardinality(T) <= Cardinality(S) /\ Cardinality(S) <= Cardinality(Readers)
<1>1. IsFiniteSet(Readers)
  BY ProbeConstants
<1>2. IsFiniteSet(S) /\ Cardinality(S) <= Cardinality(Readers)
  BY <1>1, FS_Subset
<1>3. IsFiniteSet(T) /\ Cardinality(T) <= Cardinality(S)
  BY <1>2, FS_Subset
<1> QED  BY <1>1, <1>2, <1>3, FS_CardinalityType

(* Right after the list has changed nothing is counted.                    *)
LEMMA NothingNudgedNow == ASSUME nudged' = 0, NudgesTypeOK' PROVE NudgesInv'
<1>1. Behind' \in SUBSET Readers
  BY DEF Behind
<1>2. /\ Cardinality(Readers) \in Nat /\ Cardinality(Behind') \in Nat
      /\ Cardinality(Behind') <= Cardinality(Readers)
  BY <1>1, ReadersCounted
<1>3. Running' \in 0 .. 1 /\ Queued' \in 0 .. 1
  BY DEF Running, Queued
<1> QED  BY <1>2, <1>3 DEF NudgesInv

(* Nothing is counted at the start.                                        *)
LEMMA NudgesInitInv == ASSUME Init PROVE NudgesInv
<1>1. nudged = 0 /\ NudgesTypeOK
  BY DEF Init, NudgesTypeOK
<1>2. /\ Cardinality(Readers) \in Nat /\ Cardinality(Behind) \in Nat
      /\ Cardinality(Behind) <= Cardinality(Readers)
  BY ReadersCounted DEF Behind
<1>3. Running \in 0 .. 1 /\ Queued \in 0 .. 1
  BY DEF Running, Queued
<1> QED  BY <1>1, <1>2, <1>3 DEF NudgesInv

(* A step that leaves the lists, the probe's place and the nudges alone    *)
(* keeps the account if no request falls behind.                           *)
LEMMA NobodyFallsBehind ==
  ASSUME NudgesInv, NudgesTypeOK', UNCHANGED <<plugged, nudged>>,
         AllTried' <=> AllTried, Blind' <=> Blind, Running' + Queued' <= Running + Queued,
         AllTried /\ ~Blind => Behind' \subseteq Behind
  PROVE  NudgesInv'
<1>1. /\ (Blind' => nudged' = 0) /\ (~AllTried' => nudged' <= 1) /\ nudged \in Nat
  BY DEF NudgesInv, NudgesTypeOK
<1>2. ASSUME AllTried', ~Blind'
      PROVE  nudged' + Running' + Queued' + Cardinality(Behind') <= 3 + Cardinality(Readers)
  <2>1. nudged + Running + Queued + Cardinality(Behind) <= 3 + Cardinality(Readers)
    BY <1>2 DEF NudgesInv
  <2>2. Behind \in SUBSET Readers /\ Behind' \in SUBSET Behind
    BY <1>2 DEF Behind
  <2>3. /\ Cardinality(Readers) \in Nat /\ Cardinality(Behind) \in Nat
        /\ Cardinality(Behind') \in Nat /\ Cardinality(Behind') <= Cardinality(Behind)
    BY <2>2, ReadersCounted
  <2>4. Running \in 0 .. 1 /\ Queued \in 0 .. 1 /\ Running' \in 0 .. 1 /\ Queued' \in 0 .. 1
    BY DEF Running, Queued
  <2>5. nudged' = nudged /\ Running' + Queued' <= Running + Queued
    OBVIOUS
  <2>6. ASSUME NEW a \in Nat, NEW b \in Nat, NEW c \in Nat, NEW x \in 0 .. 1, NEW y \in 0 .. 1,
               NEW u \in 0 .. 1, NEW v \in 0 .. 1, NEW r \in Nat,
               a + x + y + b <= 3 + r, c <= b, u + v <= x + y
        PROVE  a + u + v + c <= 3 + r
    BY <2>6
  <2> HIDE DEF Running, Queued
  <2> QED  BY <1>1, <2>1, <2>3, <2>4, <2>5, <2>6
<1> QED  BY <1>1, <1>2 DEF NudgesInv

(* A published probe tries all disks, unless it was blind.                 *)
LEMMA PublishStep ==
  ASSUME ProbeInv, NudgesInv, Publish PROVE NudgesInv'
<1>1. /\ ppc = "publish" /\ ppc' = "wait"
      /\ caches' = [smart |-> probe.got, ok |-> MergedLiveness(probe), tried |-> probe.names]
      /\ nudged' = IF cause = "nudge" THEN nudged + 1 ELSE nudged
      /\ UNCHANGED <<plugged, nudge, cause, rpc, reader>>
  BY DEF Publish, world, readerVars
<1>2. nudged \in Nat /\ NudgesTypeOK'
  BY <1>1 DEF NudgesInv, NudgesTypeOK
<1>3. Listed' = Listed /\ caches'.tried = probe.names
  BY <1>1 DEF Listed
<1>4. ~Blind' /\ Running' = 0 /\ Queued' \in 0 .. 1 /\ (Blind <=> ~AllTried')
  BY <1>1, <1>3 DEF Blind, AllTried, Running, Queued
<1>5. CASE ~AllTried'
  <2>1. nudged = 0
    BY <1>4, <1>5 DEF NudgesInv
  <2>2. nudged' <= 1
    BY <1>1, <2>1
  <2> QED  BY <1>2, <1>4, <1>5, <2>2 DEF NudgesInv
<1>6. CASE AllTried'
  <2>1. ~Blind /\ Running = IF cause = "nudge" THEN 1 ELSE 0
    BY <1>1, <1>4, <1>6 DEF Running
  <2>2. /\ Cardinality(Readers) \in Nat /\ Cardinality(Behind') \in Nat
        /\ Cardinality(Behind') <= Cardinality(Readers)
    <3>1. Behind' \in SUBSET Readers
      BY DEF Behind
    <3> QED  BY <3>1, ReadersCounted
  <2>3. CASE ~AllTried
    <3>1. nudged' <= 2
      BY <1>1, <1>2, <2>3 DEF NudgesInv
    <3>2. nudged' \in Nat
      BY <1>1, <1>2
    <3>3. nudged' + Running' + Queued' + Cardinality(Behind') <= 3 + Cardinality(Readers)
      BY <1>4, <2>2, <3>1, <3>2
    <3> QED  BY <1>2, <1>4, <1>6, <3>3 DEF NudgesInv
  <2>4. CASE AllTried
    <3>1. nudged + Running + Queued + Cardinality(Behind) <= 3 + Cardinality(Readers)
      BY <2>1, <2>4 DEF NudgesInv
    <3>2. nudged' = nudged + Running /\ Queued' = Queued
      BY <1>1, <1>2, <2>1 DEF Queued
    <3>3. Behind' = Behind
      BY <1>1, <1>3 DEF Behind, UpToDate, Rows
    <3>4. Running \in 0 .. 1 /\ Queued \in 0 .. 1
      BY DEF Running, Queued
    <3>5. nudged' + Running' + Queued' + Cardinality(Behind') <= 3 + Cardinality(Readers)
      BY <1>2, <1>4, <2>2, <3>1, <3>2, <3>3, <3>4
    <3> QED  BY <1>2, <1>4, <1>6, <3>5 DEF NudgesInv
  <2> QED  BY <2>3, <2>4
<1> QED  BY <1>5, <1>6

(* An answer nudges only for a request that was behind, which it is not    *)
(* any more.                                                               *)
LEMMA AnswerStep ==
  ASSUME ProbeInv, NudgesInv, NEW d \in Readers, AnswerDisks(d) PROVE NudgesInv'
<1>1. /\ rpc[d] = "rows" /\ nudge' = (nudge \/ \E n \in Rows(d) : SmartPending(d, n))
      /\ rpc' = [rpc EXCEPT ![d] = "idle"] /\ reader' = [reader EXCEPT ![d] = NoReader]
      /\ UNCHANGED <<plugged, caches, ppc, probe, cause, nudged>>
  BY DEF AnswerDisks, Answered, world, probeVars, history
<1>2. nudge \in BOOLEAN /\ rpc \in [Readers -> {"idle", "snapshot", "rows"}]
  BY DEF NudgesInv, NudgesTypeOK
<1>2a. nudge' \in BOOLEAN
  <2>1. (nudge \/ \E n \in Rows(d) : SmartPending(d, n)) \in BOOLEAN
    OBVIOUS
  <2> QED  BY <1>1, <2>1, Zenon
<1>3. NudgesTypeOK'
  BY <1>1, <1>2, <1>2a DEF NudgesInv, NudgesTypeOK
<1>4. Listed' = Listed
  BY <1>1 DEF Listed
<1>5. UNCHANGED <<AllTried, Blind, Running>>
  BY <1>1, <1>4 DEF AllTried, Blind, Running
<1>6. Behind' = Behind \ {d}
  <2>1. UpToDate(d)'
    BY <1>1, <1>2 DEF UpToDate
  <2>2. ASSUME NEW e \in Readers \ {d} PROVE UpToDate(e)' <=> UpToDate(e)
    <3>1. rpc'[e] = rpc[e] /\ reader'[e] = reader[e]
      BY <1>1, <1>2 DEF ProbeInv, ProbeTypeOK
    <3> QED  BY <1>4, <3>1 DEF UpToDate, Rows
  <2> QED  BY <2>1, <2>2 DEF Behind
<1>7. CASE d \notin Behind
  <2>1. Rows(d) \subseteq reader[d].seen.tried
    BY <1>1, <1>7 DEF Behind, UpToDate
  <2>2. nudge' = nudge
    BY <1>1, <1>2, <2>1, Zenon DEF SmartPending
  <2>3. Queued' = Queued
    BY <2>2 DEF Queued
  <2>4. Running' + Queued' <= Running + Queued
    BY <1>5, <2>3 DEF Running, Queued
  <2> QED  BY <1>1, <1>3, <1>5, <1>6, <2>4, NobodyFallsBehind
<1>8. CASE d \in Behind
  <2>1. Behind \in SUBSET Readers /\ IsFiniteSet(Behind)
    BY FS_Subset, ProbeConstants DEF Behind
  <2>2. Cardinality(Behind') = Cardinality(Behind) - 1
    BY <1>6, <1>8, <2>1, FS_RemoveElement
  <2>3. Cardinality(Behind) \in Nat /\ Cardinality(Readers) \in Nat
    BY <2>1, ReadersCounted
  <2>4. nudged \in Nat /\ Running \in 0 .. 1 /\ Queued \in 0 .. 1 /\ Queued' \in 0 .. 1
    BY DEF NudgesInv, NudgesTypeOK, Running, Queued
  <2>5. ASSUME AllTried', ~Blind'
        PROVE  nudged' + Running' + Queued' + Cardinality(Behind') <= 3 + Cardinality(Readers)
    <3>1. nudged + Running + Queued + Cardinality(Behind) <= 3 + Cardinality(Readers)
      BY <1>5, <2>5 DEF NudgesInv
    <3>2. nudged' = nudged /\ Running' = Running
      BY <1>1, <1>5
    <3> QED  BY <2>2, <2>3, <2>4, <3>1, <3>2
  <2>6. (Blind' => nudged' = 0) /\ (~AllTried' => nudged' <= 1)
    BY <1>1, <1>5 DEF NudgesInv
  <2> QED  BY <1>3, <2>5, <2>6 DEF NudgesInv
<1> QED  BY <1>7, <1>8

(* Every step keeps the account.                                           *)
LEMMA NudgesStepInv == ASSUME ProbeInv, NudgesInv, [Next]_vars PROVE NudgesInv'
<1>t. /\ nudge \in BOOLEAN /\ nudged \in Nat /\ rpc \in [Readers -> {"idle", "snapshot", "rows"}]
      /\ caches \in Caches /\ probe \in Probes /\ reader \in [Readers -> ReaderRecords]
  BY DEF ProbeInv, ProbeTypeOK, NudgesInv, NudgesTypeOK
<1>q. Running \in 0 .. 1 /\ Queued \in 0 .. 1
  BY DEF Running, Queued
<1>0. ASSUME UNCHANGED <<plugged, nudge, rpc, nudged, ppc, cause>>, caches'.tried = caches.tried,
             probe'.names = probe.names,
             \A d \in Readers : reader'[d].rows = reader[d].rows /\ reader'[d].seen.tried = reader[d].seen.tried
      PROVE  NudgesInv'
  <2>1. Listed' = Listed
    BY <1>0 DEF Listed
  <2>2. UNCHANGED <<AllTried, Blind, Running, Queued>> /\ NudgesTypeOK'
    BY <1>0, <1>t, <2>1 DEF AllTried, Blind, Running, Queued, NudgesTypeOK
  <2>3. Behind' = Behind
    BY <1>0, <2>1 DEF Behind, UpToDate, Rows
  <2>4. Running' + Queued' <= Running + Queued
    BY <1>q, <2>2
  <2> QED  BY <1>0, <2>2, <2>3, <2>4, NobodyFallsBehind
<1>1. ASSUME NEW n \in Names, Plug(n) PROVE NudgesInv'
  <2>1. nudged' = 0 /\ NudgesTypeOK'
    BY <1>1, <1>t DEF Plug, readerVars, NudgesTypeOK
  <2> QED  BY <2>1, NothingNudgedNow
<1>2. ASSUME NEW n \in Names, Unplug(n) PROVE NudgesInv'
  <2>1. /\ UNCHANGED <<caches, nudge, rpc, reader, ppc, probe, cause>>
        /\ nudged' = IF plugged' = plugged THEN nudged ELSE 0
    BY <1>2 DEF Unplug, probeVars, readerVars
  <2>2. CASE plugged' = plugged
    BY <2>1, <2>2, <1>0
  <2>3. CASE plugged' # plugged
    <3>1. nudged' = 0 /\ NudgesTypeOK'
      BY <1>t, <2>1, <2>3 DEF NudgesTypeOK
    <3> QED  BY <3>1, NothingNudgedNow
  <2> QED  BY <2>2, <2>3
<1>3. CASE Tick
  <2>1. /\ caches' = [caches EXCEPT !.ok = Older(caches.ok)]
        /\ probe' = [probe EXCEPT !.prev = Older(probe.prev),
                     !.stamp = IF ppc = "publish" /\ probe.stamp < MaxAge THEN probe.stamp + 1 ELSE probe.stamp]
        /\ reader' = [d \in Readers |-> [reader[d] EXCEPT !.seen = [reader[d].seen EXCEPT !.ok = Older(reader[d].seen.ok)]]]
        /\ UNCHANGED <<plugged, nudge, rpc, nudged, ppc, cause>>
    BY <1>3 DEF Tick, world
  <2>2. caches'.tried = caches.tried /\ probe'.names = probe.names
    BY <1>t, <2>1 DEF Caches, Probes
  <2>3. ASSUME NEW d \in Readers
        PROVE  reader'[d].rows = reader[d].rows /\ reader'[d].seen.tried = reader[d].seen.tried
    BY <1>t, <2>1 DEF ReaderRecords, Caches
  <2> QED  BY <2>1, <2>2, <2>3, <1>0
<1>4. CASE WakeByTicker
  <2>1. /\ ppc = "wait" /\ ppc' = "list" /\ cause' = "ticker"
        /\ UNCHANGED <<plugged, caches, nudge, probe, rpc, reader, nudged>>
    BY <1>4 DEF WakeByTicker, world, readerVars, history
  <2>2. UNCHANGED <<AllTried, Running, Queued, Behind>> /\ ~Blind /\ ~Blind' /\ NudgesTypeOK'
    BY <1>t, <2>1 DEF AllTried, Running, Queued, Behind, UpToDate, Rows, Listed, Blind, NudgesTypeOK
  <2>3. Running' + Queued' <= Running + Queued
    BY <1>q, <2>2
  <2> QED  BY <2>1, <2>2, <2>3, NobodyFallsBehind
<1>5. CASE WakeByNudge
  <2>1. /\ ppc = "wait" /\ ppc' = "list" /\ cause' = "nudge" /\ nudge = TRUE /\ nudge' = FALSE
        /\ UNCHANGED <<plugged, caches, probe, rpc, reader, nudged>>
    BY <1>5, <1>t DEF WakeByNudge, world, readerVars, history
  <2>2. UNCHANGED <<AllTried, Behind>> /\ ~Blind /\ ~Blind' /\ NudgesTypeOK'
    BY <1>t, <2>1 DEF AllTried, Behind, UpToDate, Rows, Listed, Blind, NudgesTypeOK
  <2>3. Running' + Queued' <= Running + Queued
    BY <2>1 DEF Running, Queued
  <2> QED  BY <2>1, <2>2, <2>3, NobodyFallsBehind
<1>6. CASE ListNames
  <2>1. /\ ppc = "list" /\ ppc' = "ask" /\ probe' = [[probe EXCEPT !.names = Listed] EXCEPT !.todo = Listed]
        /\ UNCHANGED <<plugged, caches, nudge, cause, rpc, reader, nudged>>
    BY <1>6 DEF ListNames, world, readerVars, history
  <2>2. probe'.names = Listed /\ Listed' = Listed
    BY <1>t, <2>1 DEF Probes, Listed
  <2>3. UNCHANGED <<AllTried, Running, Queued, Behind>> /\ ~Blind /\ ~Blind' /\ NudgesTypeOK'
    BY <1>t, <2>1, <2>2 DEF AllTried, Running, Queued, Behind, UpToDate, Rows, Blind, NudgesTypeOK
  <2>4. Running' + Queued' <= Running + Queued
    BY <1>q, <2>3
  <2> QED  BY <2>1, <2>3, <2>4, NobodyFallsBehind
<1>7. CASE ListNothing
  <2>1. /\ ppc = "list" /\ ppc' = "wait"
        /\ UNCHANGED <<plugged, caches, nudge, cause, probe, rpc, reader, nudged>>
    BY <1>7 DEF ListNothing, world, readerVars, history
  <2>2. UNCHANGED <<AllTried, Queued, Behind>> /\ ~Blind /\ ~Blind' /\ NudgesTypeOK'
    BY <1>t, <2>1 DEF AllTried, Queued, Behind, UpToDate, Rows, Listed, Blind, NudgesTypeOK
  <2>3. Running' + Queued' <= Running + Queued
    BY <1>q, <2>1, <2>2 DEF Running
  <2> QED  BY <2>1, <2>2, <2>3, NobodyFallsBehind
<1>8. ASSUME NEW n \in Names, AskDisk(n) PROVE NudgesInv'
  <2>1. /\ UNCHANGED <<plugged, caches, nudge, rpc, reader, nudged, ppc, cause>>
        /\ probe' = [probe EXCEPT !.todo = probe.todo \ {n}, !.met = Put(probe.met, n, plugged[n]),
                     !.got = IF n \in answers THEN Put(probe.got, n, plugged[n]) ELSE probe.got]
    BY <1>8 DEF AskDisk, world, readerVars, history
  <2>2. probe'.names = probe.names
    BY <1>t, <2>1 DEF Probes
  <2> QED  BY <2>1, <2>2, <1>0
<1>9. CASE SnapshotLiveness
  <2>1. /\ ppc = "ask" /\ ppc' = "publish"
        /\ probe' = [[probe EXCEPT !.prev = caches.ok] EXCEPT !.stamp = 0]
        /\ UNCHANGED <<plugged, caches, nudge, cause, rpc, reader, nudged>>
    BY <1>9 DEF SnapshotLiveness, world, readerVars, history
  <2>2. probe'.names = probe.names
    BY <1>t, <2>1 DEF Probes
  <2>3. UNCHANGED <<AllTried, Blind, Running, Queued, Behind>> /\ NudgesTypeOK'
    BY <1>t, <2>1, <2>2 DEF AllTried, Running, Queued, Behind, UpToDate, Rows, Listed, Blind, NudgesTypeOK
  <2>4. Running' + Queued' <= Running + Queued
    BY <1>q, <2>3
  <2> QED  BY <2>1, <2>3, <2>4, NobodyFallsBehind
<1>10. CASE Publish
  BY <1>10, PublishStep
<1>11. ASSUME NEW d \in Readers, ListDisks(d) \/ SnapshotCaches(d) PROVE NudgesInv'
  <2>1. UNCHANGED <<plugged, caches, nudge, ppc, probe, cause, nudged>>
    BY <1>11 DEF ListDisks, SnapshotCaches, world, probeVars, history
  <2>2. rpc' \in [Readers -> {"idle", "snapshot", "rows"}]
    BY <1>11, <1>t DEF ListDisks, SnapshotCaches
  <2>3. UNCHANGED <<AllTried, Blind, Running, Queued, Listed>> /\ NudgesTypeOK'
    BY <1>t, <2>1, <2>2 DEF AllTried, Blind, Running, Queued, Listed, NudgesTypeOK
  <2>4. \A e \in Readers \ {d} : rpc'[e] = rpc[e] /\ reader'[e] = reader[e]
    BY <1>11, <1>t DEF ListDisks, SnapshotCaches
  <2>5. ASSUME AllTried, UpToDate(d) PROVE UpToDate(d)'
    <3>1. CASE ListDisks(d)
      <4>1. rpc'[d] = "snapshot"
        BY <3>1, <1>t DEF ListDisks
      <4>2. reader'[d].rows = [n \in Listed |-> plugged[n]]
        BY <3>1, <1>t DEF ListDisks, ReaderRecords
      <4> QED  BY <2>3, <4>1, <4>2 DEF UpToDate, Rows
    <3>2. CASE SnapshotCaches(d)
      <4>1. rpc[d] = "snapshot" /\ rpc'[d] = "rows"
        BY <3>2, <1>t DEF SnapshotCaches
      <4>2. reader'[d].rows = reader[d].rows /\ reader'[d].seen = caches
        BY <3>2, <1>t DEF SnapshotCaches, ReaderRecords
      <4> QED  BY <2>5, <4>1, <4>2 DEF UpToDate, Rows, AllTried
    <3> QED  BY <1>11, <3>1, <3>2
  <2>6. ASSUME AllTried PROVE Behind' \subseteq Behind
    BY <2>3, <2>4, <2>5, <2>6 DEF Behind, UpToDate, Rows
  <2>7. Running' + Queued' <= Running + Queued
    BY <1>q, <2>3
  <2> QED  BY <2>1, <2>3, <2>6, <2>7, NobodyFallsBehind
<1>12. ASSUME NEW d \in Readers, AnswerDisks(d) PROVE NudgesInv'
  BY <1>12, AnswerStep
<1>13. CASE UNCHANGED vars
  BY <1>13, <1>0 DEF vars, world, probeVars, readerVars, history
<1> QED  BY <1>1, <1>2, <1>3, <1>4, <1>5, <1>6, <1>7, <1>8, <1>9, <1>10, <1>11, <1>12, <1>13
         DEF Next, ProbeStep, ServeReader

--------------------------------------------------------------------------------
(* The invariant holds for ever.                                           *)
THEOREM ProbeInvariant == Spec => []ProbeInv
<1>1. Init => ProbeInv
  BY ProbeInitInv
<1>2. ProbeInv /\ [Next]_vars => ProbeInv'
  BY ProbeStepInv
<1> QED  BY <1>1, <1>2, PTL DEF Spec

(* What a Disks request sees of health, liveness and tried disks always    *)
(* comes from one probe run, however many requests and probes overlap.     *)
THEOREM OneRunSeen == PolledSpec => []OneProbeRun
<1>1. ProbeInv => OneProbeRun
  BY DEF ProbeInv
<1> QED  BY <1>1, ProbeInvariant, PTL DEF PolledSpec

(* No disk is called unreachable unless the kernel has set it offline or   *)
(* its last published answer is older than two probe intervals, whatever   *)
(* is plugged, pulled or reused (diskUnreachable's two signals).           *)
THEOREM EarnedUnreachable == PolledSpec => []UnreachableIsEarned
<1>1. ASSUME ProbeInv PROVE UnreachableIsEarned
  <2>1. SUFFICES ASSUME NEW n \in Names, Unreachable(caches, n),
                        n \notin offline
                 PROVE  silent[n] > UnreachableAfter
    BY DEF UnreachableIsEarned
  <2>2. n \in DOMAIN caches.ok /\ caches.ok[n] > UnreachableAfter /\ caches.ok[n] <= silent[n]
    BY <1>1, <2>1 DEF ProbeInv, NotOlder, Unreachable
  <2>3. caches.ok \in MapOf(Ages) /\ silent[n] \in Ages
    BY <1>1 DEF ProbeInv, ProbeTypeOK, Caches
  <2>4. caches.ok[n] \in Ages
    BY <2>2, <2>3, MapHolds
  <2> QED  BY <2>2, <2>3, <2>4 DEF Ages, UnreachableAfter
<1> QED  BY <1>1, ProbeInvariant, PTL DEF PolledSpec

(* However often the browser polls, after the last change of the list of   *)
(* disks the nudges of Disks make the loop probe at most three times and   *)
(* once per request in flight (disks.go, "self-limiting").                 *)
THEOREM NudgesAreLimited == PolledSpec => []NudgesAreSelfLimiting
<1>1. Init => NudgesInv
  BY NudgesInitInv
<1>2. ProbeInv /\ NudgesInv /\ [Next]_vars => NudgesInv'
  BY NudgesStepInv
<1>3. ASSUME NudgesInv PROVE NudgesAreSelfLimiting
  <2>1. /\ Cardinality(Readers) \in Nat /\ Cardinality(Behind) \in Nat
        /\ Cardinality(Behind) <= Cardinality(Readers)
    BY ReadersCounted DEF Behind
  <2>2. nudged \in Nat /\ Running \in 0 .. 1 /\ Queued \in 0 .. 1
    BY <1>3 DEF NudgesInv, NudgesTypeOK, Running, Queued
  <2> QED  BY <1>3, <2>1, <2>2 DEF NudgesInv, NudgesAreSelfLimiting
<1> QED  BY <1>1, <1>2, <1>3, ProbeInvariant, PTL DEF PolledSpec, Spec
================================================================================
