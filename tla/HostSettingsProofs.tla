--------------------------- MODULE HostSettingsProofs ---------------------------
(***************************************************************************)
(* Proofs about HostSettings, for any number of requests and shells and    *)
(* any bodies.                                                             *)
(*                                                                         *)
(* A caller that had the host to itself knows what it changed; one that is *)
(* between its change and the restart of logind accounts for every         *)
(* difference that is not tainted.                                         *)
(***************************************************************************)
EXTENDS HostSettings, TLAPS

Bodily == UNION {[F -> BOOLEAN] : F \in SUBSET Fields}
Jobs ==
  [state : {"idle", "running", "done", "failed"}, asked : Bodily, left : SUBSET Fields,
   step : {"change", "mask", "restart"}, alone : BOOLEAN, clean : BOOLEAN, before : OS]

(* The fields are applied in the order headless, persist, resume.          *)
Ordered(j) ==
  /\ j \in Jobs
  /\ j.left \subseteq DOMAIN j.asked
  /\ "headless" \in j.left => j.left = DOMAIN j.asked
  /\ "persist" \in j.left /\ "resume" \in DOMAIN j.asked => "resume" \in j.left
Shape(j) ==
  /\ Ordered(j)
  /\ j.state = "running" => j.left # {}
  /\ j.state = "done" => j.left = {}
  /\ j.state = "idle" => j.alone = FALSE
  /\ j.step # "change" => j.state = "running" /\ "headless" \in j.left

Dropped(c) == "headless" \in DOMAIN job[c].asked /\ ("headless" \notin job[c].left \/ job[c].step # "change")
Masked(c) == "headless" \in DOMAIN job[c].asked /\ ("headless" \notin job[c].left \/ job[c].step = "restart")

(* What a caller that is alone has made of the host.                       *)
HeadlessIsOwn(c) ==
  /\ Dropped(c) => os.dropin = job[c].asked["headless"]
  /\ ~Dropped(c) => os.dropin = job[c].before.dropin
  /\ job[c].clean = TRUE /\ Masked(c) => os.mask = job[c].asked["headless"]
TmuxIsOwn(c) ==
  ~(job[c].state = "failed" /\ Current(c) = "persist") =>
    /\ os.profile = Expected(c, "persist", job[c].before.profile)
    /\ os.marker = Expected(c, "resume", job[c].before.marker /\ Expected(c, "persist", TRUE))
OwnWork(c) == job[c].alone = TRUE => HeadlessIsOwn(c) /\ TmuxIsOwn(c)

AloneIsAlone == \A c, d \in Callers : job[c].alone = TRUE /\ Running(d) => c = d
LogindIsAccounted ==
  "logind" \notin taint /\ os.logind # os.dropin => \E c \in Callers : job[c].step # "change"
MaskIsAccounted ==
  "mask" \notin taint =>
    /\ \A c, d \in Callers : Running(c) /\ Running(d) => c = d
    /\ os.mask # os.dropin => \E c \in Callers : job[c].step = "mask"
    /\ \A c \in Callers : job[c].step # "change" => os.dropin = job[c].asked["headless"]

SettingsInv ==
  /\ os \in OS /\ job \in [Callers -> Jobs]
  /\ \A c \in Callers : Shape(job[c]) /\ OwnWork(c)
  /\ AloneIsAlone /\ LogindIsAccounted /\ MaskIsAccounted

--------------------------------------------------------------------------------
(* No caller's record is out of shape.                                     *)
LEMMA IdleShape == Shape(Idle) /\ Idle.alone = FALSE /\ Idle.state = "idle" /\ Idle.step = "change"
<1>1. [f \in {} |-> FALSE] \in [{} -> BOOLEAN] /\ {} \in SUBSET Fields
  OBVIOUS
<1>2. [f \in {} |-> FALSE] \in Bodily
  BY <1>1 DEF Bodily
<1>3. Off \in OS
  BY DEF Off, OS
<1>4. Idle \in Jobs /\ Idle.left = {} /\ Idle.state = "idle" /\ Idle.step = "change" /\ Idle.alone = FALSE
  BY <1>2, <1>3 DEF Idle, Jobs
<1> QED  BY <1>4 DEF Shape, Ordered

(* A body that is accepted is in shape, with nothing applied.              *)
LEMMA AcceptedShape ==
  ASSUME NEW asked \in Bodies, NEW alone \in BOOLEAN, os \in OS
  PROVE  LET j == Accepted(asked, alone) IN
         /\ Shape(j) /\ j.state = "running" /\ j.step = "change" /\ j.alone = alone
         /\ j.asked = asked /\ j.left = DOMAIN asked /\ j.clean = TRUE /\ (alone = TRUE => j.before = os)
<1> DEFINE j == Accepted(asked, alone)
<1>1. PICK F \in (SUBSET Fields) \ {{}} : asked \in [F -> BOOLEAN]
  BY CallersAreKnown
<1>2. asked \in Bodily /\ DOMAIN asked \in SUBSET Fields /\ DOMAIN asked # {}
  BY <1>1 DEF Bodily
<1>3. (IF alone THEN os ELSE Off) \in OS
  BY DEF Off, OS
<1>4. /\ j \in Jobs /\ j.state = "running" /\ j.step = "change" /\ j.alone = alone
      /\ j.asked = asked /\ j.left = DOMAIN asked /\ j.clean = TRUE
      /\ j.before = IF alone THEN os ELSE Off
  BY <1>2, <1>3 DEF Accepted, Jobs
<1> HIDE DEF j
<1>5. Shape(j)
  BY <1>2, <1>4 DEF Shape, Ordered
<1> QED  BY <1>4, <1>5 DEF j

(* A caller that is overtaken goes on where it is, but not alone.          *)
LEMMA OvertakenShape ==
  ASSUME NEW j, Shape(j)
  PROVE  LET k == Overtaken(j) IN
         /\ Shape(k) /\ k.alone = FALSE
         /\ k.state = "running" <=> j.state = "running"
         /\ j.state = "running" => k.step = j.step /\ k.asked = j.asked /\ k.left = j.left
         /\ k.step = j.step
<1> DEFINE k == Overtaken(j)
<1>1. CASE j.state = "running"
  <2>1. k = [[j EXCEPT !.alone = FALSE] EXCEPT !.before = Off]
    BY <1>1 DEF Overtaken, Shape, Ordered, Jobs
  <2>2. j \in Jobs /\ Off \in OS
    BY DEF Shape, Ordered, Off, OS
  <2>3. /\ k \in Jobs /\ k.state = j.state /\ k.asked = j.asked /\ k.left = j.left
        /\ k.step = j.step /\ k.alone = FALSE
    BY <2>1, <2>2 DEF Jobs
  <2> HIDE DEF k
  <2>4. Shape(k)
    BY <2>3, <1>1 DEF Shape, Ordered
  <2> QED  BY <2>3, <2>4, <1>1 DEF k
<1>2. CASE j.state # "running"
  <2>1. Overtaken(j) = Idle /\ j.step = "change"
    BY <1>2 DEF Overtaken, Shape, Ordered, Jobs
  <2> QED  BY <2>1, <1>2, IdleShape
<1> QED  BY <1>1, <1>2

(* An answer leaves the record of a caller that was alone as it was.       *)
LEMMA AnsweredShape ==
  ASSUME NEW j, Ordered(j), NEW s \in {"done", "failed"},
         j.step = "change", s = "done" => j.left = {}
  PROVE  LET k == Answered(j, s) IN
         /\ k \in Jobs /\ k.state # "running" /\ k.step = "change"
         /\ k.alone = TRUE =>
              /\ j.alone = TRUE /\ k.state = s /\ k.asked = j.asked /\ k.left = j.left
              /\ k.clean = j.clean /\ k.before = j.before
         /\ Shape(k)
<1> DEFINE k == Answered(j, s)
<1>0. j.alone \in BOOLEAN /\ j \in Jobs
  BY DEF Shape, Ordered, Jobs
<1>1. CASE j.alone = TRUE
  <2>1. k = [j EXCEPT !.state = s]
    BY <1>1 DEF Answered
  <2>2. /\ k \in Jobs /\ k.state = s /\ k.asked = j.asked /\ k.left = j.left
        /\ k.step = j.step /\ k.alone = TRUE /\ k.clean = j.clean /\ k.before = j.before
    BY <2>1, <1>0, <1>1 DEF Jobs
  <2> HIDE DEF k
  <2>3. Shape(k)
    BY <2>2 DEF Shape, Ordered
  <2> QED  BY <2>2, <2>3, <1>1 DEF k
<1>2. CASE j.alone = FALSE
  <2>1. Answered(j, s) = Idle
    BY <1>2 DEF Answered
  <2>2. Idle \in Jobs
    BY IdleShape DEF Shape, Ordered
  <2> QED  BY <2>1, <2>2, IdleShape
<1> QED  BY <1>0, <1>1, <1>2

(* A field that is done is no longer left, the others are.                 *)
LEMMA FieldDoneShape ==
  ASSUME NEW j, Shape(j), j.state = "running", NEW field \in j.left,
         "headless" \in j.left => field = "headless",
         "persist" \in j.left => field # "resume"
  PROVE  LET k == FieldDone(j, field) IN
         /\ Shape(k) /\ k.step = "change" /\ k.state # "failed"
         /\ k.state = "running" =>
              /\ j.alone = k.alone /\ k.asked = j.asked /\ k.left = j.left \ {field}
         /\ k.alone = TRUE =>
              /\ j.alone = TRUE /\ k.asked = j.asked /\ k.left = j.left \ {field}
              /\ k.clean = j.clean /\ k.before = j.before
<1> DEFINE m == [[j EXCEPT !.left = j.left \ {field}] EXCEPT !.step = "change"]
<1>1. j \in Jobs /\ field \in Fields /\ j.left \in SUBSET Fields
  BY DEF Shape, Ordered, Jobs
<1>2. j.left \ {field} \in SUBSET Fields
  BY <1>1
<1>3. /\ m \in Jobs /\ m.left = j.left \ {field} /\ m.step = "change" /\ m.state = j.state
      /\ m.asked = j.asked /\ m.alone = j.alone /\ m.clean = j.clean /\ m.before = j.before
  BY <1>1, <1>2 DEF Jobs
<1>4. FieldDone(j, field) = IF m.left = {} THEN Answered(m, "done") ELSE m
  BY <1>1 DEF FieldDone, Jobs
<1> HIDE DEF m
<1>5. Ordered(m)
  BY <1>3 DEF Ordered, Shape
<1>6. CASE m.left = {}
  <2> DEFINE k == Answered(m, "done")
  <2>1. /\ Shape(k) /\ k.step = "change" /\ k.state # "running" /\ k \in Jobs
        /\ k.alone = TRUE =>
              /\ m.alone = TRUE /\ k.state = "done" /\ k.asked = m.asked /\ k.left = m.left
              /\ k.clean = m.clean /\ k.before = m.before
    BY <1>3, <1>5, <1>6, AnsweredShape
  <2>2. k.state # "failed"
    <3>1. k = Idle \/ k = [m EXCEPT !.state = "done"]
      BY DEF Answered
    <3>2. [m EXCEPT !.state = "done"].state = "done"
      BY <1>3 DEF Jobs
    <3>3. Idle.state = "idle"
      BY IdleShape
    <3> QED  BY <3>1, <3>2, <3>3
  <2>3. FieldDone(j, field) = k
    BY <1>4, <1>6
  <2> HIDE DEF k
  <2> QED  BY <2>1, <2>2, <2>3, <1>3
<1>7. CASE m.left # {}
  <2>1. FieldDone(j, field) = m
    BY <1>4, <1>7
  <2>2. Shape(m)
    BY <1>3, <1>5, <1>7 DEF Shape
  <2> QED  BY <2>1, <2>2, <1>3
<1> QED  BY <1>6, <1>7

--------------------------------------------------------------------------------
(* The field a caller is at is the first of those left.                    *)
LEMMA CurrentIsFirst ==
  ASSUME NEW c \in Callers, Shape(job[c]), Running(c)
  PROVE  /\ Current(c) \in job[c].left /\ Current(c) \in Fields
         /\ "headless" \in job[c].left <=> Current(c) = "headless"
         /\ "persist" \in job[c].left => Current(c) # "resume"
<1>1. job[c].left # {} /\ job[c].left \in SUBSET Fields
  BY DEF Shape, Ordered, Jobs, Running
<1> QED  BY <1>1 DEF Current, Fields

(* The initial states satisfy the invariant.                               *)
LEMMA SettingsInitInv == ASSUME SettingsInit PROVE SettingsInv
<1>1. os \in OS /\ os.dropin = os.mask /\ os.logind = os.dropin /\ job = [c \in Callers |-> Idle]
  BY DEF SettingsInit
<1>2. \A c \in Callers : job[c] = Idle /\ Shape(job[c])
  BY <1>1, IdleShape
<1>3. Idle \in Jobs
  BY IdleShape DEF Shape, Ordered
<1>4. \A c \in Callers : OwnWork(c) /\ ~Running(c)
  BY <1>2, IdleShape DEF OwnWork, Running
<1> QED
  BY <1>1, <1>2, <1>3, <1>4, IdleShape
  DEF SettingsInv, AloneIsAlone, LogindIsAccounted, MaskIsAccounted

(* A step of the running caller c leaves the others where they are: none   *)
(* of them is alone.                                                       *)
LEMMA OthersKeep ==
  ASSUME SettingsInv, NEW c \in Callers, Running(c), NEW k, Shape(k), k.alone = TRUE => job[c].alone = TRUE,
         job' = [job EXCEPT ![c] = k], OwnWork(c)'
  PROVE  /\ job' \in [Callers -> Jobs] /\ AloneIsAlone'
         /\ \A d \in Callers : Shape(job[d])' /\ OwnWork(d)'
<1>1. job \in [Callers -> Jobs] /\ k \in Jobs /\ AloneIsAlone /\ \A d \in Callers : Shape(job[d])
  BY DEF SettingsInv, Shape, Ordered
<1>2. job' \in [Callers -> Jobs] /\ job'[c] = k /\ \A d \in Callers \ {c} : job'[d] = job[d]
  BY <1>1
<1>3. \A d \in Callers \ {c} : job[d].alone # TRUE
  BY <1>1 DEF AloneIsAlone
<1>4. \A d \in Callers : Shape(job'[d])
  BY <1>1, <1>2
<1>5. \A d \in Callers : Running(d)' => Running(d)
  BY <1>2 DEF Running
<1>6. AloneIsAlone'
  BY <1>1, <1>2, <1>3, <1>5 DEF AloneIsAlone
<1>7. \A d \in Callers : OwnWork(d)'
  BY <1>2, <1>3 DEF OwnWork
<1> QED  BY <1>2, <1>4, <1>6, <1>7

(* A caller that begins finds the host as it is, and ends the solitude of  *)
(* the others.                                                             *)
LEMMA BeginStep ==
  ASSUME SettingsInv, NEW c \in Callers, NEW asked \in Bodies, Begin(c, asked)
  PROVE  SettingsInv'
<1> DEFINE k == Accepted(asked, Quiet)
<1>t. /\ os \in OS /\ job \in [Callers -> Jobs] /\ \A d \in Callers : Shape(job[d]) /\ OwnWork(d)
      /\ AloneIsAlone /\ LogindIsAccounted /\ MaskIsAccounted
  BY DEF SettingsInv
<1>1. /\ ~Running(c) /\ UNCHANGED os
      /\ job' = [b \in Callers |-> IF b = c THEN k ELSE Overtaken(job[b])]
      /\ taint' = IF Quiet THEN taint ELSE taint \cup {"mask"}
  BY DEF Begin
<1>q. Quiet \in BOOLEAN
  BY DEF Quiet
<1>2. /\ Shape(k) /\ k.state = "running" /\ k.step = "change" /\ k.alone = Quiet
      /\ k.asked = asked /\ k.left = DOMAIN asked /\ k.clean = TRUE /\ (Quiet => k.before = os)
  BY <1>q, <1>t, AcceptedShape
<1>3. /\ job'[c] = k
      /\ \A d \in Callers \ {c} :
           /\ job'[d] = Overtaken(job[d]) /\ Shape(job'[d]) /\ job'[d].alone = FALSE
           /\ (Running(d)' <=> Running(d)) /\ job'[d].step = job[d].step
           /\ Running(d) => job'[d].asked = job[d].asked /\ job'[d].left = job[d].left
  <2>1. job'[c] = k /\ \A d \in Callers \ {c} : job'[d] = Overtaken(job[d])
    BY <1>1
  <2> HIDE DEF k
  <2>2. ASSUME NEW d \in Callers \ {c}
        PROVE  /\ Shape(job'[d]) /\ job'[d].alone = FALSE
               /\ (Running(d)' <=> Running(d)) /\ job'[d].step = job[d].step
               /\ Running(d) => job'[d].asked = job[d].asked /\ job'[d].left = job[d].left
    <3>1. Shape(job[d])
      BY <1>t
    <3> QED  BY <2>1, <3>1, OvertakenShape DEF Running
  <2> QED  BY <2>1, <2>2
<1> HIDE DEF k
<1>4. job' \in [Callers -> Jobs]
  <2>1. \A d \in Callers : job'[d] \in Jobs
    BY <1>2, <1>3 DEF Shape, Ordered
  <2> QED  BY <2>1, <1>1
<1>5. \A d \in Callers : Shape(job[d])'
  BY <1>2, <1>3
<1>6. \A d \in Callers : OwnWork(d)'
  <2>1. \A d \in Callers \ {c} : OwnWork(d)'
    BY <1>3 DEF OwnWork
  <2>2. OwnWork(c)'
    <3> SUFFICES ASSUME Quiet PROVE HeadlessIsOwn(c)' /\ TmuxIsOwn(c)'
      BY <1>2, <1>3 DEF OwnWork
    <3>1. ~Dropped(c)' /\ ~Masked(c)'
      BY <1>2, <1>3 DEF Dropped, Masked
    <3>2. ~Applied(c, "headless")' /\ ~Applied(c, "persist")' /\ ~Applied(c, "resume")'
      BY <1>2, <1>3 DEF Applied
    <3>3. job'[c].before = os'
      BY <1>1, <1>2, <1>3
    <3>4. HeadlessIsOwn(c)'
      BY <3>1, <3>3 DEF HeadlessIsOwn
    <3>5. Expected(c, "persist", job[c].before.profile)' = os'.profile
      BY <3>2, <3>3 DEF Expected
    <3>6. Expected(c, "persist", TRUE)' = TRUE
      BY <3>2 DEF Expected
    <3>7. os'.marker \in BOOLEAN
      BY <1>t, <1>1 DEF OS
    <3>8. Expected(c, "resume", job[c].before.marker /\ Expected(c, "persist", TRUE))' = os'.marker
      BY <3>2, <3>3, <3>6, <3>7 DEF Expected
    <3> QED  BY <3>4, <3>5, <3>8 DEF TmuxIsOwn
  <2> QED  BY <2>1, <2>2
<1>7. AloneIsAlone'
  BY <1>2, <1>3 DEF AloneIsAlone, Quiet
<1>8. LogindIsAccounted'
  <2>1. ASSUME NEW d \in Callers, job[d].step # "change" PROVE job'[d].step # "change"
    <3>1. Running(d)
      BY <2>1, <1>t DEF Shape, Running
    <3> QED  BY <3>1, <2>1, <1>1, <1>3
  <2> QED  BY <2>1, <1>1, <1>t DEF LogindIsAccounted
<1>9. MaskIsAccounted'
  <2>1. CASE ~Quiet
    BY <2>1, <1>1 DEF MaskIsAccounted
  <2>2. CASE Quiet
    <3>1. \A d \in Callers : ~Running(d) /\ job[d].step = "change"
      BY <2>2, <1>t DEF Quiet, Shape, Running
    <3>2. \A d \in Callers : job'[d].step = "change" /\ (Running(d)' => d = c)
      BY <3>1, <1>2, <1>3
    <3>3. taint' = taint /\ UNCHANGED os
      BY <2>2, <1>1
    <3> QED  BY <3>1, <3>2, <3>3, <1>t DEF MaskIsAccounted
  <2> QED  BY <2>1, <2>2
<1> QED  BY <1>1, <1>4, <1>5, <1>6, <1>7, <1>8, <1>9, <1>t DEF SettingsInv

(* A caller in the middle of the headless switch.                          *)
LEMMA AtHeadless ==
  ASSUME SettingsInv, NEW c \in Callers, NEW step, At(c, "headless", step)
  PROVE  /\ Running(c) /\ "headless" \in job[c].left /\ "headless" \in DOMAIN job[c].asked
         /\ job[c].step = step /\ Shape(job[c]) /\ job[c] \in Jobs /\ OwnWork(c)
         /\ Wanted(c) = job[c].asked["headless"] /\ job[c].asked["headless"] \in BOOLEAN
         /\ ~Applied(c, "persist") /\ ~Applied(c, "resume")
<1>1. Running(c) /\ job[c].step = step /\ Current(c) = "headless"
  BY DEF At
<1>2. Shape(job[c]) /\ OwnWork(c)
  BY DEF SettingsInv
<1>3. "headless" \in job[c].left
  BY <1>1, <1>2, CurrentIsFirst
<1>4. job[c] \in Jobs /\ job[c].left = DOMAIN job[c].asked
  BY <1>2, <1>3 DEF Shape, Ordered
<1>5. job[c].asked \in Bodily
  BY <1>4 DEF Jobs
<1>6. PICK F \in SUBSET Fields : job[c].asked \in [F -> BOOLEAN]
  BY <1>5 DEF Bodily
<1>7. job[c].asked["headless"] \in BOOLEAN
  BY <1>3, <1>4, <1>6
<1> QED  BY <1>1, <1>2, <1>3, <1>4, <1>7 DEF Applied, Wanted

(* A step of the headless switch that leaves the caller in it.             *)
LEMMA WithinHeadless ==
  ASSUME SettingsInv, NEW c \in Callers, NEW step, At(c, "headless", step),
         NEW next \in {"mask", "restart"}, NEW clean \in BOOLEAN,
         job' = [job EXCEPT ![c].step = next, ![c].clean = clean],
         os' \in OS, os'.profile = os.profile, os'.marker = os.marker,
         job[c].alone = TRUE =>
           /\ os'.dropin = job[c].asked["headless"]
           /\ next = "restart" /\ clean = TRUE => os'.mask = job[c].asked["headless"]
  PROVE  /\ job' \in [Callers -> Jobs] /\ AloneIsAlone'
         /\ \A d \in Callers : Shape(job[d])' /\ OwnWork(d)'
         /\ Running(c)' /\ job'[c].step = next /\ job'[c].asked = job[c].asked
         /\ \A d \in Callers \ {c} : job'[d] = job[d]
<1> DEFINE k == [[job[c] EXCEPT !.step = next] EXCEPT !.clean = clean]
<1>1. /\ Running(c) /\ "headless" \in job[c].left /\ "headless" \in DOMAIN job[c].asked
      /\ job[c].step = step /\ Shape(job[c]) /\ job[c] \in Jobs /\ OwnWork(c)
      /\ ~Applied(c, "persist") /\ ~Applied(c, "resume")
  BY AtHeadless
<1>2. job' = [job EXCEPT ![c] = k]
  BY DEF SettingsInv
<1>3. /\ k \in Jobs /\ k.step = next /\ k.clean = clean /\ k.state = job[c].state
      /\ k.asked = job[c].asked /\ k.left = job[c].left /\ k.alone = job[c].alone
      /\ k.before = job[c].before
  BY <1>1 DEF Jobs
<1> HIDE DEF k
<1>4. Shape(k)
  BY <1>1, <1>3 DEF Shape, Ordered, Running
<1>5. job'[c] = k /\ \A d \in Callers \ {c} : job'[d] = job[d]
  BY <1>2 DEF SettingsInv
<1>6. OwnWork(c)'
  <2> SUFFICES ASSUME job[c].alone = TRUE PROVE HeadlessIsOwn(c)' /\ TmuxIsOwn(c)'
    BY <1>3, <1>5 DEF OwnWork
  <2>1. Dropped(c)' /\ (Masked(c)' => next = "restart")
    BY <1>1, <1>3, <1>5 DEF Dropped, Masked
  <2>2. HeadlessIsOwn(c)'
    BY <2>1, <1>3, <1>5 DEF HeadlessIsOwn
  <2>3. TmuxIsOwn(c)
    BY <1>1 DEF OwnWork
  <2>4. job[c].state # "failed"
    BY <1>1 DEF Running
  <2>5. /\ os.profile = Expected(c, "persist", job[c].before.profile)
        /\ os.marker = Expected(c, "resume", job[c].before.marker /\ Expected(c, "persist", TRUE))
    BY <2>3, <2>4 DEF TmuxIsOwn
  <2>6. ~Applied(c, "persist")' /\ ~Applied(c, "resume")'
    BY <1>1, <1>3, <1>5 DEF Applied
  <2>7. os.profile = job[c].before.profile
    BY <2>5, <1>1 DEF Expected
  <2>8. os.marker = (job[c].before.marker /\ TRUE)
    <3>1. Expected(c, "persist", TRUE) = TRUE
      BY <1>1 DEF Expected
    <3> QED  BY <3>1, <2>5, <1>1 DEF Expected
  <2>9. /\ os'.profile = Expected(c, "persist", job[c].before.profile)'
        /\ os'.marker = Expected(c, "resume", job[c].before.marker /\ Expected(c, "persist", TRUE))'
    <3>1. Expected(c, "persist", TRUE)' = TRUE
      BY <2>6 DEF Expected
    <3> QED  BY <3>1, <2>6, <2>7, <2>8, <1>3, <1>5 DEF Expected
  <2> QED  BY <2>2, <2>9 DEF TmuxIsOwn
<1>7. Running(c)'
  BY <1>1, <1>3, <1>5 DEF Running
<1>8. /\ job' \in [Callers -> Jobs] /\ AloneIsAlone'
      /\ \A d \in Callers : Shape(job[d])' /\ OwnWork(d)'
  BY <1>1, <1>2, <1>3, <1>4, <1>6, OthersKeep
<1> QED  BY <1>3, <1>5, <1>7, <1>8

(* The drop-in is changed: until logind is restarted the caller accounts   *)
(* for it.                                                                 *)
LEMMA DropinStep ==
  ASSUME SettingsInv, NEW c \in Callers, SetDropin(c)
  PROVE  SettingsInv'
<1>t. os \in OS /\ job \in [Callers -> Jobs] /\ LogindIsAccounted /\ MaskIsAccounted
  BY DEF SettingsInv
<1>0. At(c, "headless", "change") /\ UNCHANGED taint
  BY DEF SetDropin
<1>1. /\ Running(c) /\ job[c] \in Jobs /\ Wanted(c) = job[c].asked["headless"]
      /\ job[c].asked["headless"] \in BOOLEAN
  BY <1>0, AtHeadless
<1>2. os' = [os EXCEPT !.dropin = Wanted(c)]
  BY DEF SetDropin
<1>3. /\ os' \in OS /\ os'.dropin = job[c].asked["headless"] /\ os'.mask = os.mask
      /\ os'.logind = os.logind /\ os'.profile = os.profile /\ os'.marker = os.marker
  BY <1>1, <1>2, <1>t DEF OS
<1>4. job[c].clean \in BOOLEAN /\ job' = [job EXCEPT ![c].step = "mask", ![c].clean = job[c].clean]
  <2>1. job' = [job EXCEPT ![c].step = "mask"]
    BY DEF SetDropin
  <2>2. [job[c] EXCEPT !.step = "mask"] = [[job[c] EXCEPT !.step = "mask"] EXCEPT !.clean = job[c].clean]
    BY <1>1 DEF Jobs
  <2> QED  BY <2>1, <2>2, <1>1, <1>t DEF Jobs
<1>5. /\ job' \in [Callers -> Jobs] /\ AloneIsAlone'
      /\ \A d \in Callers : Shape(job[d])' /\ OwnWork(d)'
      /\ Running(c)' /\ job'[c].step = "mask" /\ job'[c].asked = job[c].asked
      /\ \A d \in Callers \ {c} : job'[d] = job[d]
  BY <1>0, <1>3, <1>4, WithinHeadless
<1>6. LogindIsAccounted'
  BY <1>5 DEF LogindIsAccounted
<1>7. MaskIsAccounted'
  <2> SUFFICES ASSUME "mask" \notin taint
               PROVE  /\ \A d, e \in Callers : Running(d)' /\ Running(e)' => d = e
                      /\ \A d \in Callers : job'[d].step # "change" => os'.dropin = job'[d].asked["headless"]
    BY <1>0, <1>5 DEF MaskIsAccounted
  <2>1. \A d, e \in Callers : Running(d) /\ Running(e) => d = e
    BY <1>t DEF MaskIsAccounted
  <2>2. \A d \in Callers : Running(d)' => d = c
    BY <2>1, <1>1, <1>5 DEF Running
  <2>3. \A d \in Callers : job'[d].step # "change" => d = c
    BY <2>2, <1>5 DEF Shape, Running
  <2> QED  BY <2>2, <2>3, <1>3, <1>5
<1> QED  BY <1>3, <1>5, <1>6, <1>7 DEF SettingsInv

(* The targets are masked, or the mask fails in silence and is tainted.    *)
LEMMA MaskStep ==
  ASSUME SettingsInv, NEW c \in Callers, SetMask(c)
  PROVE  SettingsInv'
<1>t. os \in OS /\ job \in [Callers -> Jobs] /\ LogindIsAccounted /\ MaskIsAccounted
  BY DEF SettingsInv
<1>0. At(c, "headless", "mask")
  BY DEF SetMask
<1>1. /\ Running(c) /\ job[c] \in Jobs /\ Wanted(c) = job[c].asked["headless"]
      /\ job[c].asked["headless"] \in BOOLEAN /\ job[c].step = "mask" /\ OwnWork(c)
      /\ "headless" \in DOMAIN job[c].asked
  BY <1>0, AtHeadless
<1>2. job[c].alone = TRUE => os.dropin = job[c].asked["headless"]
  BY <1>1 DEF OwnWork, HeadlessIsOwn, Dropped
<1>3. CASE os' = [os EXCEPT !.mask = Wanted(c)] /\ job' = [job EXCEPT ![c].step = "restart"] /\ UNCHANGED taint
  <2>1. /\ os' \in OS /\ os'.mask = job[c].asked["headless"] /\ os'.dropin = os.dropin
        /\ os'.logind = os.logind /\ os'.profile = os.profile /\ os'.marker = os.marker
    BY <1>1, <1>3, <1>t DEF OS
  <2>2. job[c].clean \in BOOLEAN /\ job' = [job EXCEPT ![c].step = "restart", ![c].clean = job[c].clean]
    <3>1. [job[c] EXCEPT !.step = "restart"] = [[job[c] EXCEPT !.step = "restart"] EXCEPT !.clean = job[c].clean]
      BY <1>1 DEF Jobs
    <3> QED  BY <3>1, <1>3, <1>1, <1>t DEF Jobs
  <2>3. /\ job' \in [Callers -> Jobs] /\ AloneIsAlone'
        /\ \A d \in Callers : Shape(job[d])' /\ OwnWork(d)'
        /\ Running(c)' /\ job'[c].step = "restart" /\ job'[c].asked = job[c].asked
        /\ \A d \in Callers \ {c} : job'[d] = job[d]
    BY <1>0, <1>2, <2>1, <2>2, WithinHeadless
  <2>4. LogindIsAccounted'
    BY <2>3 DEF LogindIsAccounted
  <2>5. MaskIsAccounted'
    <3> SUFFICES ASSUME "mask" \notin taint
                 PROVE  /\ \A d, e \in Callers : Running(d)' /\ Running(e)' => d = e
                        /\ os'.mask = os'.dropin
                        /\ \A d \in Callers : job'[d].step # "change" => os'.dropin = job'[d].asked["headless"]
      BY <1>3 DEF MaskIsAccounted
    <3>1. /\ \A d, e \in Callers : Running(d) /\ Running(e) => d = e
          /\ os.dropin = job[c].asked["headless"]
      BY <1>t, <1>1 DEF MaskIsAccounted
    <3>2. \A d \in Callers : Running(d)' => d = c
      BY <3>1, <1>1, <2>3 DEF Running
    <3>3. \A d \in Callers : job'[d].step # "change" => d = c
      BY <3>2, <2>3 DEF Shape, Running
    <3> QED  BY <3>1, <3>2, <3>3, <2>1, <2>3
  <2> QED  BY <2>1, <2>3, <2>4, <2>5 DEF SettingsInv
<1>4. CASE /\ job' = [job EXCEPT ![c].step = "restart", ![c].clean = FALSE]
           /\ taint' = taint \cup {"mask"} /\ UNCHANGED os
  <2>1. /\ job' \in [Callers -> Jobs] /\ AloneIsAlone'
        /\ \A d \in Callers : Shape(job[d])' /\ OwnWork(d)'
        /\ job'[c].step = "restart"
    BY <1>0, <1>2, <1>4, <1>t, WithinHeadless
  <2>2. LogindIsAccounted'
    BY <2>1 DEF LogindIsAccounted
  <2>3. MaskIsAccounted'
    BY <1>4 DEF MaskIsAccounted
  <2> QED  BY <2>1, <2>2, <2>3, <1>4, <1>t DEF SettingsInv
<1> QED  BY <1>3, <1>4 DEF SetMask

(* What a caller that is alone has made of the snippet and the marker      *)
(* before either field is applied.                                         *)
LEMMA TmuxUntouched ==
  ASSUME NEW c \in Callers, TmuxIsOwn(c), ~Applied(c, "persist"), ~Applied(c, "resume"), Running(c),
         job'[c].before = job[c].before, ~Applied(c, "persist")', ~Applied(c, "resume")',
         os'.profile = os.profile, os'.marker = os.marker
  PROVE  TmuxIsOwn(c)'
<1>1. job[c].state # "failed"
  BY DEF Running
<1>2. /\ os.profile = Expected(c, "persist", job[c].before.profile)
      /\ os.marker = Expected(c, "resume", job[c].before.marker /\ Expected(c, "persist", TRUE))
  BY <1>1 DEF TmuxIsOwn
<1>3. Expected(c, "persist", TRUE) = TRUE /\ Expected(c, "persist", TRUE)' = TRUE
  BY DEF Expected
<1>4. os.profile = job[c].before.profile
  BY <1>2 DEF Expected
<1>5. os.marker = (job[c].before.marker /\ TRUE)
  BY <1>2, <1>3 DEF Expected
<1>6. /\ os'.profile = Expected(c, "persist", job[c].before.profile)'
      /\ os'.marker = Expected(c, "resume", job[c].before.marker /\ Expected(c, "persist", TRUE))'
  BY <1>3, <1>4, <1>5 DEF Expected
<1> QED  BY <1>6 DEF TmuxIsOwn

(* Logind is restarted, or not; the caller goes on to the next field.      *)
LEMMA RestartStep ==
  ASSUME SettingsInv, NEW c \in Callers, RestartLogind(c)
  PROVE  SettingsInv'
<1> DEFINE k == FieldDone(job[c], "headless")
<1>t. /\ os \in OS /\ job \in [Callers -> Jobs] /\ LogindIsAccounted /\ MaskIsAccounted /\ AloneIsAlone
      /\ \A d \in Callers : Shape(job[d])
  BY DEF SettingsInv
<1>0. At(c, "headless", "restart") /\ job' = [job EXCEPT ![c] = k]
  BY DEF RestartLogind
<1>1. /\ Running(c) /\ job[c] \in Jobs /\ Shape(job[c]) /\ job[c].step = "restart" /\ OwnWork(c)
      /\ "headless" \in job[c].left /\ "headless" \in DOMAIN job[c].asked
      /\ ~Applied(c, "persist") /\ ~Applied(c, "resume")
  BY <1>0, AtHeadless
<1>2. /\ Shape(k) /\ k.step = "change" /\ k.state # "failed"
      /\ k.alone = TRUE =>
           /\ job[c].alone = TRUE /\ k.asked = job[c].asked /\ k.left = job[c].left \ {"headless"}
           /\ k.clean = job[c].clean /\ k.before = job[c].before
  <2>1. job[c].state = "running" /\ "headless" \in job[c].left /\ Shape(job[c])
    BY <1>1 DEF Running
  <2>2. ASSUME NEW j, Shape(j), j.state = "running", "headless" \in j.left
        PROVE  LET x == FieldDone(j, "headless") IN
               /\ Shape(x) /\ x.step = "change" /\ x.state # "failed"
               /\ x.alone = TRUE =>
                    /\ j.alone = TRUE /\ x.asked = j.asked /\ x.left = j.left \ {"headless"}
                    /\ x.clean = j.clean /\ x.before = j.before
    BY <2>2, FieldDoneShape
  <2> QED  BY <2>1, <2>2
<1> HIDE DEF k
<1>3. job'[c] = k /\ \A d \in Callers \ {c} : job'[d] = job[d]
  BY <1>0, <1>t
<1>4. /\ os' \in OS /\ os'.dropin = os.dropin /\ os'.mask = os.mask
      /\ os'.profile = os.profile /\ os'.marker = os.marker
  BY <1>t DEF RestartLogind, OS
<1>5. OwnWork(c)'
  <2> SUFFICES ASSUME k.alone = TRUE PROVE HeadlessIsOwn(c)' /\ TmuxIsOwn(c)'
    BY <1>3 DEF OwnWork
  <2>1. Dropped(c)' /\ Dropped(c) /\ Masked(c)
    BY <1>1, <1>2, <1>3 DEF Dropped, Masked
  <2>2. HeadlessIsOwn(c)
    BY <1>1, <1>2 DEF OwnWork
  <2>3. HeadlessIsOwn(c)'
    BY <2>1, <2>2, <1>2, <1>3, <1>4 DEF HeadlessIsOwn
  <2>4. ~Applied(c, "persist")' /\ ~Applied(c, "resume")'
    BY <1>1, <1>2, <1>3 DEF Applied
  <2>5. TmuxIsOwn(c)
    BY <1>1, <1>2 DEF OwnWork
  <2>6. job'[c].before = job[c].before
    BY <1>2, <1>3
  <2>7. TmuxIsOwn(c)'
    BY <2>4, <2>5, <2>6, <1>1, <1>4, TmuxUntouched
  <2> QED  BY <2>3, <2>7
<1>6. /\ job' \in [Callers -> Jobs] /\ AloneIsAlone'
      /\ \A d \in Callers : Shape(job[d])' /\ OwnWork(d)'
  BY <1>0, <1>1, <1>2, <1>5, OthersKeep
<1>7. LogindIsAccounted'
  <2>1. CASE os' = [os EXCEPT !.logind = os.dropin]
    BY <2>1, <1>t, <1>4 DEF LogindIsAccounted, OS
  <2>2. CASE taint' = taint \cup {"logind"}
    BY <2>2 DEF LogindIsAccounted
  <2> QED  BY <2>1, <2>2 DEF RestartLogind
<1>8. MaskIsAccounted'
  <2>1. CASE job[c].alone = TRUE /\ job[c].clean = TRUE
    <3>1. \A d \in Callers : Running(d) => d = c
      BY <2>1, <1>t DEF AloneIsAlone
    <3>2. \A d \in Callers : Running(d)' => d = c
      BY <3>1, <1>3 DEF Running
    <3>3. \A d \in Callers : job'[d].step = "change"
      BY <3>2, <1>2, <1>3, <1>6 DEF Shape, Running
    <3>4. os.dropin = job[c].asked["headless"] /\ os.mask = job[c].asked["headless"]
      BY <2>1, <1>1 DEF OwnWork, HeadlessIsOwn, Dropped, Masked
    <3> QED  BY <3>2, <3>3, <3>4, <1>4 DEF MaskIsAccounted
  <2>2. CASE ~(job[c].alone = TRUE /\ job[c].clean = TRUE)
    <3>1. job[c].alone \in BOOLEAN /\ job[c].clean \in BOOLEAN
      BY <1>1 DEF Jobs
    <3>2. ~(job[c].alone /\ job[c].clean)
      BY <2>2, <3>1
    <3>3. "mask" \notin taint' => "mask" \notin taint
      BY <3>2 DEF RestartLogind
    <3> SUFFICES ASSUME "mask" \notin taint
                 PROVE  /\ \A d, e \in Callers : Running(d)' /\ Running(e)' => d = e
                        /\ os'.mask = os'.dropin
                        /\ \A d \in Callers : job'[d].step = "change"
      BY <3>3 DEF MaskIsAccounted
    <3>4. /\ \A d, e \in Callers : Running(d) /\ Running(e) => d = e
          /\ os.mask # os.dropin => \E d \in Callers : job[d].step = "mask"
      BY <1>t DEF MaskIsAccounted
    <3>5. \A d \in Callers : Running(d)' => d = c
      BY <3>4, <1>1, <1>3 DEF Running
    <3>6. \A d \in Callers : job'[d].step = "change"
      BY <3>5, <1>2, <1>3, <1>6 DEF Shape, Running
    <3>7. \A d \in Callers : job[d].step # "mask"
      BY <3>6, <1>1, <1>3
    <3> QED  BY <3>4, <3>5, <3>6, <3>7, <1>4
  <2> QED  BY <2>1, <2>2
<1> QED  BY <1>4, <1>6, <1>7, <1>8 DEF SettingsInv

(* A step of a caller that touches neither the drop-in nor the mask and    *)
(* leaves no caller in the middle of the switch that was not there before. *)
LEMMA SwitchUntouched ==
  ASSUME SettingsInv, NEW c \in Callers, Running(c), job[c].step = "change",
         job' \in [Callers -> Jobs], job'[c].step = "change",
         \A d \in Callers \ {c} : job'[d] = job[d],
         os'.dropin = os.dropin, os'.mask = os.mask, os'.logind = os.logind, UNCHANGED taint
  PROVE  LogindIsAccounted' /\ MaskIsAccounted'
<1>t. LogindIsAccounted /\ MaskIsAccounted
  BY DEF SettingsInv
<1>1. \A d \in Callers : job'[d].step = job[d].step
  OBVIOUS
<1>2. \A d \in Callers : job'[d].step # "change" => job'[d].asked = job[d].asked
  OBVIOUS
<1>3. \A d \in Callers : Running(d)' => Running(d)
  BY DEF Running
<1>4. LogindIsAccounted'
  BY <1>1, <1>t DEF LogindIsAccounted
<1>5. MaskIsAccounted'
  BY <1>1, <1>2, <1>3, <1>t DEF MaskIsAccounted
<1> QED  BY <1>4, <1>5

(* A field other than the switch is done.                                  *)
LEMMA TmuxStep ==
  ASSUME SettingsInv, NEW c \in Callers, SetTmux(c)
  PROVE  SettingsInv'
<1> DEFINE k == FieldDone(job[c], Current(c))
<1>t. os \in OS /\ job \in [Callers -> Jobs] /\ Shape(job[c]) /\ OwnWork(c)
  BY DEF SettingsInv
<1>0. /\ Running(c) /\ job[c].step = "change" /\ Current(c) \in {"persist", "resume"}
      /\ job' = [job EXCEPT ![c] = k] /\ UNCHANGED taint
  BY DEF SetTmux, At
<1>1. /\ Current(c) \in job[c].left /\ Current(c) # "headless" /\ "headless" \notin job[c].left
      /\ "persist" \in job[c].left => Current(c) # "resume"
  BY <1>0, <1>t, CurrentIsFirst
<1>2. /\ Shape(k) /\ k.step = "change" /\ k.state # "failed"
      /\ k.alone = TRUE =>
           /\ job[c].alone = TRUE /\ k.asked = job[c].asked /\ k.left = job[c].left \ {Current(c)}
           /\ k.clean = job[c].clean /\ k.before = job[c].before
  <2>1. job[c].state = "running"
    BY <1>0 DEF Running
  <2> DEFINE f == Current(c)
             j == job[c]
  <2>2. /\ Shape(j) /\ j.state = "running" /\ f \in j.left
        /\ "headless" \notin j.left /\ ("persist" \in j.left => f # "resume")
    BY <1>1, <1>t, <2>1
  <2> HIDE DEF f, j
  <2>3. LET x == FieldDone(j, f) IN
        /\ Shape(x) /\ x.step = "change" /\ x.state # "failed"
        /\ x.alone = TRUE =>
             /\ j.alone = TRUE /\ x.asked = j.asked /\ x.left = j.left \ {f}
             /\ x.clean = j.clean /\ x.before = j.before
    BY <2>2, FieldDoneShape
  <2> QED  BY <2>3 DEF f, j
<1> HIDE DEF k
<1>3. job'[c] = k /\ \A d \in Callers \ {c} : job'[d] = job[d]
  BY <1>0, <1>t
<1>4. job[c].left \subseteq DOMAIN job[c].asked /\ job[c] \in Jobs
  BY <1>t DEF Shape, Ordered
<1>5. Wanted(c) = job[c].asked[Current(c)] /\ Wanted(c) \in BOOLEAN
  <2>1. job[c].asked \in Bodily
    BY <1>4 DEF Jobs
  <2>2. PICK F \in SUBSET Fields : job[c].asked \in [F -> BOOLEAN]
    BY <2>1 DEF Bodily
  <2> QED  BY <2>2, <1>1, <1>4 DEF Wanted
<1>m. os.marker \in BOOLEAN /\ os.profile \in BOOLEAN /\ (os.marker /\ Wanted(c)) \in BOOLEAN
  BY <1>t DEF OS
<1>6. /\ os' \in OS /\ os'.dropin = os.dropin /\ os'.mask = os.mask /\ os'.logind = os.logind
      /\ Current(c) = "persist" => os'.profile = Wanted(c) /\ os'.marker = (os.marker /\ Wanted(c))
      /\ Current(c) = "resume" => os'.profile = os.profile /\ os'.marker = Wanted(c)
  <2>1. CASE Current(c) = "persist"
    <3> DEFINE b == (os.marker /\ Wanted(c))
    <3>1. os' = [os EXCEPT !.profile = Wanted(c), !.marker = b]
      BY <2>1 DEF SetTmux, At
    <3>2. b \in BOOLEAN
      BY <1>m
    <3> HIDE DEF b
    <3>3. /\ os' \in OS /\ os'.dropin = os.dropin /\ os'.mask = os.mask /\ os'.logind = os.logind
          /\ os'.profile = Wanted(c) /\ os'.marker = b
      BY <3>1, <3>2, <1>5, <1>t DEF OS
    <3> QED  BY <3>3, <2>1 DEF b
  <2>2. CASE Current(c) = "resume"
    <3>1. os' = [os EXCEPT !.marker = Wanted(c)]
      BY <2>2 DEF SetTmux, At
    <3> QED  BY <3>1, <2>2, <1>5, <1>t DEF OS
  <2> QED  BY <2>1, <2>2, <1>0
<1>7. OwnWork(c)'
  <2> SUFFICES ASSUME k.alone = TRUE PROVE HeadlessIsOwn(c)' /\ TmuxIsOwn(c)'
    BY <1>3 DEF OwnWork
  <2>1. HeadlessIsOwn(c) /\ TmuxIsOwn(c)
    BY <1>t, <1>2 DEF OwnWork
  <2>2. (Dropped(c)' <=> Dropped(c)) /\ (Masked(c)' <=> Masked(c))
    BY <1>1, <1>2, <1>3 DEF Dropped, Masked
  <2>3. HeadlessIsOwn(c)'
    BY <2>1, <2>2, <1>2, <1>3, <1>6 DEF HeadlessIsOwn
  <2>4. /\ os.profile = Expected(c, "persist", job[c].before.profile)
        /\ os.marker = Expected(c, "resume", job[c].before.marker /\ Expected(c, "persist", TRUE))
    BY <2>1, <1>0 DEF TmuxIsOwn, Running
  <2>5. CASE Current(c) = "persist"
    <3>1. ~Applied(c, "persist") /\ ~Applied(c, "resume")
      BY <2>5, <1>1, <1>t DEF Applied, Shape, Ordered
    <3>2. Applied(c, "persist")' /\ ~Applied(c, "resume")'
      BY <2>5, <3>1, <1>1, <1>2, <1>3, <1>4 DEF Applied
    <3>3. os.marker = (job[c].before.marker /\ TRUE)
      <4>1. Expected(c, "persist", TRUE) = TRUE
        BY <3>1 DEF Expected
      <4> QED  BY <4>1, <3>1, <2>4 DEF Expected
    <3>4. Expected(c, "persist", TRUE)' = Wanted(c)
      BY <3>2, <2>5, <1>2, <1>3, <1>5 DEF Expected
    <3>5. os'.profile = Expected(c, "persist", job[c].before.profile)'
      BY <3>2, <2>5, <1>2, <1>3, <1>5, <1>6 DEF Expected
    <3>6. os'.marker = Expected(c, "resume", job[c].before.marker /\ Expected(c, "persist", TRUE))'
      <4>1. job'[c].before = job[c].before
        BY <1>2, <1>3
      <4>2. Expected(c, "resume", job[c].before.marker /\ Expected(c, "persist", TRUE))'
              = (job'[c].before.marker /\ Expected(c, "persist", TRUE)')
        BY <3>2 DEF Expected
      <4> QED  BY <4>1, <4>2, <3>3, <3>4, <2>5, <1>6
    <3> QED  BY <2>3, <3>5, <3>6 DEF TmuxIsOwn
  <2>6. CASE Current(c) = "resume"
    <3>1. Applied(c, "persist")' <=> Applied(c, "persist")
      BY <2>6, <1>2, <1>3 DEF Applied
    <3>2. Applied(c, "resume")'
      BY <2>6, <1>1, <1>2, <1>3, <1>4 DEF Applied
    <3>3. os'.profile = Expected(c, "persist", job[c].before.profile)'
      BY <3>1, <2>4, <2>6, <1>2, <1>3, <1>6 DEF Expected
    <3>4. os'.marker = Expected(c, "resume", job[c].before.marker /\ Expected(c, "persist", TRUE))'
      BY <3>2, <2>6, <1>2, <1>3, <1>5, <1>6 DEF Expected
    <3> QED  BY <2>3, <3>3, <3>4 DEF TmuxIsOwn
  <2> QED  BY <2>5, <2>6, <1>0
<1>8. /\ job' \in [Callers -> Jobs] /\ AloneIsAlone'
      /\ \A d \in Callers : Shape(job[d])' /\ OwnWork(d)'
  BY <1>0, <1>2, <1>7, OthersKeep
<1>9. LogindIsAccounted' /\ MaskIsAccounted'
  BY <1>0, <1>2, <1>3, <1>6, <1>8, SwitchUntouched
<1> QED  BY <1>6, <1>8, <1>9 DEF SettingsInv

(* A wrapper fails: the fields before it stay, those after it are not set. *)
LEMMA FailStep ==
  ASSUME SettingsInv, NEW c \in Callers, WrapperFails(c)
  PROVE  SettingsInv'
<1> DEFINE k == Answered(job[c], "failed")
<1>t. os \in OS /\ job \in [Callers -> Jobs] /\ Shape(job[c]) /\ OwnWork(c)
  BY DEF SettingsInv
<1>0. /\ Running(c) /\ job[c].step = "change" /\ job' = [job EXCEPT ![c] = k] /\ UNCHANGED taint
      /\ \/ UNCHANGED os
         \/ /\ Current(c) = "persist"
            /\ os' = [os EXCEPT !.profile = FALSE] \/ os' = [os EXCEPT !.marker = FALSE]
  BY DEF WrapperFails
<1>2. /\ k \in Jobs /\ k.state # "running" /\ k.step = "change"
      /\ k.alone = TRUE =>
           /\ job[c].alone = TRUE /\ k.state = "failed" /\ k.asked = job[c].asked /\ k.left = job[c].left
           /\ k.clean = job[c].clean /\ k.before = job[c].before
      /\ Shape(k)
  BY <1>0, <1>t, AnsweredShape DEF Shape
<1> HIDE DEF k
<1>3. job'[c] = k /\ \A d \in Callers \ {c} : job'[d] = job[d]
  BY <1>0, <1>t
<1>4. os' \in OS /\ os'.dropin = os.dropin /\ os'.mask = os.mask /\ os'.logind = os.logind
  BY <1>0, <1>t DEF OS
<1>5. OwnWork(c)'
  <2> SUFFICES ASSUME k.alone = TRUE PROVE HeadlessIsOwn(c)' /\ TmuxIsOwn(c)'
    BY <1>3 DEF OwnWork
  <2>0. /\ job'[c].asked = job[c].asked /\ job'[c].left = job[c].left /\ job'[c].step = job[c].step
        /\ job'[c].clean = job[c].clean /\ job'[c].before = job[c].before /\ job'[c].state = "failed"
    BY <1>0, <1>2, <1>3
  <2>1. HeadlessIsOwn(c) /\ TmuxIsOwn(c)
    BY <1>t, <1>2 DEF OwnWork
  <2>2. (Dropped(c)' <=> Dropped(c)) /\ (Masked(c)' <=> Masked(c))
    BY <2>0 DEF Dropped, Masked
  <2>3. HeadlessIsOwn(c)'
    BY <2>0, <2>1, <2>2, <1>4 DEF HeadlessIsOwn
  <2>4. TmuxIsOwn(c)'
    <3>1. Current(c)' = Current(c)
      BY <2>0 DEF Current
    <3>2. CASE Current(c) = "persist"
      BY <3>1, <3>2, <2>0 DEF TmuxIsOwn
    <3>3. CASE Current(c) # "persist"
      <4>1. os' = os
        BY <3>3, <1>0
      <4>2. \A f : Applied(c, f)' <=> Applied(c, f)
        BY <2>0 DEF Applied
      <4>3. /\ os.profile = Expected(c, "persist", job[c].before.profile)
            /\ os.marker = Expected(c, "resume", job[c].before.marker /\ Expected(c, "persist", TRUE))
        BY <2>1, <1>0 DEF TmuxIsOwn, Running
      <4>4. Expected(c, "persist", job[c].before.profile)' = Expected(c, "persist", job[c].before.profile)
        BY <4>2, <2>0 DEF Expected
      <4>5. Expected(c, "persist", TRUE)' = Expected(c, "persist", TRUE)
        BY <4>2, <2>0 DEF Expected
      <4>6. Expected(c, "resume", job[c].before.marker /\ Expected(c, "persist", TRUE))'
              = Expected(c, "resume", job[c].before.marker /\ Expected(c, "persist", TRUE))
        BY <4>2, <4>5, <2>0 DEF Expected
      <4> QED  BY <4>1, <4>3, <4>4, <4>6 DEF TmuxIsOwn
    <3> QED  BY <3>2, <3>3
  <2> QED  BY <2>3, <2>4
<1>6. /\ job' \in [Callers -> Jobs] /\ AloneIsAlone'
      /\ \A d \in Callers : Shape(job[d])' /\ OwnWork(d)'
  BY <1>0, <1>2, <1>5, OthersKeep
<1>7. LogindIsAccounted' /\ MaskIsAccounted'
  BY <1>0, <1>2, <1>3, <1>4, <1>6, SwitchUntouched
<1> QED  BY <1>4, <1>6, <1>7 DEF SettingsInv

(* The service is stopped: what it leaves half done is tainted.            *)
LEMMA StopStep ==
  ASSUME SettingsInv, StopService
  PROVE  SettingsInv'
<1> DEFINE ended == {c \in Callers \ CommandLine : Running(c)}
           between == {c \in ended : job[c].step # "change"}
<1>t. /\ os \in OS /\ job \in [Callers -> Jobs] /\ LogindIsAccounted /\ MaskIsAccounted /\ AloneIsAlone
      /\ \A d \in Callers : Shape(job[d]) /\ OwnWork(d)
  BY DEF SettingsInv
<1>1. /\ job' = [c \in Callers |-> IF c \in ended THEN Idle ELSE job[c]]
      /\ taint' = (IF between = {} THEN taint ELSE {"mask", "logind"}) /\ UNCHANGED os
  BY DEF StopService
<1>2. \A c \in Callers : job'[c] = IF c \in ended THEN Idle ELSE job[c]
  BY <1>1
<1>b. \A c \in ended : between = {} => job[c].step = "change"
  OBVIOUS
<1> HIDE DEF between, ended
<1>i. Shape(Idle) /\ Idle \in Jobs /\ Idle.alone = FALSE /\ Idle.state = "idle" /\ Idle.step = "change"
  BY IdleShape DEF Shape, Ordered
<1>3. job' \in [Callers -> Jobs] /\ \A c \in Callers : Shape(job'[c])
  BY <1>1, <1>2, <1>i, <1>t
<1>4. \A c \in Callers : OwnWork(c)'
  <2> SUFFICES ASSUME NEW c \in Callers PROVE OwnWork(c)'
    OBVIOUS
  <2>1. CASE c \in ended
    BY <2>1, <1>2, <1>i DEF OwnWork
  <2>2. CASE c \notin ended
    <3>1. job'[c] = job[c] /\ os' = os
      BY <2>2, <1>1, <1>2
    <3>2. /\ (Dropped(c)' <=> Dropped(c)) /\ (Masked(c)' <=> Masked(c)) /\ Current(c)' = Current(c)
          /\ \A f : Applied(c, f)' <=> Applied(c, f)
      BY <3>1 DEF Dropped, Masked, Current, Applied
    <3>3. HeadlessIsOwn(c)' <=> HeadlessIsOwn(c)
      BY <3>1, <3>2 DEF HeadlessIsOwn
    <3>4. /\ Expected(c, "persist", TRUE)' = Expected(c, "persist", TRUE)
          /\ Expected(c, "persist", job[c].before.profile)' = Expected(c, "persist", job[c].before.profile)
      BY <3>1, <3>2 DEF Expected
    <3>5. Expected(c, "resume", job[c].before.marker /\ Expected(c, "persist", TRUE))'
            = Expected(c, "resume", job[c].before.marker /\ Expected(c, "persist", TRUE))
      BY <3>1, <3>2, <3>4 DEF Expected
    <3>6. TmuxIsOwn(c)' <=> TmuxIsOwn(c)
      BY <3>1, <3>2, <3>4, <3>5 DEF TmuxIsOwn
    <3> QED  BY <3>1, <3>3, <3>6, <1>t DEF OwnWork
  <2> QED  BY <2>1, <2>2
<1>5. \A c \in Callers : Running(c)' => Running(c) /\ job'[c] = job[c]
  BY <1>2, <1>i DEF Running
<1>6. AloneIsAlone'
  BY <1>2, <1>5, <1>i, <1>t DEF AloneIsAlone
<1>7. CASE between # {}
  BY <1>7, <1>1, <1>3, <1>4, <1>6, <1>t DEF SettingsInv, LogindIsAccounted, MaskIsAccounted
<1>8. CASE between = {}
  <2>1. taint' = taint
    BY <1>1, <1>8
  <2>2. \A c \in Callers : job'[c].step = job[c].step
    BY <1>2, <1>b, <1>i, <1>8
  <2>3. \A c \in Callers : job'[c].step # "change" => job'[c] = job[c]
    BY <1>2, <1>i
  <2>4. LogindIsAccounted'
    BY <2>1, <2>2, <1>1, <1>t DEF LogindIsAccounted
  <2>5. MaskIsAccounted'
    BY <2>1, <2>2, <2>3, <1>1, <1>5, <1>t DEF MaskIsAccounted
  <2> QED  BY <2>4, <2>5, <1>1, <1>3, <1>4, <1>6, <1>t DEF SettingsInv
<1> QED  BY <1>7, <1>8

--------------------------------------------------------------------------------
(* The invariant holds for any number of requests and shells.              *)
THEOREM SettingsInvariant == SettingsSpec => []SettingsInv
<1>1. SettingsInit => SettingsInv
  BY SettingsInitInv
<1>2. SettingsInv /\ [SettingsNext]_settingsVars => SettingsInv'
  <2> SUFFICES ASSUME SettingsInv, [SettingsNext]_settingsVars PROVE SettingsInv'
    OBVIOUS
  <2>1. CASE UNCHANGED settingsVars
    <3>1. os' = os /\ job' = job /\ taint' = taint
      BY <2>1 DEF settingsVars
    <3> QED
      BY <3>1 DEF SettingsInv, AloneIsAlone, LogindIsAccounted, MaskIsAccounted, Running, OwnWork,
                  HeadlessIsOwn, TmuxIsOwn, Dropped, Masked, Current, Applied, Expected
  <2> QED
    BY <2>1, BeginStep, DropinStep, MaskStep, RestartStep, TmuxStep, FailStep, StopStep DEF SettingsNext
<1> QED
  BY <1>1, <1>2, PTL DEF SettingsSpec

(* Whatever wrappers overlap, when all are done logind runs with the       *)
(* drop-in on disk and the mask agrees with it, unless one was tainted     *)
(* (hostek-power-set, its three commands).                                 *)
THEOREM HeadlessSettled == SettingsSpec => []HeadlessSettles
<1>1. ASSUME SettingsInv PROVE HeadlessSettles
  <2>1. Quiet => \A c \in Callers : job[c].step = "change"
    BY <1>1 DEF SettingsInv, Shape, Quiet, Running
  <2> QED  BY <1>1, <2>1
           DEF SettingsInv, LogindIsAccounted, MaskIsAccounted, HeadlessSettles, LogindFollows, MaskFollows
<1> QED
  BY <1>1, SettingsInvariant, PTL

(* The answer to a request that had the host to itself tells what is set   *)
(* and what is not (api.go setPower, one wrapper per field, stopping at    *)
(* the first that fails).                                                  *)
THEOREM AnswersAreTrue == SettingsSpec => []AnswerIsTrue
<1>1. ASSUME SettingsInv, NEW c \in Callers, job[c].state \in {"done", "failed"}, job[c].alone
      PROVE  LET b == job[c].before IN
             /\ job[c].state = "done" => job[c].left = {}
             /\ os.dropin = Expected(c, "headless", b.dropin)
             /\ job[c].clean /\ Applied(c, "headless") => ReadHeadless = job[c].asked["headless"]
             /\ ~(job[c].state = "failed" /\ Current(c) = "persist") =>
                  /\ os.profile = Expected(c, "persist", b.profile)
                  /\ os.marker = Expected(c, "resume", b.marker /\ Expected(c, "persist", TRUE))
  <2>0. /\ Shape(job[c]) /\ OwnWork(c) /\ os \in OS /\ job[c] \in Jobs
        /\ job[c].alone \in BOOLEAN /\ job[c].clean \in BOOLEAN
    BY <1>1 DEF SettingsInv, Jobs
  <2>1. HeadlessIsOwn(c) /\ TmuxIsOwn(c) /\ job[c].step = "change"
    BY <2>0, <1>1 DEF OwnWork, Shape
  <2>2. (Dropped(c) <=> Applied(c, "headless")) /\ (Masked(c) <=> Applied(c, "headless"))
    BY <2>1 DEF Dropped, Masked, Applied
  <2>3. os.dropin = Expected(c, "headless", job[c].before.dropin)
    BY <2>1, <2>2 DEF HeadlessIsOwn, Expected
  <2>4. ASSUME job[c].clean, Applied(c, "headless") PROVE ReadHeadless = job[c].asked["headless"]
    <3>1. os.dropin = job[c].asked["headless"] /\ os.mask = job[c].asked["headless"]
      BY <2>0, <2>1, <2>2, <2>4 DEF HeadlessIsOwn
    <3>2. os.mask \in BOOLEAN
      BY <2>0 DEF OS
    <3> QED  BY <3>1, <3>2 DEF ReadHeadless
  <2>5. job[c].state = "done" => job[c].left = {}
    BY <2>0 DEF Shape
  <2> QED  BY <2>1, <2>3, <2>4, <2>5 DEF TmuxIsOwn
<1>2. SettingsInv => AnswerIsTrue
  BY <1>1 DEF AnswerIsTrue
<1> QED
  BY <1>2, SettingsInvariant, PTL
================================================================================
