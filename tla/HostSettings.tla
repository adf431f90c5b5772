------------------------------ MODULE HostSettings ------------------------------
(***************************************************************************)
(* The power and tmux configuration: requests of the daemon, each applying *)
(* its fields in order through privileged wrappers and stopping at the     *)
(* first that fails, beside wrappers started on the command line.  Nothing *)
(* serialises the wrappers, and stopping the service ends those it runs.   *)
(*                                                                         *)
(* Abstractions: the drop-in, the snippet and the marker exist or not, as  *)
(* each is replaced by a rename; the sleep targets are masked together.    *)
(***************************************************************************)
EXTENDS Naturals

CONSTANTS
  Callers,      \* requests of the daemon and shells of the administrator
  CommandLine,  \* the shells
  Bodies        \* requests: the fields set, and to what

Fields == {"headless", "persist", "resume"}

ASSUME CallersAreKnown ==
  /\ CommandLine \subseteq Callers
  /\ Bodies \subseteq UNION {[F -> BOOLEAN] : F \in (SUBSET Fields) \ {{}}}

VARIABLES
  os,     \* the drop-in, the mask, what logind runs with, snippet and marker
  job,    \* what each caller is at
  taint   \* what an overlap, a failed command or a killed wrapper may have
          \* left: "mask" apart from the drop-in, "logind" not restarted
settingsVars == <<os, job, taint>>

OS == [dropin : BOOLEAN, mask : BOOLEAN, logind : BOOLEAN, profile : BOOLEAN, marker : BOOLEAN]

(* asked: the request; left: the fields it has still to apply; alone: no   *)
(* other caller ran meanwhile; clean: every command of it worked; before:  *)
(* the host as it found it.  The answer of a request is remembered until   *)
(* somebody else changes the host.                                         *)
Off == [dropin |-> FALSE, mask |-> FALSE, logind |-> FALSE, profile |-> FALSE, marker |-> FALSE]
Idle ==
  [state |-> "idle", asked |-> [f \in {} |-> FALSE], left |-> {}, step |-> "change",
   alone |-> FALSE, clean |-> TRUE, before |-> Off]
Accepted(asked, alone) ==
  [state |-> "running", asked |-> asked, left |-> DOMAIN asked, step |-> "change",
   alone |-> alone, clean |-> TRUE, before |-> IF alone THEN os ELSE Off]
Overtaken(j) == IF j.state = "running" THEN [j EXCEPT !.alone = FALSE, !.before = Off] ELSE Idle
Answered(j, state) == IF j.alone THEN [j EXCEPT !.state = state] ELSE Idle

SettingsInit ==
  /\ os \in {s \in OS : s.dropin = s.mask /\ s.logind = s.dropin}
  /\ job = [c \in Callers |-> Idle]
  /\ taint = {}

Running(c) == job[c].state = "running"
Quiet == \A c \in Callers : ~Running(c)

Current(c) ==
  IF "headless" \in job[c].left THEN "headless"
  ELSE IF "persist" \in job[c].left THEN "persist" ELSE "resume"
Wanted(c) == job[c].asked[Current(c)]
At(c, field, step) == Running(c) /\ Current(c) = field /\ job[c].step = step

--------------------------------------------------------------------------------
(* setPower accepts a body with at least one field, a shell runs one       *)
(* wrapper with one argument.                                              *)
Begin(c, asked) ==
  /\ ~Running(c)
  /\ c \in CommandLine => \E f \in Fields : DOMAIN asked = {f}
  /\ job' = [b \in Callers |-> IF b = c THEN Accepted(asked, Quiet) ELSE Overtaken(job[b])]
  /\ taint' = IF Quiet THEN taint ELSE taint \cup {"mask"}
  /\ UNCHANGED os

(* A wrapper that succeeds leads to the next field, the last to the answer. *)
FieldDone(j, field) ==
  LET k == [j EXCEPT !.left = @ \ {field}, !.step = "change"] IN
  IF k.left = {} THEN Answered(k, "done") ELSE k

(* hostek-power-set: the drop-in is put in place or removed, the targets   *)
(* are masked or unmasked, logind is restarted; only the first can fail    *)
(* the wrapper, the others are allowed to.                                 *)
SetDropin(c) ==
  /\ At(c, "headless", "change")
  /\ os' = [os EXCEPT !.dropin = Wanted(c)]
  /\ job' = [job EXCEPT ![c].step = "mask"]
  /\ UNCHANGED taint

MaskFailureEnds(c) ==                                   \* mutant of SetMask
  /\ At(c, "headless", "mask")
  /\ \/ /\ os' = [os EXCEPT !.mask = Wanted(c)]
        /\ job' = [job EXCEPT ![c].step = "restart"]
        /\ UNCHANGED taint
     \/ /\ job' = [job EXCEPT ![c] = Answered(@, "failed")]
        /\ taint' = taint \cup {"mask"}
        /\ UNCHANGED os
SetMask(c) ==
  /\ At(c, "headless", "mask")
  /\ \/ /\ os' = [os EXCEPT !.mask = Wanted(c)]
        /\ job' = [job EXCEPT ![c].step = "restart"]
        /\ UNCHANGED taint
     \/ /\ job' = [job EXCEPT ![c].step = "restart", ![c].clean = FALSE]
        /\ taint' = taint \cup {"mask"}
        /\ UNCHANGED os

RestartLogind(c) ==
  /\ At(c, "headless", "restart")
  /\ \/ /\ os' = [os EXCEPT !.logind = os.dropin]
        /\ taint' = taint \ (IF job[c].alone /\ job[c].clean THEN {"mask", "logind"} ELSE {"logind"})
     \/ /\ taint' = taint \cup {"logind"}
        /\ UNCHANGED os
  /\ job' = [job EXCEPT ![c] = FieldDone(job[c], "headless")]

(* hostek-tmux-set: on installs the snippet, off removes snippet and       *)
(* marker; resume-on and resume-off drop and remove the marker.            *)
SetTmux(c) ==
  /\ \/ /\ At(c, "persist", "change")
        /\ os' = [os EXCEPT !.profile = Wanted(c), !.marker = @ /\ Wanted(c)]
     \/ /\ At(c, "resume", "change")
        /\ os' = [os EXCEPT !.marker = Wanted(c)]
  /\ job' = [job EXCEPT ![c] = FieldDone(job[c], Current(c))]
  /\ UNCHANGED taint

(* A wrapper that fails ends the request; the removal of the two files may *)
(* have failed for one of them only.                                       *)
GoesOn(c) ==                                            \* mutant of WrapperFails
  /\ Running(c) /\ job[c].step = "change"
  /\ job' = [job EXCEPT ![c] = FieldDone(job[c], Current(c))]
  /\ UNCHANGED <<os, taint>>
WrapperFails(c) ==
  /\ Running(c) /\ job[c].step = "change"
  /\ \/ UNCHANGED os
     \/ /\ Current(c) = "persist" /\ ~Wanted(c)
        /\ \/ os' = [os EXCEPT !.profile = FALSE]
           \/ os' = [os EXCEPT !.marker = FALSE]
  /\ job' = [job EXCEPT ![c] = Answered(@, "failed")]
  /\ UNCHANGED taint

(* Stopping the service ends its requests and the wrappers they wait for.  *)
StopService ==
  LET ended == {c \in Callers \ CommandLine : Running(c)}
      between == {c \in ended : job[c].step # "change"} IN
  /\ ended # {}
  /\ job' = [c \in Callers |-> IF c \in ended THEN Idle ELSE job[c]]
  /\ taint' = IF between = {} THEN taint ELSE {"mask", "logind"}
  /\ UNCHANGED os

SettingsNext ==
  \/ \E c \in Callers :
       \/ \E asked \in Bodies : Begin(c, asked)
       \/ SetDropin(c) \/ SetMask(c) \/ RestartLogind(c) \/ SetTmux(c) \/ WrapperFails(c)
  \/ StopService

SettingsSpec == SettingsInit /\ [][SettingsNext]_settingsVars

--------------------------------------------------------------------------------
(* sysconfig.Read: what the page shows.                                    *)
ReadHeadless == os.mask /\ os.dropin

(* When no wrapper is running, logind runs with the configuration on disk, *)
(* however the wrappers overlapped, unless a restart failed or a wrapper   *)
(* was killed since; and the mask agrees with the drop-in unless wrappers  *)
(* overlapped, a mask failed or a wrapper was killed after the last that   *)
(* ran alone and well.                                                     *)
LogindFollows == Quiet /\ "logind" \notin taint => os.logind = os.dropin
MaskFollows == Quiet /\ "mask" \notin taint => os.mask = os.dropin
HeadlessSettles == LogindFollows /\ MaskFollows

(* A request that had the host to itself is told the truth: if it is       *)
(* answered with success, all it asked for is set, the later field having  *)
(* the last word, the mask excepted, which may fail in silence.  If it is  *)
(* answered with an error, the headless switch is set if its wrapper had   *)
(* ended and as it was if not, and so are snippet and marker, unless it is *)
(* the wrapper for them that failed half way: of that nothing is said.     *)
Applied(c, f) == f \in DOMAIN job[c].asked \ job[c].left
Expected(c, f, old) == IF Applied(c, f) THEN job[c].asked[f] ELSE old

AnswerIsTrue ==
  \A c \in Callers :
    job[c].state \in {"done", "failed"} /\ job[c].alone =>
      LET b == job[c].before IN
      /\ job[c].state = "done" => job[c].left = {}
      /\ os.dropin = Expected(c, "headless", b.dropin)
      /\ job[c].clean /\ Applied(c, "headless") => ReadHeadless = job[c].asked["headless"]
      /\ ~(job[c].state = "failed" /\ Current(c) = "persist") =>
           /\ os.profile = Expected(c, "persist", b.profile)
           /\ os.marker = Expected(c, "resume", b.marker /\ Expected(c, "persist", TRUE))
================================================================================
