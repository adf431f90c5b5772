--------------------------------- MODULE NotAus ---------------------------------
(***************************************************************************)
(* The emergency poweroff ("Not-Aus"): administrators configure it         *)
(* (ShutdownStore), callers of the login page submit passwords             *)
(* (api.shutdownTrigger, shutdown.Manager.Verify), the in-memory lockout   *)
(* slows them down, a confirmed caller's goroutine runs the privileged     *)
(* wrapper a second later, and the daemon may be stopped, killed and       *)
(* started at any time.                                                    *)
(*                                                                         *)
(* lockedUntil is kept as the number of clock ticks it is still ahead.     *)
(***************************************************************************)
EXTENDS ShutdownStore

CONSTANTS
  Callers,        \* login-page requests being served at the same time
  WrongPassword,  \* a submitted password nobody ever configured
  MaxFailures,    \* consecutive wrong passwords before the cooldown
  LockoutTicks,   \* length of the cooldown, in ticks
  WrapperFaults   \* which of "sudo", "clean", "forced" may fail in Trigger

ASSUME LockoutConstants ==
  /\ MaxFailures \in Nat \ {0}
  /\ LockoutTicks \in Nat \ {0}
  /\ WrongPassword \notin Passwords \cup {NoHash}
  /\ IsFiniteSet(Callers)

VARIABLES
  failures,     \* Manager.failures
  lockLeft,     \* ticks until lockedUntil; 0: zero or in the past
  vpc,          \* where each caller is
  guess,        \* the password it submitted
  hash,         \* the hash it loaded, between load and compare
  verdict,      \* what Verify returned
  daemon,       \* "up", "stopping" (SIGTERM seen) or "down"
  machine,      \* "on" or "off"
  seen,         \* history: contents the file had since the caller arrived
  evaluated     \* history: wrong passwords compared since guessing was last free

verifyVars == <<failures, lockLeft, vpc, guess, hash, verdict>>
hostVars == <<daemon, machine>>
ghostVars == <<seen, evaluated>>
vars == <<storeVars, verifyVars, hostVars, ghostVars>>

Guesses == Passwords \cup {WrongPassword}

(* A caller past the lock check whose password is not compared yet.        *)
Admitted(c) == vpc[c] \in {"load", "compare"}
InVerify(c) == vpc[c] = "check" \/ Admitted(c)

Init ==
  /\ StoreInit
  /\ failures = 0
  /\ lockLeft = 0
  /\ vpc = [c \in Callers |-> "idle"]
  /\ guess = [c \in Callers |-> WrongPassword]
  /\ hash = [c \in Callers |-> NoHash]
  /\ verdict = [c \in Callers |-> "none"]
  /\ daemon = "up"
  /\ machine = "on"
  /\ seen = [c \in Callers |-> {}]
  /\ evaluated = 0

(* History: every unfinished Verify sees the new content of the file.      *)
Witness ==
  seen' = [c \in Callers |-> IF InVerify(c) THEN seen[c] \cup {disk'} ELSE seen[c]]

GotoV(c, label) == vpc' = [vpc EXCEPT ![c] = label]

--------------------------------------------------------------------------------
(***************************************************************************)
(* The administrators.                                                     *)
(***************************************************************************)
AdminReceive(r) ==
  /\ daemon = "up"
  /\ Receive(r)
  /\ UNCHANGED <<verifyVars, hostVars, ghostVars>>

AdminServe(r) ==
  /\ daemon # "down"
  /\ Serve(r)
  /\ Witness
  /\ UNCHANGED <<verifyVars, hostVars, evaluated>>

Edit ==
  /\ ExternalEdit
  /\ Witness
  /\ UNCHANGED <<verifyVars, hostVars, evaluated>>

--------------------------------------------------------------------------------
(***************************************************************************)
(* The callers.                                                            *)
(***************************************************************************)
Arrive(c) ==
  /\ daemon = "up"
  /\ vpc[c] = "idle"
  /\ \E g \in Guesses : guess' = [guess EXCEPT ![c] = g]
  /\ GotoV(c, "check")
  /\ seen' = [seen EXCEPT ![c] = {disk}]
  /\ UNCHANGED <<storeVars, failures, lockLeft, hash, verdict, hostVars, evaluated>>

Locked == lockLeft > 0

CheckLock(c) ==
  /\ vpc[c] = "check"
  /\ IF Locked
     THEN /\ verdict' = [verdict EXCEPT ![c] = "locked"]
          /\ GotoV(c, "answer")
     ELSE GotoV(c, "load") /\ UNCHANGED verdict
  /\ UNCHANGED <<storeVars, failures, lockLeft, guess, hash, hostVars, ghostVars>>

ButtonWithoutArming == Configured(disk)             \* mutant of HasButton
HasButton == EffectivelyArmed(disk)

(* After attemptDelay the live file decides whether there is a button.     *)
LoadArmed(c) ==
  /\ vpc[c] = "load"
  /\ IF HasButton
     THEN /\ hash' = [hash EXCEPT ![c] = Loaded(disk).hash]
          /\ GotoV(c, "compare")
          /\ UNCHANGED verdict
     ELSE /\ verdict' = [verdict EXCEPT ![c] = "not_armed"]
          /\ GotoV(c, "answer")
          /\ UNCHANGED hash
  /\ UNCHANGED <<storeVars, failures, lockLeft, guess, hostVars, ghostVars>>

OneTooMany ==                                       \* mutants of RecordFailure
  IF failures + 1 > MaxFailures
  THEN lockLeft' = LockoutTicks /\ failures' = 0
  ELSE failures' = failures + 1 /\ UNCHANGED lockLeft
LateFailureUnlocks ==
  IF failures + 1 >= MaxFailures
  THEN lockLeft' = LockoutTicks /\ failures' = 0
  ELSE failures' = failures + 1 /\ lockLeft' = 0
LocksItselfOut ==
  failures + 1 < MaxFailures /\ failures' = failures + 1 /\ UNCHANGED lockLeft

RecordFailure ==
  IF failures + 1 >= MaxFailures
  THEN lockLeft' = LockoutTicks /\ failures' = 0
  ELSE failures' = failures + 1 /\ UNCHANGED lockLeft

RecordSuccess == failures' = 0 /\ lockLeft' = 0

Compare(c) ==
  /\ vpc[c] = "compare"
  /\ \/ /\ guess[c] # hash[c]
        /\ RecordFailure
        /\ verdict' = [verdict EXCEPT ![c] = "wrong"]
        /\ evaluated' = evaluated + 1
     \/ /\ guess[c] = hash[c]
        /\ RecordSuccess
        /\ verdict' = [verdict EXCEPT ![c] = "authorized"]
        /\ evaluated' = 0
  /\ hash' = [hash EXCEPT ![c] = NoHash]
  /\ GotoV(c, "answer")
  /\ UNCHANGED <<storeVars, guess, hostVars, seen>>

(* The slot's request is over: its goroutine, if any, has ended too.       *)
Release(c) ==
  /\ GotoV(c, "idle")
  /\ guess' = [guess EXCEPT ![c] = WrongPassword]
  /\ verdict' = [verdict EXCEPT ![c] = "none"]
  /\ seen' = [seen EXCEPT ![c] = {}]

ConfirmsLocked(c) == verdict[c] \in {"authorized", "locked"}   \* mutant of Confirms
Confirms(c) == verdict[c] = "authorized"

(* The response is written; an authorised one leaves a goroutine behind.   *)
Answer(c) ==
  /\ vpc[c] = "answer"
  /\ IF Confirms(c)
     THEN GotoV(c, "confirmed") /\ UNCHANGED <<guess, verdict, seen>>
     ELSE Release(c)
  /\ UNCHANGED <<storeVars, failures, lockLeft, hash, hostVars, evaluated>>

--------------------------------------------------------------------------------
(***************************************************************************)
(* The daemon, the clock and the machine.                                  *)
(***************************************************************************)

(* The minute of the cooldown passes; when it is over guessing is free.    *)
Tick ==
  /\ Locked
  /\ lockLeft' = lockLeft - 1
  /\ evaluated' = IF lockLeft' = 0 THEN 0 ELSE evaluated
  /\ UNCHANGED <<storeVars, failures, vpc, guess, hash, verdict, hostVars, seen>>

(* Everything the process held in memory is gone: the lockout, the         *)
(* requests, and the goroutines that were about to run the wrapper.        *)
ForgetAll ==
  /\ StoreStop
  /\ failures' = 0
  /\ lockLeft' = 0
  /\ vpc' = [c \in Callers |-> "idle"]
  /\ guess' = [c \in Callers |-> WrongPassword]
  /\ hash' = [c \in Callers |-> NoHash]
  /\ verdict' = [c \in Callers |-> "none"]
  /\ seen' = [c \in Callers |-> {}]
  /\ evaluated' = 0

(* SIGTERM: srv.Shutdown lets the handlers run on, new requests are refused. *)
Terminate ==
  /\ daemon = "up"
  /\ daemon' = "stopping"
  /\ UNCHANGED <<storeVars, verifyVars, machine, ghostVars>>

(* main returns, Shutdown's five seconds being enough or not, or the       *)
(* process is killed.                                                      *)
Exit ==
  /\ daemon # "down"
  /\ ForgetAll
  /\ daemon' = "down"
  /\ UNCHANGED machine

Start ==
  /\ daemon = "down"
  /\ daemon' = "up"
  /\ machine' = "on"
  /\ UNCHANGED <<storeVars, verifyVars, ghostVars>>

(* The goroutine: a second later it runs sudo -n <wrapper>.                *)
Trigger(c) ==
  /\ vpc[c] = "confirmed"
  /\ \/ /\ GotoV(c, "clean")
        /\ UNCHANGED <<guess, verdict, seen>>
     \/ "sudo" \in WrapperFaults /\ Release(c)
  /\ UNCHANGED <<storeVars, failures, lockLeft, hash, hostVars, evaluated>>

GivesUp(c) == Release(c)                            \* mutant of Escalate
Escalate(c) == GotoV(c, "forced") /\ UNCHANGED <<guess, verdict, seen>>

PowerOff ==
  /\ machine' = "off"
  /\ daemon' = "down"
  /\ ForgetAll

(* The wrapper: systemctl poweroff, escalating to a forced one when it is  *)
(* refused; only when that fails too does Trigger return an error.         *)
CleanPoweroff(c) ==
  /\ vpc[c] = "clean"
  /\ \/ PowerOff
     \/ /\ "clean" \in WrapperFaults
        /\ Escalate(c)
        /\ UNCHANGED <<storeVars, failures, lockLeft, hash, hostVars, evaluated>>

ForcedPoweroff(c) ==
  /\ vpc[c] = "forced"
  /\ \/ PowerOff
     \/ /\ "forced" \in WrapperFaults
        /\ Release(c)
        /\ UNCHANGED <<storeVars, failures, lockLeft, hash, hostVars, evaluated>>

ServeCaller(c) ==
  \/ CheckLock(c) \/ LoadArmed(c) \/ Compare(c) \/ Answer(c)
  \/ Trigger(c) \/ CleanPoweroff(c) \/ ForcedPoweroff(c)

Next ==
  \/ \E r \in Requests : AdminReceive(r) \/ AdminServe(r)
  \/ \E c \in Callers : Arrive(c) \/ ServeCaller(c)
  \/ Edit
  \/ Tick \/ Terminate \/ Exit \/ Start

Spec == Init /\ [][Next]_vars

(* Handlers, goroutines and the clock go on.  Nobody is obliged to call,   *)
(* to edit the file, to stop the daemon or to start it again: after a      *)
(* SIGTERM systemd (Restart=on-failure) leaves it stopped.                 *)
Fairness ==
  /\ \A c \in Callers : WF_vars(ServeCaller(c))
  /\ \A r \in Requests : WF_vars(AdminServe(r)) /\ SF_vars(AdminServe(r) /\ Lock(r))
  /\ WF_vars(Tick)

FairSpec == Spec /\ Fairness

--------------------------------------------------------------------------------
(***************************************************************************)
(* Properties.                                                             *)
(***************************************************************************)

TypeOK ==
  /\ StoreTypeOK
  /\ failures \in 0 .. MaxFailures - 1
  /\ lockLeft \in 0 .. LockoutTicks
  /\ vpc \in [Callers -> {"idle", "check", "load", "compare", "answer",
                          "confirmed", "clean", "forced"}]
  /\ guess \in [Callers -> Guesses]
  /\ hash \in [Callers -> Passwords \cup {NoHash}]
  /\ verdict \in [Callers -> {"none", "locked", "not_armed", "wrong", "authorized"}]
  /\ daemon \in {"up", "stopping", "down"}
  /\ machine \in {"on", "off"}
  /\ seen \in [Callers -> SUBSET DiskContent]
  /\ evaluated \in Nat

(* Every verdict was true of the file at some moment between the request's *)
(* arrival and its answer: the configuration is read live                  *)
(* (shutdown.go:69-70), so no caller is authorised by a password that was  *)
(* replaced before it called, or turned away by a disarming that was over. *)
VerdictWasTrue ==
  \A c \in Callers :
    /\ verdict[c] = "authorized" =>
         \E d \in seen[c] : EffectivelyArmed(d) /\ Loaded(d).hash = guess[c]
    /\ verdict[c] = "wrong" =>
         \E d \in seen[c] : EffectivelyArmed(d) /\ Loaded(d).hash # guess[c]
    /\ verdict[c] = "not_armed" =>
         \E d \in seen[c] : ~EffectivelyArmed(d)

(* The machine goes off only for a caller whose password was the armed one *)
(* at some moment of its own request (api.go:395-399, 421-431).            *)
PowerOffIsAuthorized ==
  [][machine = "on" /\ machine' = "off" =>
       \E c \in Callers :
         /\ vpc[c] \in {"clean", "forced"}
         /\ \E d \in seen[c] : EffectivelyArmed(d) /\ Loaded(d).hash = guess[c]]_vars

(* Between two moments of free guessing at most MaxFailures wrong          *)
(* passwords are compared, plus those of the callers that were already     *)
(* past the lock check when the cooldown began (shutdown.go:162-183).      *)
GuessBudget ==
  /\ ~Locked => evaluated < MaxFailures
  /\ evaluated <= MaxFailures + Cardinality(Callers) - 1

(* A step of a caller that does not know the password never shortens a     *)
(* cooldown: only the clock, a correct password and a restart do           *)
(* (shutdown.go:202-217).                                                  *)
CooldownOnlyEndsFor ==
  [][lockLeft' < lockLeft =>
       \/ lockLeft' = lockLeft - 1 /\ UNCHANGED <<vpc, verdict>>
       \/ lockLeft' = 0 /\ daemon' = "down"
       \/ lockLeft' = 0 /\ \E c \in Callers : verdict'[c] = "authorized" /\ verdict[c] = "none"]_vars

(* Every caller gets an answer, or the daemon dies first.                  *)
CallersAreAnswered == \A c \in Callers : vpc[c] = "check" ~> ~InVerify(c) /\ vpc[c] # "answer"

(* A confirmed caller's machine powers off, escalating past a refused      *)
(* clean poweroff (hostek:170-189), unless the daemon dies in between.     *)
ConfirmedPowersOffOrDaemonDies ==
  \A c \in Callers :
    vpc[c] = "confirmed" ~> machine = "off" \/ daemon = "down"

(* api.go:397-398: "On success the machine powers off shortly after this   *)
(* response is flushed".  A daemon that is stopped in the second between   *)
(* the response and the trigger forgets its promise.                       *)
ConfirmedPowersOff ==
  \A c \in Callers : vpc[c] = "confirmed" ~> machine = "off"

--------------------------------------------------------------------------------
(***************************************************************************)
(* The inductive invariant behind the safety properties.                   *)
(***************************************************************************)

(* The history is complete: an unfinished Verify has seen the present file. *)
SeesTheFile == \A c \in Callers : InVerify(c) => disk \in seen[c]

(* The hash being compared was the armed one at some moment of the request. *)
HashWasArmed ==
  \A c \in Callers : vpc[c] = "compare" =>
    \E d \in seen[c] : EffectivelyArmed(d) /\ Loaded(d).hash = hash[c]

VerdictFitsStage ==
  \A c \in Callers :
    /\ vpc[c] = "idle" \/ InVerify(c) => verdict[c] = "none"
    /\ vpc[c] \in {"confirmed", "clean", "forced"} => verdict[c] = "authorized"

AdmittedCallers == {c \in Callers : Admitted(c)}

(* While guessing is free every evaluated wrong password is counted; once  *)
(* it is not, only the callers already admitted can add to it.             *)
Budget ==
  /\ ~Locked => evaluated <= failures
  /\ Locked => evaluated + Cardinality(AdmittedCallers) <= MaxFailures + Cardinality(Callers) - 1

NotAusInv ==
  TypeOK /\ SeesTheFile /\ HashWasArmed /\ VerdictFitsStage /\ VerdictWasTrue /\ Budget

--------------------------------------------------------------------------------
(***************************************************************************)
(* Refinement: Verify and the goroutine behind it are the one judgement of *)
(* module PowerButton, made when the file is read.                         *)
(***************************************************************************)
ButtonOf(d) == IF EffectivelyArmed(d) THEN Loaded(d).hash ELSE NoHash

Tried == [c \in Callers |-> IF vpc[c] = "idle" THEN NoHash ELSE guess[c]]

(* A password that was read is judged, though not compared yet.            *)
Judged ==
  [c \in Callers |->
    CASE vpc[c] \in {"check", "load"} -> "asked"
      [] vpc[c] = "compare" -> IF guess[c] = hash[c] THEN "authorized" ELSE "wrong"
      [] OTHER -> verdict[c]]

Button == INSTANCE PowerButton
            WITH button <- ButtonOf(disk), tried <- Tried, judged <- Judged, Nothing <- NoHash

(* Every caller is judged at one instant of its own request by the button  *)
(* as it is then (shutdown.go:69-70), and only a caller judged right       *)
(* switches the machine off (api.go:395-399), whatever is reconfigured,    *)
(* stopped or refused between the steps.                                   *)
ImplementsButton == Button!Spec
================================================================================
