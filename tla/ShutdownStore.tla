----------------------------- MODULE ShutdownStore -----------------------------
(***************************************************************************)
(* The on-disk Not-Aus configuration of backend/internal/shutdown and the  *)
(* handler that changes it, api.setShutdownConfig.  Several administrator  *)
(* requests run at once; each applies its password, then its arm flag, and *)
(* each of the two is a load-change-save of one JSON file under stateMu.   *)
(*                                                                         *)
(* Abstractions: a bcrypt hash is the password it was made from (comparing *)
(* is then equality); the stamp (updatedBy, updatedAt) is left out; an I/O *)
(* error of load and invalid JSON are the same Unreadable content.         *)
(***************************************************************************)
EXTENDS Naturals, FiniteSets

CONSTANTS
  Requests,       \* administrator requests being served at the same time
  Passwords,      \* passwords of an acceptable length
  BadLength,      \* a password SetPassword rejects for its length
  Keep,           \* the request does not mention the password
  NoHash,         \* the empty hash: no password was ever set
  Missing,        \* the state file does not exist
  Unreadable,     \* the state file cannot be read or parsed
  Free,           \* stateMu is not held
  ExternalEdits,  \* contents somebody else may leave in the state file
  SaveFaults      \* which halves of save may fail: "temp", "rename"

State == [armed : BOOLEAN, hash : Passwords \cup {NoHash}]
ZeroState == [armed |-> FALSE, hash |-> NoHash]
DiskContent == State \cup {Missing, Unreadable}

ASSUME DistinctNames ==
  /\ Keep \notin Passwords \cup {BadLength}
  /\ BadLength \notin Passwords
  /\ NoHash \notin Passwords
  /\ Missing \notin State /\ Unreadable \notin State /\ Missing # Unreadable
  /\ Free \notin Requests

(* Whoever edits the file by hand leaves a record hostekd could have       *)
(* written, deletes it, or breaks it.                                      *)
ASSUME EditsAreSane ==
  /\ ExternalEdits \subseteq DiskContent
  /\ \A d \in ExternalEdits \cap State : d.armed => d.hash # NoHash

VARIABLES
  disk,      \* content of the state file
  stateMu,   \* the request holding stateMu, or Free
  pc,        \* where each request is
  body,      \* its decoded JSON body
  field,     \* the mutator it is running: "password" or "armed"
  local,     \* its copy of the record, between load and save
  reply      \* how it was answered

storeVars == <<disk, stateMu, pc, body, field, local, reply>>

Body == [password : Passwords \cup {BadLength, Keep}, armed : {"keep", "on", "off"}]
EmptyBody == [password |-> Keep, armed |-> "keep"]

Critical == {"load", "mutate", "temp", "rename"}   \* the pcs under stateMu

(***************************************************************************)
(* load, and the two predicates the rest of the package asks of a content. *)
(***************************************************************************)
Loaded(d) == IF d = Missing THEN ZeroState ELSE d
Readable(d) == d # Unreadable
EffectivelyArmed(d) ==
  Readable(d) /\ Loaded(d).armed /\ Loaded(d).hash # NoHash
Configured(d) == Readable(d) /\ Loaded(d).hash # NoHash

StoreInit ==
  /\ disk = Missing
  /\ stateMu = Free
  /\ pc = [r \in Requests |-> "idle"]
  /\ body = [r \in Requests |-> EmptyBody]
  /\ field = [r \in Requests |-> "password"]
  /\ local = [r \in Requests |-> ZeroState]
  /\ reply = [r \in Requests |-> "none"]

--------------------------------------------------------------------------------
(***************************************************************************)
(* The handler.                                                            *)
(***************************************************************************)

Goto(r, label) == pc' = [pc EXCEPT ![r] = label]

(* Nothing to change, or a password SetPassword rejects before the lock.   *)
BadRequest(b) == b = EmptyBody \/ b.password = BadLength

(* The password mutator runs before the arm mutator.                       *)
ArmFirst(b) == IF b.armed = "keep" THEN "password" ELSE "armed"   \* mutant of FirstField
FirstField(b) == IF b.password = Keep THEN "armed" ELSE "password"

Receive(r) ==
  /\ pc[r] = "idle"
  /\ \E b \in Body :
       /\ body' = [body EXCEPT ![r] = b]
       /\ field' = [field EXCEPT ![r] = FirstField(b)]
       /\ IF BadRequest(b)
          THEN Goto(r, "done") /\ reply' = [reply EXCEPT ![r] = "bad_request"]
          ELSE Goto(r, "lock") /\ reply' = [reply EXCEPT ![r] = "none"]
  /\ UNCHANGED <<disk, stateMu, local>>

LockNobodyExcluded(r) ==                            \* mutant of Lock
  /\ pc[r] = "lock"
  /\ stateMu' = r
  /\ Goto(r, "load")
  /\ UNCHANGED <<disk, body, field, local, reply>>

Lock(r) ==
  /\ pc[r] = "lock"
  /\ stateMu = Free
  /\ stateMu' = r
  /\ Goto(r, "load")
  /\ UNCHANGED <<disk, body, field, local, reply>>

(* update returns an error: the deferred unlock runs, the handler answers, *)
(* and the mutators that were still to come are not run.                   *)
FailUpdateLocked(r, why) ==                         \* mutant of FailUpdate
  /\ reply' = [reply EXCEPT ![r] = why]
  /\ local' = [local EXCEPT ![r] = ZeroState]
  /\ Goto(r, "done")
  /\ UNCHANGED <<disk, stateMu, body, field>>

FailUpdate(r, why) ==
  /\ stateMu' = Free
  /\ reply' = [reply EXCEPT ![r] = why]
  /\ local' = [local EXCEPT ![r] = ZeroState]
  /\ Goto(r, "done")
  /\ UNCHANGED <<disk, body, field>>

Load(r) ==
  /\ pc[r] = "load"
  /\ \/ /\ Readable(disk)
        /\ local' = [local EXCEPT ![r] = Loaded(disk)]
        /\ Goto(r, "mutate")
        /\ UNCHANGED <<disk, stateMu, body, field, reply>>
     \/ ~Readable(disk) /\ FailUpdate(r, "error")

(* Arming needs a password: SetArmed's mutate refuses with ErrNotConfigured. *)
AlwaysConfigured(r, st) == FALSE                    \* mutant of NotConfigured
NotConfigured(r, st) ==
  field[r] = "armed" /\ body[r].armed = "on" /\ st.hash = NoHash

ArmingStartsAfresh(r, st) ==                        \* mutant of Mutated
  IF field[r] = "password"
  THEN [st EXCEPT !.hash = body[r].password]
  ELSE [ZeroState EXCEPT !.armed = (body[r].armed = "on")]
Mutated(r, st) ==
  IF field[r] = "password"
  THEN [st EXCEPT !.hash = body[r].password]
  ELSE [st EXCEPT !.armed = (body[r].armed = "on")]

Mutate(r) ==
  /\ pc[r] = "mutate"
  /\ \/ NotConfigured(r, local[r]) /\ FailUpdate(r, "not_configured")
     \/ /\ ~NotConfigured(r, local[r])
        /\ local' = [local EXCEPT ![r] = Mutated(r, local[r])]
        /\ Goto(r, "temp")
        /\ UNCHANGED <<disk, stateMu, body, field, reply>>

(* save, first half: the temporary file is created, written and closed.    *)
SaveInPlace(r) ==                                   \* mutant of SaveTemp
  /\ pc[r] = "temp"
  /\ Goto(r, "rename")
  /\ disk' = Unreadable
  /\ UNCHANGED <<stateMu, body, field, local, reply>>

SaveTemp(r) ==
  /\ pc[r] = "temp"
  /\ \/ Goto(r, "rename") /\ UNCHANGED <<disk, stateMu, body, field, local, reply>>
     \/ "temp" \in SaveFaults /\ FailUpdate(r, "error")

(* The password mutator is followed by the arm mutator when both are asked. *)
HasNextField(r) == field[r] = "password" /\ body[r].armed # "keep"

(* save, second half: the rename publishes the record, update unlocks and  *)
(* the handler runs its next mutator or answers.                           *)
Publish(r) ==
  /\ disk' = local[r]
  /\ stateMu' = Free
  /\ local' = [local EXCEPT ![r] = ZeroState]
  /\ UNCHANGED body

SaveRename(r) ==
  /\ pc[r] = "rename"
  /\ \/ /\ HasNextField(r)
        /\ Publish(r)
        /\ Goto(r, "lock")
        /\ field' = [field EXCEPT ![r] = "armed"]
        /\ UNCHANGED reply
     \/ /\ ~HasNextField(r)
        /\ Publish(r)
        /\ Goto(r, "done")
        /\ reply' = [reply EXCEPT ![r] = "ok"]
        /\ UNCHANGED field
     \/ "rename" \in SaveFaults /\ FailUpdate(r, "error")

(* The response is written and the slot is free for another request.       *)
Reply(r) ==
  /\ pc[r] = "done"
  /\ Goto(r, "idle")
  /\ body' = [body EXCEPT ![r] = EmptyBody]
  /\ field' = [field EXCEPT ![r] = "password"]
  /\ reply' = [reply EXCEPT ![r] = "none"]
  /\ UNCHANGED <<disk, stateMu, local>>

(* The process is gone: locks, copies and requests with it, the file stays. *)
StoreStop ==
  /\ stateMu' = Free
  /\ pc' = [r \in Requests |-> "idle"]
  /\ body' = [r \in Requests |-> EmptyBody]
  /\ field' = [r \in Requests |-> "password"]
  /\ local' = [r \in Requests |-> ZeroState]
  /\ reply' = [r \in Requests |-> "none"]
  /\ UNCHANGED disk

ExternalEdit ==
  /\ \E d \in ExternalEdits : disk' = d
  /\ UNCHANGED <<stateMu, pc, body, field, local, reply>>

Serve(r) ==
  Lock(r) \/ Load(r) \/ Mutate(r) \/ SaveTemp(r) \/ SaveRename(r) \/ Reply(r)

StoreNext ==
  \/ \E r \in Requests : Receive(r) \/ Serve(r)
  \/ StoreStop

StoreSpec == StoreInit /\ [][StoreNext]_storeVars

(* The same with a file that others may write too.                         *)
SharedNext == StoreNext \/ ExternalEdit
SharedStoreSpec == StoreInit /\ [][SharedNext]_storeVars

(* A handler that was started runs on.  Go's mutex hands itself over to a  *)
(* waiter that has waited for a millisecond, so the lock is strongly fair. *)
StoreFairness == \A r \in Requests : WF_storeVars(Serve(r)) /\ SF_storeVars(Lock(r))

FairStoreSpec == StoreSpec /\ StoreFairness

--------------------------------------------------------------------------------
(***************************************************************************)
(* Properties.                                                             *)
(***************************************************************************)

StoreTypeOK ==
  /\ disk \in DiskContent
  /\ stateMu \in Requests \cup {Free}
  /\ pc \in [Requests -> {"idle", "lock", "done"} \cup Critical]
  /\ body \in [Requests -> Body]
  /\ field \in [Requests -> {"password", "armed"}]
  /\ local \in [Requests -> State]
  /\ reply \in [Requests -> {"none", "ok", "bad_request", "not_configured", "error"}]

(* The record is never armed without a password (shutdown.go:128-139),     *)
(* whatever requests overlap, fail or are cut off by a restart: the login  *)
(* page would otherwise carry a button nobody could be authorised to use.  *)
ArmedImpliesConfigured ==
  disk \in State /\ disk.armed => disk.hash # NoHash

(* A copy taken under stateMu is still the file when it is written back,   *)
(* up to the one field its owner is changing (shutdown.go:72-77): nobody's *)
(* change is overwritten by somebody's stale copy.                         *)
NoStaleCopy ==
  ExternalEdits = {} =>
    \A r \in Requests :
      /\ pc[r] = "mutate" => local[r] = Loaded(disk)
      /\ pc[r] \in {"temp", "rename"} => local[r] = Mutated(r, Loaded(disk))

(* A crash between any two steps of save leaves a whole record behind,     *)
(* never half of one (shutdown.go:240-265).                                *)
NeverTorn == Unreadable \notin ExternalEdits => Readable(disk)

(* A request that brings a password is never told to set one first         *)
(* (api.go:338-340, "a set-and-arm in one request succeeds"), however many *)
(* others run in between.                                                  *)
SetAndArmIsAccepted ==
  ExternalEdits = {} =>
    \A r \in Requests : reply[r] = "not_configured" => body[r].password = Keep

(* Once a password is set no request and no crash takes it away again.     *)
PasswordIsNeverLost ==
  [][ExternalEdits = {} => (Configured(disk) => Configured(disk'))]_storeVars

(* Every request that entered the queue for stateMu is answered or dies    *)
(* with the daemon: no error path leaves the lock held.                    *)
RequestsAreAnswered == \A r \in Requests : pc[r] = "lock" ~> pc[r] = "idle"

--------------------------------------------------------------------------------
(***************************************************************************)
(* The inductive invariant behind them.                                    *)
(***************************************************************************)

Pending(r) == pc[r] = "lock" \/ pc[r] \in Critical

(* The requests inside update are exactly the holder of stateMu.           *)
OneWriter == \A r \in Requests : pc[r] \in Critical <=> stateMu = r

(* A pending mutator has the argument it needs.                            *)
HasArgument ==
  \A r \in Requests : Pending(r) =>
    /\ field[r] = "password" => body[r].password \in Passwords
    /\ field[r] = "armed" => body[r].armed \in {"on", "off"}

(* No copy is armed without a password: saving one is always safe.         *)
CopiesAreSane ==
  \A r \in Requests :
    pc[r] \in {"mutate", "temp", "rename"} => (local[r].armed => local[r].hash # NoHash)

(* When the arm half of a two-part request runs its password is saved.     *)
PasswordFirst ==
  ExternalEdits = {} =>
    \A r \in Requests :
      Pending(r) /\ field[r] = "armed" /\ body[r].password # Keep => Configured(disk)

StoreInv ==
  /\ StoreTypeOK
  /\ OneWriter
  /\ HasArgument
  /\ CopiesAreSane
  /\ ArmedImpliesConfigured
  /\ NeverTorn
  /\ NoStaleCopy
  /\ PasswordFirst
  /\ SetAndArmIsAccepted

--------------------------------------------------------------------------------
(***************************************************************************)
(* Refinement: the load-change-save under stateMu is the atomic change of  *)
(* module ArmRegister.                                                     *)
(***************************************************************************)
Changes ==
  [field : {"password"}, value : Passwords] \cup [field : {"armed"}, value : {"on", "off"}]
NoChange == [field |-> "none", value |-> "none"]

ChangeRefused(c, st) == c.field = "armed" /\ c.value = "on" /\ st.hash = NoHash
ChangeResult(c, st) ==
  IF c.field = "password"
  THEN [st EXCEPT !.hash = c.value]
  ELSE [st EXCEPT !.armed = (c.value = "on")]

Asked ==
  [r \in Requests |->
     IF ~Pending(r) THEN NoChange
     ELSE IF field[r] = "password"
          THEN [field |-> "password", value |-> body[r].password]
          ELSE [field |-> "armed", value |-> body[r].armed]]

Register == INSTANCE ArmRegister WITH
  record <- Loaded(disk), asked <- Asked,
  InitialRecord <- ZeroState,
  Refuses <- ChangeRefused, Result <- ChangeResult

(* The file behaves as one record changed atomically, one field at a time  *)
(* (shutdown.go:141-145), as long as nobody edits it by hand.              *)
ImplementsRegister == Register!Spec
================================================================================
