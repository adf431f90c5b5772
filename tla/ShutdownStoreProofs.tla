-------------------------- MODULE ShutdownStoreProofs --------------------------
(***************************************************************************)
(* Proofs about ShutdownStore, for any number of requests and passwords.   *)
(***************************************************************************)
EXTENDS ShutdownStore, TLAPS

(* The record of a missing file is a record.                               *)
LEMMA ZeroIsState == ZeroState \in State
BY DEF ZeroState, State

(* A copy that load returned is a record, and a sane one.                  *)
LEMMA LoadedIsState ==
  ASSUME NEW d \in DiskContent, Readable(d)
  PROVE  Loaded(d) \in State
BY DistinctNames DEF DiskContent, Loaded, Readable, State, ZeroState

(* A mutator maps a record to a record.                                    *)
LEMMA MutatedIsState ==
  ASSUME StoreTypeOK, HasArgument, NEW r \in Requests, Pending(r), NEW st \in State
  PROVE  Mutated(r, st) \in State
BY DEF StoreTypeOK, HasArgument, Mutated, State, Body

(* It never produces an armed record without a password from a sane one:   *)
(* arming was refused for an empty hash, and a password is never empty.    *)
LEMMA MutatedIsSane ==
  ASSUME StoreTypeOK, HasArgument, NEW r \in Requests, Pending(r), NEW st \in State,
         ~NotConfigured(r, st), st.armed => st.hash # NoHash
  PROVE  Mutated(r, st).armed => Mutated(r, st).hash # NoHash
BY DistinctNames DEF StoreTypeOK, HasArgument, Mutated, NotConfigured, State, Body

(* The store starts in its invariant.                                      *)
LEMMA InitStoreInv == StoreInit => StoreInv
<1> SUFFICES ASSUME StoreInit PROVE StoreInv
  OBVIOUS
<1> USE DEF StoreInit, ZeroState, EmptyBody
<1>1. StoreTypeOK
  BY DEF StoreTypeOK, DiskContent, State, Body, Critical
<1>2. OneWriter
  BY DistinctNames DEF OneWriter, Critical
<1>3. HasArgument /\ CopiesAreSane /\ NoStaleCopy /\ PasswordFirst
  BY DEF HasArgument, CopiesAreSane, NoStaleCopy, PasswordFirst, Pending, Critical
<1>4. ArmedImpliesConfigured
  BY DistinctNames DEF ArmedImpliesConfigured
<1>5. SetAndArmIsAccepted /\ NeverTorn
  BY DistinctNames DEF SetAndArmIsAccepted, NeverTorn, Readable
<1> QED
  BY <1>1, <1>2, <1>3, <1>4, <1>5 DEF StoreInv

(***************************************************************************)
(* Type correctness, one step per action.                                  *)
(***************************************************************************)
LEMMA StoreTypeStep == StoreInv /\ [SharedNext]_storeVars => StoreTypeOK'
<1> SUFFICES ASSUME StoreInv, [SharedNext]_storeVars PROVE StoreTypeOK'
  OBVIOUS
<1> USE DEF StoreInv, StoreTypeOK, Critical, Goto
<1>1. ASSUME NEW r \in Requests, Receive(r) PROVE StoreTypeOK'
  BY <1>1 DEF Receive, FirstField
<1>2. ASSUME NEW r \in Requests, Lock(r) PROVE StoreTypeOK'
  BY <1>2 DEF Lock
<1>3. ASSUME NEW r \in Requests, Load(r) PROVE StoreTypeOK'
  BY <1>3, LoadedIsState, ZeroIsState DEF Load, FailUpdate
<1>4. ASSUME NEW r \in Requests, Mutate(r) PROVE StoreTypeOK'
  <2>1. Pending(r)
    BY <1>4 DEF Mutate, Pending
  <2> QED
    BY <1>4, <2>1, MutatedIsState, ZeroIsState DEF Mutate, FailUpdate
<1>5. ASSUME NEW r \in Requests, SaveTemp(r) PROVE StoreTypeOK'
  BY <1>5, ZeroIsState DEF SaveTemp, FailUpdate
<1>6. ASSUME NEW r \in Requests, SaveRename(r) PROVE StoreTypeOK'
  BY <1>6, ZeroIsState DEF SaveRename, Publish, FailUpdate, DiskContent
<1>7. ASSUME NEW r \in Requests, Reply(r) PROVE StoreTypeOK'
  BY <1>7 DEF Reply, EmptyBody, Body
<1>8. CASE StoreStop
  BY <1>8, ZeroIsState DEF StoreStop, EmptyBody, Body
<1>9. CASE ExternalEdit
  BY <1>9, EditsAreSane DEF ExternalEdit
<1>10. CASE UNCHANGED storeVars
  BY <1>10 DEF storeVars
<1> QED
  BY <1>1, <1>2, <1>3, <1>4, <1>5, <1>6, <1>7, <1>8, <1>9, <1>10 DEF StoreNext, SharedNext, Serve

(***************************************************************************)
(* Mutual exclusion, and that a pending mutator keeps its argument.        *)
(***************************************************************************)
LEMMA OneWriterStep == StoreInv /\ [SharedNext]_storeVars => OneWriter'
<1> SUFFICES ASSUME StoreInv, [SharedNext]_storeVars PROVE OneWriter'
  OBVIOUS
<1> USE DistinctNames DEF StoreInv, StoreTypeOK, OneWriter, Critical, Goto
<1>1. ASSUME NEW r \in Requests, Receive(r) PROVE OneWriter'
  BY <1>1 DEF Receive, FirstField
<1>2. ASSUME NEW r \in Requests, Lock(r) PROVE OneWriter'
  BY <1>2 DEF Lock
<1>3. ASSUME NEW r \in Requests, Load(r) PROVE OneWriter'
  BY <1>3 DEF Load, FailUpdate
<1>4. ASSUME NEW r \in Requests, Mutate(r) PROVE OneWriter'
  BY <1>4 DEF Mutate, FailUpdate
<1>5. ASSUME NEW r \in Requests, SaveTemp(r) PROVE OneWriter'
  BY <1>5 DEF SaveTemp, FailUpdate
<1>6. ASSUME NEW r \in Requests, SaveRename(r) PROVE OneWriter'
  BY <1>6 DEF SaveRename, Publish, FailUpdate
<1>7. ASSUME NEW r \in Requests, Reply(r) PROVE OneWriter'
  BY <1>7 DEF Reply
<1>8. CASE StoreStop
  BY <1>8 DEF StoreStop
<1>9. CASE ExternalEdit
  BY <1>9 DEF ExternalEdit
<1>10. CASE UNCHANGED storeVars
  BY <1>10 DEF storeVars
<1> QED
  BY <1>1, <1>2, <1>3, <1>4, <1>5, <1>6, <1>7, <1>8, <1>9, <1>10 DEF StoreNext, SharedNext, Serve

(* A mutator under way has its argument: the decoded body does not change  *)
(* before the reply.                                                       *)
LEMMA HasArgumentStep == StoreInv /\ [SharedNext]_storeVars => HasArgument'
<1> SUFFICES ASSUME StoreInv, [SharedNext]_storeVars PROVE HasArgument'
  OBVIOUS
<1> USE DEF StoreInv, StoreTypeOK, HasArgument, Pending, Critical, Goto
<1>1. ASSUME NEW r \in Requests, Receive(r) PROVE HasArgument'
  BY <1>1 DEF Receive, FirstField, BadRequest, Body, EmptyBody
<1>2. ASSUME NEW r \in Requests, Lock(r) PROVE HasArgument'
  BY <1>2 DEF Lock
<1>3. ASSUME NEW r \in Requests, Load(r) PROVE HasArgument'
  BY <1>3 DEF Load, FailUpdate
<1>4. ASSUME NEW r \in Requests, Mutate(r) PROVE HasArgument'
  BY <1>4 DEF Mutate, FailUpdate
<1>5. ASSUME NEW r \in Requests, SaveTemp(r) PROVE HasArgument'
  BY <1>5 DEF SaveTemp, FailUpdate
<1>6. ASSUME NEW r \in Requests, SaveRename(r) PROVE HasArgument'
  BY <1>6 DEF SaveRename, Publish, FailUpdate, HasNextField, Body
<1>7. ASSUME NEW r \in Requests, Reply(r) PROVE HasArgument'
  BY <1>7 DEF Reply
<1>8. CASE StoreStop
  BY <1>8 DEF StoreStop
<1>9. CASE ExternalEdit
  BY <1>9 DEF ExternalEdit
<1>10. CASE UNCHANGED storeVars
  BY <1>10 DEF storeVars
<1> QED
  BY <1>1, <1>2, <1>3, <1>4, <1>5, <1>6, <1>7, <1>8, <1>9, <1>10 DEF StoreNext, SharedNext, Serve

(***************************************************************************)
(* Nothing armed without a password: not a copy, and not the file.         *)
(***************************************************************************)
LEMMA LoadedIsSane ==
  ASSUME NEW d \in DiskContent, Readable(d), d \in State /\ d.armed => d.hash # NoHash
  PROVE  Loaded(d).armed => Loaded(d).hash # NoHash
BY DEF Loaded, DiskContent, Readable, ZeroState

(* No copy between load and save is armed without a password.              *)
LEMMA CopiesAreSaneStep == StoreInv /\ [SharedNext]_storeVars => CopiesAreSane'
<1> SUFFICES ASSUME StoreInv, [SharedNext]_storeVars PROVE CopiesAreSane'
  OBVIOUS
<1> USE DEF StoreInv, StoreTypeOK, Critical, Goto, CopiesAreSane
<1>1. ASSUME NEW r \in Requests, Receive(r) PROVE CopiesAreSane'
  BY <1>1 DEF Receive, FirstField, BadRequest, EmptyBody, Body
<1>2. ASSUME NEW r \in Requests, Lock(r) PROVE CopiesAreSane'
  BY <1>2 DEF Lock
<1>3. ASSUME NEW r \in Requests, Load(r) PROVE CopiesAreSane'
  BY <1>3, LoadedIsSane DEF Load, FailUpdate, ArmedImpliesConfigured
<1>4. ASSUME NEW r \in Requests, Mutate(r) PROVE CopiesAreSane'
  <2>1. Pending(r) /\ local[r] \in State
    BY <1>4 DEF Mutate, Pending
  <2> QED
    BY <1>4, <2>1, MutatedIsSane DEF Mutate, FailUpdate, Pending
<1>5. ASSUME NEW r \in Requests, SaveTemp(r) PROVE CopiesAreSane'
  BY <1>5 DEF SaveTemp, FailUpdate
<1>6. ASSUME NEW r \in Requests, SaveRename(r) PROVE CopiesAreSane'
  BY <1>6 DEF SaveRename, Publish, FailUpdate
<1>7. ASSUME NEW r \in Requests, Reply(r) PROVE CopiesAreSane'
  BY <1>7 DEF Reply, EmptyBody, Body
<1>8. CASE StoreStop
  BY <1>8 DEF StoreStop
<1>9. CASE ExternalEdit
  BY <1>9 DEF ExternalEdit
<1>10. CASE UNCHANGED storeVars
  BY <1>10 DEF storeVars
<1> QED
  BY <1>1, <1>2, <1>3, <1>4, <1>5, <1>6, <1>7, <1>8, <1>9, <1>10 DEF StoreNext, SharedNext, Serve

(* No step leaves an armed file without a password.                        *)
LEMMA ArmedImpliesConfiguredStep == StoreInv /\ [SharedNext]_storeVars => ArmedImpliesConfigured'
<1> SUFFICES ASSUME StoreInv, [SharedNext]_storeVars PROVE ArmedImpliesConfigured'
  OBVIOUS
<1> USE DEF StoreInv, StoreTypeOK, Critical, Goto, ArmedImpliesConfigured
<1>1. ASSUME NEW r \in Requests, Receive(r) PROVE ArmedImpliesConfigured'
  BY <1>1 DEF Receive, FirstField, BadRequest, EmptyBody, Body
<1>2. ASSUME NEW r \in Requests, Lock(r) PROVE ArmedImpliesConfigured'
  BY <1>2 DEF Lock
<1>3. ASSUME NEW r \in Requests, Load(r) PROVE ArmedImpliesConfigured'
  BY <1>3 DEF Load, FailUpdate
<1>4. ASSUME NEW r \in Requests, Mutate(r) PROVE ArmedImpliesConfigured'
  BY <1>4 DEF Mutate, FailUpdate
<1>5. ASSUME NEW r \in Requests, SaveTemp(r) PROVE ArmedImpliesConfigured'
  BY <1>5 DEF SaveTemp, FailUpdate
<1>6. ASSUME NEW r \in Requests, SaveRename(r) PROVE ArmedImpliesConfigured'
  BY <1>6 DEF SaveRename, Publish, FailUpdate, CopiesAreSane
<1>7. ASSUME NEW r \in Requests, Reply(r) PROVE ArmedImpliesConfigured'
  BY <1>7 DEF Reply, EmptyBody, Body
<1>8. CASE StoreStop
  BY <1>8 DEF StoreStop
<1>9. CASE ExternalEdit
  BY <1>9, EditsAreSane DEF ExternalEdit
<1>10. CASE UNCHANGED storeVars
  BY <1>10 DEF storeVars
<1> QED
  BY <1>1, <1>2, <1>3, <1>4, <1>5, <1>6, <1>7, <1>8, <1>9, <1>10 DEF StoreNext, SharedNext, Serve

(***************************************************************************)
(* No copy under the lock is stale: the file only changes at the rename of *)
(* the one request that is inside update.                                  *)
(***************************************************************************)
LEMMA NoStaleCopyStep == StoreInv /\ [SharedNext]_storeVars => NoStaleCopy'
<1> SUFFICES ASSUME StoreInv, [SharedNext]_storeVars PROVE NoStaleCopy'
  OBVIOUS
<1> USE DEF StoreInv, StoreTypeOK, Critical, Goto, NoStaleCopy, OneWriter, Mutated
<1>1. ASSUME NEW r \in Requests, Receive(r) PROVE NoStaleCopy'
  BY <1>1 DEF Receive, FirstField, BadRequest, EmptyBody, Body
<1>2. ASSUME NEW r \in Requests, Lock(r) PROVE NoStaleCopy'
  BY <1>2 DEF Lock
<1>3. ASSUME NEW r \in Requests, Load(r) PROVE NoStaleCopy'
  BY <1>3 DEF Load, FailUpdate
<1>4. ASSUME NEW r \in Requests, Mutate(r) PROVE NoStaleCopy'
  BY <1>4 DEF Mutate, FailUpdate
<1>5. ASSUME NEW r \in Requests, SaveTemp(r) PROVE NoStaleCopy'
  BY <1>5 DEF SaveTemp, FailUpdate
<1>6. ASSUME NEW r \in Requests, SaveRename(r) PROVE NoStaleCopy'
  BY <1>6 DEF SaveRename, Publish, FailUpdate
<1>7. ASSUME NEW r \in Requests, Reply(r) PROVE NoStaleCopy'
  BY <1>7 DEF Reply, EmptyBody, Body
<1>8. CASE StoreStop
  BY <1>8 DEF StoreStop
<1>9. CASE ExternalEdit
  BY <1>9 DEF ExternalEdit
<1>10. CASE UNCHANGED storeVars
  BY <1>10 DEF storeVars
<1> QED
  BY <1>1, <1>2, <1>3, <1>4, <1>5, <1>6, <1>7, <1>8, <1>9, <1>10 DEF StoreNext, SharedNext, Serve

(***************************************************************************)
(* Without hand edits a saved password stays: the rename writes back a     *)
(* fresh copy with at most its own field changed.                          *)
(***************************************************************************)
LEMMA SavedPasswordStays ==
  ASSUME StoreInv, ExternalEdits = {}, Configured(disk), [SharedNext]_storeVars
  PROVE  Configured(disk')
<1>1. ASSUME NEW r \in Requests, SaveRename(r), Publish(r) PROVE Configured(disk')
  <2>1. local[r] = Mutated(r, Loaded(disk)) /\ local[r] \in State /\ Pending(r)
    BY <1>1 DEF SaveRename, StoreInv, StoreTypeOK, NoStaleCopy, Pending, Critical
  <2>2. Loaded(disk) \in State /\ Loaded(disk).hash # NoHash
    BY LoadedIsState DEF Configured, StoreInv, StoreTypeOK
  <2>3. local[r].hash # NoHash
    <3>1. CASE field[r] = "password"
      BY <3>1, <2>1, <2>2, DistinctNames DEF Mutated, StoreInv, HasArgument, State
    <3>2. CASE field[r] # "password"
      BY <3>2, <2>1, <2>2 DEF Mutated, State
    <3> QED
      BY <3>1, <3>2
  <2>4. disk' = local[r] /\ disk' # Missing /\ disk' # Unreadable
    BY <1>1, <2>1, DistinctNames DEF Publish
  <2> QED
    BY <2>3, <2>4 DEF Configured, Readable, Loaded
<1>2. ASSUME disk' = disk PROVE Configured(disk')
  BY <1>2
<1>3. ASSUME NEW r \in Requests, Receive(r) \/ Serve(r) PROVE Configured(disk')
  BY <1>1, <1>2, <1>3 DEF Receive, FirstField, Serve, Lock, Load, Mutate, SaveTemp, SaveRename,
       Reply, FailUpdate
<1> QED
  BY <1>2, <1>3 DEF StoreNext, SharedNext, StoreStop, ExternalEdit, storeVars

(* A password is on file as soon as the request that brings it renames.    *)
LEMMA OwnPasswordIsSaved ==
  ASSUME StoreInv, ExternalEdits = {}, NEW r \in Requests,
         SaveRename(r), field[r] = "password", Publish(r)
  PROVE  Configured(disk')
<1>1. local[r] = Mutated(r, Loaded(disk)) /\ Loaded(disk) \in DiskContent \cup {ZeroState}
  BY DEF SaveRename, StoreInv, StoreTypeOK, NoStaleCopy, Loaded
<1>2. local[r] \in State /\ Pending(r) /\ body[r].password \in Passwords
  BY DEF SaveRename, StoreInv, StoreTypeOK, Pending, Critical, HasArgument
<1>3. Readable(disk)
  BY DEF StoreInv, NeverTorn
<1>4. Loaded(disk) \in State
  BY <1>3, LoadedIsState DEF StoreInv, StoreTypeOK
<1>5. local[r].hash \in Passwords
  BY <1>1, <1>2, <1>4 DEF Mutated, State
<1> QED
  BY <1>2, <1>5, DistinctNames DEF Publish, Configured, Readable, Loaded

(* No step of save leaves an unreadable file.                              *)
LEMMA NeverTornStep == StoreInv /\ [SharedNext]_storeVars => NeverTorn'
<1> SUFFICES ASSUME StoreInv, [SharedNext]_storeVars PROVE NeverTorn'
  OBVIOUS
<1> USE DEF StoreInv, StoreTypeOK, Critical, Goto, NeverTorn, Readable
<1>1. ASSUME NEW r \in Requests, Receive(r) PROVE NeverTorn'
  BY <1>1 DEF Receive, FirstField, BadRequest, EmptyBody, Body
<1>2. ASSUME NEW r \in Requests, Lock(r) PROVE NeverTorn'
  BY <1>2 DEF Lock
<1>3. ASSUME NEW r \in Requests, Load(r) PROVE NeverTorn'
  BY <1>3 DEF Load, FailUpdate
<1>4. ASSUME NEW r \in Requests, Mutate(r) PROVE NeverTorn'
  BY <1>4 DEF Mutate, FailUpdate
<1>5. ASSUME NEW r \in Requests, SaveTemp(r) PROVE NeverTorn'
  BY <1>5 DEF SaveTemp, FailUpdate
<1>6. ASSUME NEW r \in Requests, SaveRename(r) PROVE NeverTorn'
  BY <1>6, DistinctNames DEF SaveRename, Publish, FailUpdate
<1>7. ASSUME NEW r \in Requests, Reply(r) PROVE NeverTorn'
  BY <1>7 DEF Reply, EmptyBody, Body
<1>8. CASE StoreStop
  BY <1>8 DEF StoreStop
<1>9. CASE ExternalEdit
  BY <1>9 DEF ExternalEdit
<1>10. CASE UNCHANGED storeVars
  BY <1>10 DEF storeVars
<1> QED
  BY <1>1, <1>2, <1>3, <1>4, <1>5, <1>6, <1>7, <1>8, <1>9, <1>10 DEF StoreNext, SharedNext, Serve

(* The arm half of a two-part request finds its password saved.            *)
LEMMA PasswordFirstStep == StoreInv /\ [SharedNext]_storeVars => PasswordFirst'
<1> SUFFICES ASSUME StoreInv, [SharedNext]_storeVars PROVE PasswordFirst'
  OBVIOUS
<1> USE DEF StoreInv, StoreTypeOK, Critical, Goto, PasswordFirst, Pending
<1>1. ASSUME NEW r \in Requests, Receive(r) PROVE PasswordFirst'
  BY <1>1 DEF Receive, FirstField, BadRequest, EmptyBody, Body
<1>2. ASSUME NEW r \in Requests, Lock(r) PROVE PasswordFirst'
  BY <1>2 DEF Lock
<1>3. ASSUME NEW r \in Requests, Load(r) PROVE PasswordFirst'
  BY <1>3 DEF Load, FailUpdate
<1>4. ASSUME NEW r \in Requests, Mutate(r) PROVE PasswordFirst'
  BY <1>4 DEF Mutate, FailUpdate
<1>5. ASSUME NEW r \in Requests, SaveTemp(r) PROVE PasswordFirst'
  BY <1>5 DEF SaveTemp, FailUpdate
<1>6. ASSUME NEW r \in Requests, SaveRename(r) PROVE PasswordFirst'
  <2> SUFFICES ASSUME ExternalEdits = {}, NEW q \in Requests, Pending(q)', field'[q] = "armed",
                      body'[q].password # Keep
               PROVE  Configured(disk')
    BY <1>6
  <2>1. CASE Publish(r) /\ q = r /\ field[r] = "password"
    BY <1>6, <2>1, OwnPasswordIsSaved
  <2>2. CASE ~(Publish(r) /\ q = r /\ field[r] = "password")
    <3>1. Pending(q) /\ field[q] = "armed" /\ body[q].password # Keep
      BY <1>6, <2>2 DEF SaveRename, Publish, FailUpdate
    <3>2. Configured(disk)
      BY <3>1
    <3> QED
      BY <1>6, <3>2, SavedPasswordStays DEF StoreNext, SharedNext, Serve
  <2> QED
    BY <2>1, <2>2
<1>7. ASSUME NEW r \in Requests, Reply(r) PROVE PasswordFirst'
  BY <1>7 DEF Reply, EmptyBody, Body
<1>8. CASE StoreStop
  BY <1>8 DEF StoreStop
<1>9. CASE ExternalEdit
  BY <1>9 DEF ExternalEdit
<1>10. CASE UNCHANGED storeVars
  BY <1>10 DEF storeVars
<1> QED
  BY <1>1, <1>2, <1>3, <1>4, <1>5, <1>6, <1>7, <1>8, <1>9, <1>10 DEF StoreNext, SharedNext, Serve

(* Only a request without a password is told to set one first.             *)
LEMMA SetAndArmStep == StoreInv /\ [SharedNext]_storeVars => SetAndArmIsAccepted'
<1> SUFFICES ASSUME StoreInv, [SharedNext]_storeVars PROVE SetAndArmIsAccepted'
  OBVIOUS
<1> USE DEF StoreInv, StoreTypeOK, Critical, Goto, SetAndArmIsAccepted
<1>1. ASSUME NEW r \in Requests, Receive(r) PROVE SetAndArmIsAccepted'
  BY <1>1 DEF Receive, FirstField, BadRequest, EmptyBody, Body
<1>2. ASSUME NEW r \in Requests, Lock(r) PROVE SetAndArmIsAccepted'
  BY <1>2 DEF Lock
<1>3. ASSUME NEW r \in Requests, Load(r) PROVE SetAndArmIsAccepted'
  BY <1>3 DEF Load, FailUpdate
<1>4. ASSUME NEW r \in Requests, Mutate(r) PROVE SetAndArmIsAccepted'
  <2> SUFFICES ASSUME ExternalEdits = {}, NotConfigured(r, local[r]), FailUpdate(r, "not_configured"),
                      body[r].password # Keep
               PROVE  FALSE
    BY <1>4 DEF Mutate, FailUpdate
  <2>1. Configured(disk)
    BY <1>4 DEF PasswordFirst, Pending, NotConfigured, Mutate
  <2>2. local[r] = Loaded(disk)
    BY <1>4 DEF NoStaleCopy, Mutate
  <2> QED
    BY <2>1, <2>2 DEF Configured, NotConfigured
<1>5. ASSUME NEW r \in Requests, SaveTemp(r) PROVE SetAndArmIsAccepted'
  BY <1>5 DEF SaveTemp, FailUpdate
<1>6. ASSUME NEW r \in Requests, SaveRename(r) PROVE SetAndArmIsAccepted'
  BY <1>6 DEF SaveRename, Publish, FailUpdate
<1>7. ASSUME NEW r \in Requests, Reply(r) PROVE SetAndArmIsAccepted'
  BY <1>7 DEF Reply, EmptyBody, Body
<1>8. CASE StoreStop
  BY <1>8 DEF StoreStop
<1>9. CASE ExternalEdit
  BY <1>9 DEF ExternalEdit
<1>10. CASE UNCHANGED storeVars
  BY <1>10 DEF storeVars
<1> QED
  BY <1>1, <1>2, <1>3, <1>4, <1>5, <1>6, <1>7, <1>8, <1>9, <1>10 DEF StoreNext, SharedNext, Serve

(* Every step keeps the invariant of the store.                            *)
LEMMA StoreInvStep == StoreInv /\ [SharedNext]_storeVars => StoreInv'
BY StoreTypeStep, OneWriterStep, HasArgumentStep, CopiesAreSaneStep,
   ArmedImpliesConfiguredStep, NoStaleCopyStep, NeverTornStep, PasswordFirstStep,
   SetAndArmStep DEF StoreInv

(***************************************************************************)
(* The results.                                                            *)
(***************************************************************************)

(* Every invariant of the store holds in every reachable state.            *)
THEOREM StoreInvariant == SharedStoreSpec => []StoreInv
<1>1. StoreInit => StoreInv
  BY InitStoreInv
<1>2. StoreInv /\ [SharedNext]_storeVars => StoreInv'
  BY StoreInvStep
<1> QED
  BY <1>1, <1>2, PTL DEF SharedStoreSpec

(* The file is never armed without a password, and no request works on a   *)
(* stale copy of it.                                                       *)
THEOREM StoreIsSafe ==
  SharedStoreSpec => [](StoreTypeOK /\ ArmedImpliesConfigured /\ NoStaleCopy /\ NeverTorn
                  /\ SetAndArmIsAccepted)
<1>1. StoreInv => StoreTypeOK /\ ArmedImpliesConfigured /\ NoStaleCopy /\ NeverTorn
                  /\ SetAndArmIsAccepted
  BY DEF StoreInv
<1> QED
  BY <1>1, StoreInvariant, PTL

(* A crash or a failing write never leaves a torn file: temp file and      *)
(* rename, for any number of requests (shutdown.go:240-265).               *)
THEOREM FileStaysWhole == SharedStoreSpec => []NeverTorn
<1>1. StoreInv => NeverTorn
  BY DEF StoreInv
<1> QED
  BY <1>1, StoreInvariant, PTL

(* A request that sets a password and arms is never refused for want of a  *)
(* password, whatever runs between its two locked halves (api.go:354-375). *)
THEOREM SetAndArmSucceeds == SharedStoreSpec => []SetAndArmIsAccepted
<1>1. StoreInv => SetAndArmIsAccepted
  BY DEF StoreInv
<1> QED
  BY <1>1, StoreInvariant, PTL

(* A configured password is only ever replaced (shutdown.go:109-127).      *)
THEOREM PasswordStays == SharedStoreSpec => PasswordIsNeverLost
<1>1. StoreInv /\ [SharedNext]_storeVars =>
        [ExternalEdits = {} => (Configured(disk) => Configured(disk'))]_storeVars
  BY SavedPasswordStays
<1> QED
  BY <1>1, StoreInvariant, PTL DEF SharedStoreSpec, PasswordIsNeverLost

(***************************************************************************)
(* The load-change-save implements one atomic change.                      *)
(***************************************************************************)
LEMMA InitRefines == StoreInit => Register!Init
BY DistinctNames DEF StoreInit, Register!Init, Asked, Pending, Critical, Loaded

(* What SetArmed was allowed to do on its copy it may do on the file.      *)
LEMMA RenameIsNotRefused ==
  ASSUME StoreInv, ExternalEdits = {}, NEW r \in Requests, pc[r] = "rename"
  PROVE  /\ Asked[r] # NoChange
         /\ ~ChangeRefused(Asked[r], Loaded(disk))
         /\ local[r] = ChangeResult(Asked[r], Loaded(disk))
<1>1. Loaded(disk) \in State
  BY LoadedIsState DEF StoreInv, StoreTypeOK, NeverTorn
<1>2. local[r] = Mutated(r, Loaded(disk)) /\ (local[r].armed => local[r].hash # NoHash)
  BY DEF StoreInv, NoStaleCopy, CopiesAreSane
<1>3. field[r] \in {"password", "armed"} /\ Pending(r)
      /\ (field[r] = "armed" => body[r].armed \in {"on", "off"})
  BY DEF StoreInv, StoreTypeOK, Pending, Critical, HasArgument
<1>4. CASE field[r] = "password"
  BY <1>1, <1>2, <1>3, <1>4 DEF Asked, NoChange, ChangeRefused, ChangeResult, Mutated
<1>5. CASE field[r] = "armed"
  <2>1. Asked[r] = [field |-> "armed", value |-> body[r].armed]
    BY <1>3, <1>5 DEF Asked
  <2>2. local[r] = [Loaded(disk) EXCEPT !.armed = (body[r].armed = "on")]
    BY <1>2, <1>5 DEF Mutated
  <2>3. body[r].armed = "on" => Loaded(disk).hash # NoHash
    BY <1>1, <1>2, <2>2 DEF State
  <2> QED
    BY <2>1, <2>2, <2>3 DEF NoChange, ChangeRefused, ChangeResult
<1> QED
  BY <1>3, <1>4, <1>5

(* A request that is not pending before or after a step, or pending with   *)
(* the same change, looks the same to the register.                        *)
LEMMA AskedOfOthers ==
  ASSUME StoreInv, NEW r \in Requests,
         \A q \in Requests \ {r} : /\ pc'[q] = pc[q] /\ body'[q] = body[q]
                                   /\ field'[q] = field[q]
  PROVE  Asked' = [Asked EXCEPT ![r] = Asked'[r]]
BY DEF Asked, Pending, Critical

(* A failed update is a change given up.                                   *)
LEMMA FailIsGiveUp ==
  ASSUME StoreInv, NEW r \in Requests, NEW why, FailUpdate(r, why)
  PROVE  Register!GiveUp(r)
<1>1. Asked'[r] = NoChange /\ disk' = disk
  BY DEF FailUpdate, Goto, Asked, Pending, Critical, StoreInv, StoreTypeOK
<1>2. Asked' = [Asked EXCEPT ![r] = Asked'[r]]
  BY AskedOfOthers DEF FailUpdate, Goto, StoreInv, StoreTypeOK
<1> QED
  BY <1>1, <1>2 DEF Register!GiveUp

(* Every step is the change of one request, its end without a change, a    *)
(* stop, or a stutter.                                                     *)
LEMMA StepRefines ==
  ASSUME StoreInv, ExternalEdits = {}, [SharedNext]_storeVars
  PROVE  [Register!Next]_<<Loaded(disk), Asked>>
<1> USE DEF StoreInv, StoreTypeOK
<1>1. ASSUME NEW r \in Requests, Receive(r) PROVE [Register!Next]_<<Loaded(disk), Asked>>
  <2>1. PICK b \in Body :
           /\ body' = [body EXCEPT ![r] = b]
           /\ field' = [field EXCEPT ![r] = IF b.password = Keep THEN "armed" ELSE "password"]
           /\ IF BadRequest(b) THEN Goto(r, "done") ELSE Goto(r, "lock")
    BY <1>1 DEF Receive, FirstField
  <2>2. Asked' = [Asked EXCEPT ![r] = Asked'[r]] /\ disk' = disk /\ Asked[r] = NoChange
    BY <1>1, AskedOfOthers DEF Receive, FirstField, Goto, Asked, Pending, Critical
  <2>3. CASE BadRequest(b)
    <3>1. Asked'[r] = NoChange
      BY <2>1, <2>3 DEF Goto, Asked, Pending, Critical
    <3>2. Asked' = Asked
      <4>1. Asked = [Asked EXCEPT ![r] = NoChange]
        BY <2>2 DEF Asked
      <4> QED
        BY <2>2, <3>1, <4>1
    <3> QED
      BY <2>2, <3>2
  <2>4. CASE ~BadRequest(b)
    <3>1. Asked'[r] = IF b.password = Keep THEN [field |-> "armed", value |-> b.armed]
                                           ELSE [field |-> "password", value |-> b.password]
      BY <2>1, <2>4 DEF Goto, Asked, Pending
    <3>2. b.password = Keep => b.armed \in {"on", "off"}
      BY <2>4 DEF BadRequest, EmptyBody, Body
    <3>3. b.password # Keep => b.password \in Passwords
      BY <2>4 DEF BadRequest, Body
    <3>4. Asked'[r] \in Changes
      BY <3>1, <3>2, <3>3 DEF Changes
    <3> QED
      BY <2>2, <3>4 DEF Register!Next, Register!Call
  <2> QED
    BY <2>3, <2>4
<1>2. ASSUME NEW r \in Requests, FailUpdate(r, "error") \/ FailUpdate(r, "not_configured")
      PROVE [Register!Next]_<<Loaded(disk), Asked>>
  BY <1>2, FailIsGiveUp DEF Register!Next
<1>3. ASSUME NEW r \in Requests, Lock(r) PROVE UNCHANGED <<Loaded(disk), Asked>>
  BY <1>3 DEF Lock, Goto, Asked, Pending, Critical
<1>4. ASSUME NEW r \in Requests, Load(r) PROVE [Register!Next]_<<Loaded(disk), Asked>>
  <2>1. CASE FailUpdate(r, "error")
    BY <2>1, <1>2
  <2>2. CASE ~FailUpdate(r, "error")
    BY <1>4, <2>2 DEF Load, Goto, Asked, Pending, Critical
  <2> QED
    BY <2>1, <2>2
<1>5. ASSUME NEW r \in Requests, Mutate(r) PROVE [Register!Next]_<<Loaded(disk), Asked>>
  <2>1. CASE FailUpdate(r, "not_configured")
    BY <2>1, <1>2
  <2>2. CASE ~FailUpdate(r, "not_configured")
    BY <1>5, <2>2 DEF Mutate, Goto, Asked, Pending, Critical
  <2> QED
    BY <2>1, <2>2
<1>6. ASSUME NEW r \in Requests, SaveTemp(r) PROVE [Register!Next]_<<Loaded(disk), Asked>>
  <2>1. CASE FailUpdate(r, "error")
    BY <2>1, <1>2
  <2>2. CASE ~FailUpdate(r, "error")
    BY <1>6, <2>2 DEF SaveTemp, Goto, Asked, Pending, Critical
  <2> QED
    BY <2>1, <2>2
<1>7. ASSUME NEW r \in Requests, SaveRename(r) PROVE [Register!Next]_<<Loaded(disk), Asked>>
  <2>1. CASE FailUpdate(r, "error")
    BY <2>1, <1>2
  <2>2. CASE Publish(r)
    <3>1. Loaded(disk') = local[r]
      BY <2>2, DistinctNames DEF Publish, Loaded
    <3>2. Asked' = [Asked EXCEPT ![r] = Asked'[r]]
      <4>1. \A q \in Requests \ {r} : pc'[q] = pc[q]
        BY <1>7 DEF SaveRename, Goto, FailUpdate
      <4>2. \A q \in Requests \ {r} : field'[q] = field[q]
        BY <1>7 DEF SaveRename, FailUpdate
      <4> QED
        BY <2>2, <4>1, <4>2, AskedOfOthers DEF Publish
    <3>3. Asked'[r] \in Changes \cup {NoChange}
      <4>1. CASE HasNextField(r) /\ Goto(r, "lock")
        <5>1. Asked'[r] = [field |-> "armed", value |-> body[r].armed]
          <6>1. pc'[r] = "lock" /\ body'[r] = body[r]
            BY <2>2, <4>1 DEF Publish, Goto
          <6>2. field'[r] = "armed"
            BY <1>7, <4>1, <6>1 DEF SaveRename, Goto, FailUpdate
          <6> QED
            BY <6>1, <6>2 DEF Asked, Pending
        <5>2. body[r].armed \in {"on", "off"}
          BY <4>1 DEF HasNextField, Body
        <5> QED
          BY <5>1, <5>2 DEF Changes
      <4>2. CASE Goto(r, "done")
        BY <4>2 DEF Goto, Asked, Pending, Critical
      <4> QED
        BY <1>7, <2>2, <4>1, <4>2 DEF SaveRename, FailUpdate
    <3>4. /\ Asked[r] # NoChange
          /\ ~ChangeRefused(Asked[r], Loaded(disk))
          /\ local[r] = ChangeResult(Asked[r], Loaded(disk))
      BY <1>7, RenameIsNotRefused DEF SaveRename
    <3> QED
      BY <3>1, <3>2, <3>3, <3>4 DEF Register!Next, Register!Apply
  <2> QED
    BY <1>7, <2>1, <2>2 DEF SaveRename
<1>8. ASSUME NEW r \in Requests, Reply(r) PROVE UNCHANGED <<Loaded(disk), Asked>>
  BY <1>8 DEF Reply, Goto, Asked, Pending, Critical
<1>9. CASE StoreStop
  <2>1. Asked' = [r \in Requests |-> NoChange] /\ disk' = disk
    BY <1>9 DEF StoreStop, Asked, Pending, Critical
  <2> QED
    BY <2>1 DEF Register!Next, Register!Stop
<1>10. CASE UNCHANGED storeVars
  BY <1>10 DEF storeVars, Asked, Pending
<1> QED
  BY <1>1, <1>3, <1>4, <1>5, <1>6, <1>7, <1>8, <1>9, <1>10 DEF StoreNext, SharedNext, Serve, ExternalEdit

(* Without hand edits, overlapping, failing and crashing requests change   *)
(* the file as if each change happened at one instant (shutdown.go:141-157). *)
THEOREM StoreImplementsRegister ==
  ASSUME ExternalEdits = {}
  PROVE  SharedStoreSpec => ImplementsRegister
<1>1. StoreInit => Register!Init
  BY InitRefines
<1>2. StoreInv /\ [SharedNext]_storeVars => [Register!Next]_<<Loaded(disk), Asked>>
  BY StepRefines
<1> QED
  BY <1>1, <1>2, StoreInvariant, PTL DEF SharedStoreSpec, ImplementsRegister, Register!Spec

================================================================================
