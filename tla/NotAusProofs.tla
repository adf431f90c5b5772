----------------------------- MODULE NotAusProofs ------------------------------
(***************************************************************************)
(* Proofs about NotAus, for any number of callers, requests, passwords,    *)
(* any MaxFailures and any length of the cooldown.                         *)
(***************************************************************************)
EXTENDS NotAus, ShutdownStoreProofs, FiniteSetTheorems

(***************************************************************************)
(* The store inside NotAus is the store of module ShutdownStore, so all    *)
(* that is proved there holds here.                                        *)
(***************************************************************************)
LEMMA StepIsStoreStep == [Next]_vars => [SharedNext]_storeVars
<1> SUFFICES ASSUME [Next]_vars PROVE [SharedNext]_storeVars
  OBVIOUS
<1>1. CASE \E r \in Requests : AdminReceive(r) \/ AdminServe(r)
  BY <1>1 DEF AdminReceive, AdminServe, StoreNext, SharedNext
<1>2. CASE \E c \in Callers : Arrive(c) \/ ServeCaller(c)
  BY <1>2 DEF Arrive, ServeCaller, CheckLock, LoadArmed, HasButton, Compare, Answer, Confirms, Trigger,
       CleanPoweroff, Escalate, ForcedPoweroff, PowerOff, ForgetAll, StoreNext, SharedNext
<1>3. CASE Edit \/ Tick \/ Terminate \/ Exit \/ Start
  BY <1>3 DEF Edit, Tick, Terminate, Exit, Start, ForgetAll, StoreNext, SharedNext
<1>4. CASE UNCHANGED vars
  BY <1>4 DEF vars
<1> QED
  BY <1>1, <1>2, <1>3, <1>4 DEF Next

(* Every behaviour of the whole daemon is, for the store, a behaviour of   *)
(* the shared store.                                                       *)
THEOREM NotAusContainsStore == Spec => SharedStoreSpec
<1>1. Init => StoreInit
  BY DEF Init
<1> QED
  BY <1>1, StepIsStoreStep, PTL DEF Spec, SharedStoreSpec

(* The configuration is never armed without a password, whatever callers,  *)
(* restarts and poweroffs do.                                              *)
THEOREM NotAusStoreIsSafe == Spec => []StoreInv
BY NotAusContainsStore, StoreInvariant, PTL

--------------------------------------------------------------------------------
(* A daemon that just started satisfies the invariant.                     *)
LEMMA InitNotAusInv == Init => NotAusInv
<1> SUFFICES ASSUME Init PROVE NotAusInv
  OBVIOUS
<1> USE LockoutConstants DEF Init
<1>1. StoreTypeOK
  BY InitStoreInv DEF StoreInv
<1>2. TypeOK
  BY <1>1 DEF TypeOK, Guesses
<1>3. SeesTheFile /\ HashWasArmed /\ VerdictFitsStage /\ VerdictWasTrue
  BY DEF SeesTheFile, HashWasArmed, VerdictFitsStage, VerdictWasTrue, InVerify, Admitted
<1>4. Budget
  BY DEF Budget, Locked
<1> QED
  BY <1>2, <1>3, <1>4 DEF NotAusInv

(* An effectively armed file holds a password.                             *)
LEMMA ArmedHash ==
  ASSUME StoreTypeOK, EffectivelyArmed(disk)
  PROVE  Loaded(disk).hash \in Passwords
BY LoadedIsState DEF StoreTypeOK, EffectivelyArmed, State

(***************************************************************************)
(* Type correctness.                                                       *)
(***************************************************************************)
LEMMA TypeStep == NotAusInv /\ StoreInv /\ [Next]_vars => TypeOK'
<1> SUFFICES ASSUME NotAusInv, StoreInv, [Next]_vars PROVE TypeOK'
  OBVIOUS
<1>0. StoreTypeOK'
  BY StepIsStoreStep, StoreTypeStep
<1> USE LockoutConstants, <1>0 DEF NotAusInv, TypeOK, GotoV, Guesses
<1>1. ASSUME NEW r \in Requests, AdminReceive(r) PROVE TypeOK'
  BY <1>1 DEF AdminReceive, verifyVars, hostVars, ghostVars
<1>2. ASSUME Witness, UNCHANGED <<verifyVars, hostVars, evaluated>> PROVE TypeOK'
  BY <1>2 DEF Witness, verifyVars, hostVars, StoreTypeOK
<1>3. ASSUME NEW c \in Callers, Arrive(c) PROVE TypeOK'
  BY <1>3 DEF Arrive, hostVars, StoreTypeOK
<1>4. ASSUME NEW c \in Callers, CheckLock(c) PROVE TypeOK'
  BY <1>4 DEF CheckLock, hostVars, ghostVars
<1>5. ASSUME NEW c \in Callers, LoadArmed(c) PROVE TypeOK'
  BY <1>5, ArmedHash DEF LoadArmed, HasButton, hostVars, ghostVars
<1>6. ASSUME NEW c \in Callers, Compare(c) PROVE TypeOK'
  BY <1>6 DEF Compare, RecordFailure, RecordSuccess, hostVars
<1>7. ASSUME NEW c \in Callers, Answer(c) PROVE TypeOK'
  BY <1>7 DEF Answer, Confirms, Release, hostVars
<1>8. ASSUME NEW c \in Callers, Trigger(c) PROVE TypeOK'
  BY <1>8 DEF Trigger, Release, hostVars
<1>9. CASE ForgetAll /\ daemon' = "down" /\ machine' \in {machine, "off"}
  BY <1>9 DEF ForgetAll
<1>10. ASSUME NEW c \in Callers, CleanPoweroff(c) PROVE TypeOK'
  BY <1>9, <1>10 DEF CleanPoweroff, Escalate, PowerOff, hostVars, ghostVars
<1>11. ASSUME NEW c \in Callers, ForcedPoweroff(c) PROVE TypeOK'
  BY <1>9, <1>11 DEF ForcedPoweroff, PowerOff, Release, hostVars
<1>12. CASE Tick
  BY <1>12 DEF Tick, Locked, hostVars
<1>13. CASE Terminate \/ Start
  BY <1>13 DEF Terminate, Start, verifyVars, ghostVars
<1>14. CASE UNCHANGED vars
  BY <1>14 DEF vars, verifyVars, hostVars, ghostVars
<1>15. CASE Exit
  BY <1>9, <1>15 DEF Exit
<1>16. CASE Edit
  BY <1>2, <1>16 DEF Edit
<1>17. ASSUME NEW r \in Requests, AdminServe(r) PROVE TypeOK'
  BY <1>2, <1>17 DEF AdminServe
<1> QED
  BY <1>1, <1>3, <1>4, <1>5, <1>6, <1>7, <1>8, <1>10, <1>11, <1>12, <1>13, <1>14, <1>15,
     <1>16, <1>17 DEF Next, ServeCaller

(***************************************************************************)
(* The history of each caller.                                             *)
(***************************************************************************)
LEMMA SeesTheFileStep == NotAusInv /\ StoreInv /\ [Next]_vars => SeesTheFile'
<1> SUFFICES ASSUME NotAusInv, StoreInv, [Next]_vars PROVE SeesTheFile'
  OBVIOUS
<1> USE DEF NotAusInv, TypeOK, StoreTypeOK, GotoV, SeesTheFile, InVerify, Admitted
<1>1. ASSUME NEW r \in Requests, AdminReceive(r) PROVE SeesTheFile'
  BY <1>1 DEF AdminReceive, Receive, FirstField, storeVars, verifyVars, hostVars, ghostVars
<1>2. ASSUME NEW c \in Callers, Arrive(c) PROVE SeesTheFile'
  BY <1>2 DEF Arrive, storeVars, verifyVars, hostVars, ghostVars
<1>3. ASSUME NEW c \in Callers, CheckLock(c) PROVE SeesTheFile'
  BY <1>3 DEF CheckLock, storeVars, verifyVars, hostVars, ghostVars
<1>4. ASSUME NEW c \in Callers, LoadArmed(c) PROVE SeesTheFile'
  BY <1>4 DEF LoadArmed, HasButton, storeVars, verifyVars, hostVars, ghostVars
<1>5. ASSUME NEW c \in Callers, Compare(c) PROVE SeesTheFile'
  BY <1>5 DEF Compare, storeVars, verifyVars, hostVars, ghostVars
<1>6. ASSUME NEW c \in Callers, Answer(c) PROVE SeesTheFile'
  BY <1>6 DEF Answer, Confirms, Release, storeVars, verifyVars, hostVars, ghostVars
<1>7. ASSUME NEW c \in Callers, Trigger(c) PROVE SeesTheFile'
  BY <1>7 DEF Trigger, Release, storeVars, verifyVars, hostVars, ghostVars
<1>8. ASSUME Witness, UNCHANGED <<verifyVars, hostVars, evaluated>> PROVE SeesTheFile'
  BY <1>8 DEF Witness, storeVars, verifyVars, hostVars, ghostVars
<1>9. CASE ForgetAll
  BY <1>9 DEF ForgetAll
<1>10. ASSUME NEW c \in Callers, CleanPoweroff(c) PROVE SeesTheFile'
  BY <1>9, <1>10 DEF CleanPoweroff, Escalate, PowerOff, storeVars, verifyVars, hostVars, ghostVars
<1>11. ASSUME NEW c \in Callers, ForcedPoweroff(c) PROVE SeesTheFile'
  BY <1>9, <1>11 DEF ForcedPoweroff, PowerOff, Release, storeVars, verifyVars, hostVars, ghostVars
<1>12. CASE Tick
  BY <1>12 DEF Tick, storeVars, verifyVars, hostVars, ghostVars
<1>13. CASE Terminate \/ Start
  BY <1>13 DEF Terminate, Start, storeVars, verifyVars, hostVars, ghostVars
<1>14. CASE UNCHANGED vars
  BY <1>14 DEF vars, storeVars, verifyVars, hostVars, ghostVars
<1>15. CASE Edit \/ Exit \/ \E r \in Requests : AdminServe(r)
  BY <1>8, <1>9, <1>15 DEF Edit, Exit, AdminServe
<1> QED
  BY <1>1, <1>2, <1>3, <1>4, <1>5, <1>6, <1>7, <1>10, <1>11, <1>12, <1>13, <1>14, <1>15
     DEF Next, ServeCaller

(* The hash a caller compares was loaded from a file that was armed with it*)
(* during the request.                                                     *)
LEMMA HashWasArmedStep == NotAusInv /\ StoreInv /\ [Next]_vars => HashWasArmed'
<1> SUFFICES ASSUME NotAusInv, StoreInv, [Next]_vars PROVE HashWasArmed'
  OBVIOUS
<1> USE DEF NotAusInv, TypeOK, StoreTypeOK, GotoV, HashWasArmed
<1>1. ASSUME NEW r \in Requests, AdminReceive(r) PROVE HashWasArmed'
  BY <1>1 DEF AdminReceive, Receive, FirstField, storeVars, verifyVars, hostVars, ghostVars
<1>2. ASSUME NEW c \in Callers, Arrive(c) PROVE HashWasArmed'
  BY <1>2 DEF Arrive, storeVars, verifyVars, hostVars, ghostVars
<1>3. ASSUME NEW c \in Callers, CheckLock(c) PROVE HashWasArmed'
  BY <1>3 DEF CheckLock, storeVars, verifyVars, hostVars, ghostVars
<1>4. ASSUME NEW c \in Callers, LoadArmed(c) PROVE HashWasArmed'
  BY <1>4 DEF LoadArmed, HasButton, storeVars, verifyVars, hostVars, ghostVars, SeesTheFile, InVerify, Admitted
<1>5. ASSUME NEW c \in Callers, Compare(c) PROVE HashWasArmed'
  BY <1>5 DEF Compare, storeVars, verifyVars, hostVars, ghostVars
<1>6. ASSUME NEW c \in Callers, Answer(c) PROVE HashWasArmed'
  BY <1>6 DEF Answer, Confirms, Release, storeVars, verifyVars, hostVars, ghostVars
<1>7. ASSUME NEW c \in Callers, Trigger(c) PROVE HashWasArmed'
  BY <1>7 DEF Trigger, Release, storeVars, verifyVars, hostVars, ghostVars
<1>8. ASSUME Witness, UNCHANGED <<verifyVars, hostVars, evaluated>> PROVE HashWasArmed'
  BY <1>8 DEF Witness, storeVars, verifyVars, hostVars, ghostVars, InVerify, Admitted
<1>9. CASE ForgetAll
  BY <1>9 DEF ForgetAll
<1>10. ASSUME NEW c \in Callers, CleanPoweroff(c) PROVE HashWasArmed'
  BY <1>9, <1>10 DEF CleanPoweroff, Escalate, PowerOff, storeVars, verifyVars, hostVars, ghostVars
<1>11. ASSUME NEW c \in Callers, ForcedPoweroff(c) PROVE HashWasArmed'
  BY <1>9, <1>11 DEF ForcedPoweroff, PowerOff, Release, storeVars, verifyVars, hostVars, ghostVars
<1>12. CASE Tick
  BY <1>12 DEF Tick, storeVars, verifyVars, hostVars, ghostVars
<1>13. CASE Terminate \/ Start
  BY <1>13 DEF Terminate, Start, storeVars, verifyVars, hostVars, ghostVars
<1>14. CASE UNCHANGED vars
  BY <1>14 DEF vars, storeVars, verifyVars, hostVars, ghostVars
<1>15. CASE Edit \/ Exit \/ \E r \in Requests : AdminServe(r)
  BY <1>8, <1>9, <1>15 DEF Edit, Exit, AdminServe
<1> QED
  BY <1>1, <1>2, <1>3, <1>4, <1>5, <1>6, <1>7, <1>10, <1>11, <1>12, <1>13, <1>14, <1>15
     DEF Next, ServeCaller

(* A caller carries a verdict only from its comparison on, and is confirmed*)
(* only when authorised.                                                   *)
LEMMA VerdictFitsStageStep == NotAusInv /\ StoreInv /\ [Next]_vars => VerdictFitsStage'
<1> SUFFICES ASSUME NotAusInv, StoreInv, [Next]_vars PROVE VerdictFitsStage'
  OBVIOUS
<1> USE DEF NotAusInv, TypeOK, StoreTypeOK, GotoV, VerdictFitsStage, InVerify, Admitted
<1>1. ASSUME NEW r \in Requests, AdminReceive(r) PROVE VerdictFitsStage'
  BY <1>1 DEF AdminReceive, Receive, FirstField, storeVars, verifyVars, hostVars, ghostVars
<1>2. ASSUME NEW c \in Callers, Arrive(c) PROVE VerdictFitsStage'
  BY <1>2 DEF Arrive, storeVars, verifyVars, hostVars, ghostVars
<1>3. ASSUME NEW c \in Callers, CheckLock(c) PROVE VerdictFitsStage'
  BY <1>3 DEF CheckLock, storeVars, verifyVars, hostVars, ghostVars
<1>4. ASSUME NEW c \in Callers, LoadArmed(c) PROVE VerdictFitsStage'
  BY <1>4 DEF LoadArmed, HasButton, storeVars, verifyVars, hostVars, ghostVars
<1>5. ASSUME NEW c \in Callers, Compare(c) PROVE VerdictFitsStage'
  BY <1>5 DEF Compare, storeVars, verifyVars, hostVars, ghostVars
<1>6. ASSUME NEW c \in Callers, Answer(c) PROVE VerdictFitsStage'
  BY <1>6 DEF Answer, Confirms, Release, storeVars, verifyVars, hostVars, ghostVars
<1>7. ASSUME NEW c \in Callers, Trigger(c) PROVE VerdictFitsStage'
  BY <1>7 DEF Trigger, Release, storeVars, verifyVars, hostVars, ghostVars
<1>8. ASSUME Witness, UNCHANGED <<verifyVars, hostVars, evaluated>> PROVE VerdictFitsStage'
  BY <1>8 DEF Witness, storeVars, verifyVars, hostVars, ghostVars
<1>9. CASE ForgetAll
  BY <1>9 DEF ForgetAll
<1>10. ASSUME NEW c \in Callers, CleanPoweroff(c) PROVE VerdictFitsStage'
  BY <1>9, <1>10 DEF CleanPoweroff, Escalate, PowerOff, storeVars, verifyVars, hostVars, ghostVars
<1>11. ASSUME NEW c \in Callers, ForcedPoweroff(c) PROVE VerdictFitsStage'
  BY <1>9, <1>11 DEF ForcedPoweroff, PowerOff, Release, storeVars, verifyVars, hostVars, ghostVars
<1>12. CASE Tick
  BY <1>12 DEF Tick, storeVars, verifyVars, hostVars, ghostVars
<1>13. CASE Terminate \/ Start
  BY <1>13 DEF Terminate, Start, storeVars, verifyVars, hostVars, ghostVars
<1>14. CASE UNCHANGED vars
  BY <1>14 DEF vars, storeVars, verifyVars, hostVars, ghostVars
<1>15. CASE Edit \/ Exit \/ \E r \in Requests : AdminServe(r)
  BY <1>8, <1>9, <1>15 DEF Edit, Exit, AdminServe
<1> QED
  BY <1>1, <1>2, <1>3, <1>4, <1>5, <1>6, <1>7, <1>10, <1>11, <1>12, <1>13, <1>14, <1>15
     DEF Next, ServeCaller

(* Every verdict stays true of a file the caller has seen (Verify,         *)
(* shutdown.go:162-183).                                                   *)
LEMMA VerdictWasTrueStep == NotAusInv /\ StoreInv /\ [Next]_vars => VerdictWasTrue'
<1> SUFFICES ASSUME NotAusInv, StoreInv, [Next]_vars PROVE VerdictWasTrue'
  OBVIOUS
<1> USE DEF NotAusInv, TypeOK, StoreTypeOK, GotoV, VerdictWasTrue
<1>1. ASSUME NEW r \in Requests, AdminReceive(r) PROVE VerdictWasTrue'
  BY <1>1 DEF AdminReceive, Receive, FirstField, storeVars, verifyVars, hostVars, ghostVars
<1>2. ASSUME NEW c \in Callers, Arrive(c) PROVE VerdictWasTrue'
  BY <1>2 DEF Arrive, storeVars, verifyVars, hostVars, ghostVars, VerdictFitsStage
<1>3. ASSUME NEW c \in Callers, CheckLock(c) PROVE VerdictWasTrue'
  BY <1>3 DEF CheckLock, storeVars, verifyVars, hostVars, ghostVars
<1>4. ASSUME NEW c \in Callers, LoadArmed(c) PROVE VerdictWasTrue'
  BY <1>4 DEF LoadArmed, HasButton, storeVars, verifyVars, hostVars, ghostVars, SeesTheFile, InVerify, Admitted
<1>5. ASSUME NEW c \in Callers, Compare(c) PROVE VerdictWasTrue'
  BY <1>5 DEF Compare, storeVars, verifyVars, hostVars, ghostVars, HashWasArmed
<1>6. ASSUME NEW c \in Callers, Answer(c) PROVE VerdictWasTrue'
  BY <1>6 DEF Answer, Confirms, Release, storeVars, verifyVars, hostVars, ghostVars
<1>7. ASSUME NEW c \in Callers, Trigger(c) PROVE VerdictWasTrue'
  BY <1>7 DEF Trigger, Release, storeVars, verifyVars, hostVars, ghostVars
<1>8. ASSUME Witness, UNCHANGED <<verifyVars, hostVars, evaluated>> PROVE VerdictWasTrue'
  BY <1>8 DEF Witness, storeVars, verifyVars, hostVars, ghostVars
<1>9. CASE ForgetAll
  BY <1>9 DEF ForgetAll
<1>10. ASSUME NEW c \in Callers, CleanPoweroff(c) PROVE VerdictWasTrue'
  BY <1>9, <1>10 DEF CleanPoweroff, Escalate, PowerOff, storeVars, verifyVars, hostVars, ghostVars
<1>11. ASSUME NEW c \in Callers, ForcedPoweroff(c) PROVE VerdictWasTrue'
  BY <1>9, <1>11 DEF ForcedPoweroff, PowerOff, Release, storeVars, verifyVars, hostVars, ghostVars
<1>12. CASE Tick
  BY <1>12 DEF Tick, storeVars, verifyVars, hostVars, ghostVars
<1>13. CASE Terminate \/ Start
  BY <1>13 DEF Terminate, Start, storeVars, verifyVars, hostVars, ghostVars
<1>14. CASE UNCHANGED vars
  BY <1>14 DEF vars, storeVars, verifyVars, hostVars, ghostVars
<1>15. CASE Edit \/ Exit \/ \E r \in Requests : AdminServe(r)
  BY <1>8, <1>9, <1>15 DEF Edit, Exit, AdminServe
<1> QED
  BY <1>1, <1>2, <1>3, <1>4, <1>5, <1>6, <1>7, <1>10, <1>11, <1>12, <1>13, <1>14, <1>15
     DEF Next, ServeCaller

(***************************************************************************)
(* The guess budget.                                                       *)
(***************************************************************************)
LEMMA AdmittedCount ==
  /\ IsFiniteSet(AdmittedCallers)
  /\ Cardinality(AdmittedCallers) \in Nat
  /\ Cardinality(Callers) \in Nat
  /\ Cardinality(AdmittedCallers) <= Cardinality(Callers)
BY LockoutConstants, FS_Subset, FS_CardinalityType DEF AdmittedCallers

(* Nobody new is admitted: the count does not grow.                        *)
LEMMA NobodyNew ==
  ASSUME AdmittedCallers' \subseteq AdmittedCallers
  PROVE  /\ Cardinality(AdmittedCallers') \in Nat
         /\ Cardinality(AdmittedCallers') <= Cardinality(AdmittedCallers)
BY AdmittedCount, FS_Subset, FS_CardinalityType

(* No step compares more wrong passwords than the counter and the admitted *)
(* callers allow.                                                          *)
LEMMA BudgetStep == NotAusInv /\ StoreInv /\ [Next]_vars => Budget'
<1> SUFFICES ASSUME NotAusInv, StoreInv, [Next]_vars PROVE Budget'
  OBVIOUS
<1> USE LockoutConstants, AdmittedCount DEF NotAusInv, TypeOK, Budget, Locked
(* Steps that admit nobody and leave the lockout and the history alone.    *)
<1>1. ASSUME AdmittedCallers' \subseteq AdmittedCallers,
             UNCHANGED <<failures, lockLeft, evaluated>>
      PROVE Budget'
  BY <1>1, NobodyNew
<1>2. ASSUME NEW c \in Callers, CheckLock(c) PROVE Budget'
  <2>1. CASE Locked
    BY <1>1, <1>2, <2>1 DEF CheckLock, AdmittedCallers, Admitted, GotoV, ghostVars
  <2>2. CASE ~Locked
    BY <1>2, <2>2 DEF CheckLock, ghostVars
  <2> QED
    BY <2>1, <2>2
<1>3. ASSUME NEW c \in Callers, Compare(c) PROVE Budget'
  <2>1. AdmittedCallers' = AdmittedCallers \ {c} /\ c \in AdmittedCallers
    BY <1>3 DEF Compare, AdmittedCallers, Admitted, GotoV
  <2>2. /\ Cardinality(AdmittedCallers') \in Nat
        /\ Cardinality(AdmittedCallers') = Cardinality(AdmittedCallers) - 1
    BY <2>1, FS_RemoveElement, FS_CardinalityType
  <2>3. CASE guess[c] # hash[c] /\ Locked
    BY <1>3, <2>2, <2>3 DEF Compare, RecordFailure
  <2>4. CASE guess[c] # hash[c] /\ ~Locked
    BY <1>3, <2>2, <2>4 DEF Compare, RecordFailure
  <2>5. CASE guess[c] = hash[c]
    BY <1>3, <2>5 DEF Compare, RecordSuccess
  <2> QED
    BY <2>3, <2>4, <2>5
<1>4. CASE ForgetAll
  BY <1>4 DEF ForgetAll
<1>5. CASE Tick
  <2>1. AdmittedCallers' = AdmittedCallers
    BY <1>5 DEF Tick, AdmittedCallers, Admitted
  <2> QED
    BY <1>5, <2>1 DEF Tick
<1>6. CASE vpc' = vpc /\ UNCHANGED <<failures, lockLeft, evaluated>>
  BY <1>1, <1>6 DEF AdmittedCallers, Admitted
<1>7. ASSUME NEW c \in Callers,
             Arrive(c) \/ LoadArmed(c) \/ Answer(c) \/ Trigger(c)
      PROVE Budget'
  <2>1. AdmittedCallers' \subseteq AdmittedCallers
    BY <1>7 DEF Arrive, LoadArmed, HasButton, Answer, Confirms, Trigger, Release, GotoV, AdmittedCallers, Admitted
  <2> QED
    BY <1>1, <1>7, <2>1 DEF Arrive, LoadArmed, HasButton, Answer, Confirms, Trigger, ghostVars
<1>8. ASSUME NEW c \in Callers, CleanPoweroff(c) \/ ForcedPoweroff(c) PROVE Budget'
  <2>1. CASE ForgetAll
    BY <1>4, <2>1
  <2>2. CASE ~ForgetAll
    <3>1. AdmittedCallers' \subseteq AdmittedCallers
      BY <1>8, <2>2 DEF CleanPoweroff, Escalate, ForcedPoweroff, PowerOff, Release, GotoV,
           AdmittedCallers, Admitted
    <3> QED
      BY <1>1, <1>8, <2>2, <3>1 DEF CleanPoweroff, Escalate, ForcedPoweroff, PowerOff, ghostVars
  <2> QED
    BY <2>1, <2>2
<1>9. CASE Edit \/ Terminate \/ Start \/ UNCHANGED vars
           \/ \E r \in Requests : AdminReceive(r) \/ AdminServe(r)
  BY <1>6, <1>9 DEF Edit, Terminate, Start, AdminReceive, AdminServe, vars, verifyVars, ghostVars
<1> QED
  BY <1>2, <1>3, <1>4, <1>5, <1>7, <1>8, <1>9 DEF Next, ServeCaller, Exit

(* Every step keeps the invariant, given that of the store.                *)
LEMMA NotAusInvStep == NotAusInv /\ StoreInv /\ [Next]_vars => NotAusInv'
BY TypeStep, SeesTheFileStep, HashWasArmedStep, VerdictFitsStageStep, VerdictWasTrueStep,
   BudgetStep DEF NotAusInv

(***************************************************************************)
(* The results.                                                            *)
(***************************************************************************)

(* The invariant of the verification holds in every reachable state.       *)
THEOREM NotAusInvariant == Spec => []NotAusInv
<1>1. Init => NotAusInv
  BY InitNotAusInv
<1>2. NotAusInv /\ StoreInv /\ [Next]_vars => NotAusInv'
  BY NotAusInvStep
<1> QED
  BY <1>1, <1>2, NotAusStoreIsSafe, PTL DEF Spec

(* Every verdict was true of the file at some moment of the request        *)
(* (shutdown.go:69-70, 162-183).                                           *)
THEOREM VerdictsAreTrue == Spec => []VerdictWasTrue
<1>1. NotAusInv => VerdictWasTrue
  BY DEF NotAusInv
<1> QED
  BY <1>1, NotAusInvariant, PTL

(* Between two moments of free guessing at most MaxFailures wrong          *)
(* passwords and those already in flight are compared (shutdown.go:202-217). *)
THEOREM GuessesAreBounded == Spec => []GuessBudget
<1>1. NotAusInv => GuessBudget
  BY LockoutConstants, AdmittedCount DEF NotAusInv, TypeOK, Budget, GuessBudget, Locked
<1> QED
  BY <1>1, NotAusInvariant, PTL

(* The machine goes off only for a caller whose password was the armed one *)
(* during its request (api.go:395-431).                                    *)
THEOREM PowerOffNeedsAuthority == Spec => PowerOffIsAuthorized
<1>1. NotAusInv /\ [Next]_vars =>
        [machine = "on" /\ machine' = "off" =>
           \E c \in Callers :
             /\ vpc[c] \in {"clean", "forced"}
             /\ \E d \in seen[c] : EffectivelyArmed(d) /\ Loaded(d).hash = guess[c]]_vars
  <2> SUFFICES ASSUME NotAusInv, Next, machine = "on", machine' = "off"
               PROVE  \E c \in Callers :
                        /\ vpc[c] \in {"clean", "forced"}
                        /\ \E d \in seen[c] : EffectivelyArmed(d) /\ Loaded(d).hash = guess[c]
    OBVIOUS
  <2>1. PICK c \in Callers : CleanPoweroff(c) \/ ForcedPoweroff(c)
    BY DEF Next, ServeCaller, AdminReceive, AdminServe, Arrive, CheckLock, LoadArmed, HasButton, Compare,
       Answer, Confirms, Trigger, Edit, Tick, Terminate, Exit, Start, hostVars
  <2>2. vpc[c] \in {"clean", "forced"}
    BY <2>1 DEF CleanPoweroff, Escalate, ForcedPoweroff
  <2>3. verdict[c] = "authorized"
    BY <2>2 DEF NotAusInv, VerdictFitsStage
  <2> QED
    BY <2>2, <2>3 DEF NotAusInv, VerdictWasTrue
<1> QED
  BY <1>1, NotAusInvariant, PTL DEF Spec, PowerOffIsAuthorized

(* A cooldown ends by the clock, a restart or the right password only:     *)
(* late failures prolong it, they never cut it short (shutdown.go:202-217).*)
THEOREM CooldownsHold == Spec => CooldownOnlyEndsFor
<1>1. ASSUME NotAusInv, [Next]_vars, lockLeft' < lockLeft
      PROVE  \/ lockLeft' = lockLeft - 1 /\ UNCHANGED <<vpc, verdict>>
             \/ lockLeft' = 0 /\ daemon' = "down"
             \/ lockLeft' = 0 /\ \E c \in Callers : verdict'[c] = "authorized" /\ verdict[c] = "none"
  <2>1. lockLeft \in 0 .. LockoutTicks /\ LockoutTicks \in Nat
    BY <1>1, LockoutConstants DEF NotAusInv, TypeOK
  <2>2. CASE Tick
    BY <2>2 DEF Tick
  <2>3. CASE Exit \/ \E c \in Callers : CleanPoweroff(c) \/ ForcedPoweroff(c)
    <3>1. UNCHANGED lockLeft \/ (lockLeft' = 0 /\ daemon' = "down")
      BY <2>3 DEF Exit, CleanPoweroff, ForcedPoweroff, PowerOff, ForgetAll
    <3> QED  BY <1>1, <2>1, <3>1
  <2>4. ASSUME NEW c \in Callers, Compare(c)
        PROVE  lockLeft' = 0 /\ verdict'[c] = "authorized" /\ verdict[c] = "none"
    <3>1. CASE RecordFailure
      BY <1>1, <2>1, <3>1 DEF RecordFailure
    <3>2. CASE RecordSuccess /\ verdict' = [verdict EXCEPT ![c] = "authorized"]
      <4>1. verdict[c] = "none"
        <5>1. vpc[c] = "compare" /\ VerdictFitsStage
          BY <1>1, <2>4 DEF Compare, NotAusInv
        <5>2. InVerify(c)
          BY <5>1 DEF InVerify, Admitted
        <5> QED  BY <5>1, <5>2 DEF VerdictFitsStage
      <4>2. verdict'[c] = "authorized"
        BY <1>1, <3>2 DEF NotAusInv, TypeOK
      <4> QED  BY <3>2, <4>1, <4>2 DEF RecordSuccess
    <3> QED  BY <2>4, <3>1, <3>2 DEF Compare
  <2>5. CASE \/ \E r \in Requests : AdminReceive(r) \/ AdminServe(r)
             \/ \E c \in Callers : Arrive(c) \/ CheckLock(c) \/ LoadArmed(c) \/ Answer(c) \/ Trigger(c)
             \/ Edit \/ Terminate \/ Start \/ UNCHANGED vars
    <3>1. UNCHANGED lockLeft
      BY <2>5 DEF AdminReceive, AdminServe, Arrive, CheckLock, LoadArmed, Answer, Trigger, Edit, Terminate,
                  Start, verifyVars, vars
    <3> QED  BY <1>1, <2>1, <3>1
  <2> QED  BY <1>1, <2>2, <2>3, <2>4, <2>5 DEF Next, ServeCaller
<1>2. NotAusInv /\ [Next]_vars =>
        [lockLeft' < lockLeft =>
           \/ lockLeft' = lockLeft - 1 /\ UNCHANGED <<vpc, verdict>>
           \/ lockLeft' = 0 /\ daemon' = "down"
           \/ lockLeft' = 0 /\ \E c \in Callers : verdict'[c] = "authorized" /\ verdict[c] = "none"]_vars
  BY <1>1
<1> QED
  BY <1>2, NotAusInvariant, PTL DEF Spec, CooldownOnlyEndsFor

(* For administrators the daemon with its callers, restarts and poweroffs  *)
(* is still the atomic record, when nobody edits the file by hand.         *)
THEOREM NotAusImplementsRegister ==
  ASSUME ExternalEdits = {} PROVE Spec => ImplementsRegister
BY NotAusContainsStore, StoreImplementsRegister, PTL

--------------------------------------------------------------------------------
(***************************************************************************)
(* The daemon implements the button.                                       *)
(***************************************************************************)
Stages == {"idle", "check", "load", "compare", "answer", "confirmed", "clean", "forced"}

(* An answer has a verdict.                                                *)
AnsweredInv == \A c \in Callers : vpc[c] = "answer" => verdict[c] # "none"

(* What a step leaves to a caller.                                         *)
Rests(c) ==
  vpc'[c] = vpc[c] /\ guess'[c] = guess[c] /\ hash'[c] = hash[c] /\ verdict'[c] = verdict[c]

(* A step of one caller is none of another's.                              *)
LEMMA OthersWait ==
  ASSUME TypeOK, NEW c \in Callers, NEW v \in Callers \ {c},
         \/ Arrive(c) \/ CheckLock(c) \/ LoadArmed(c) \/ Compare(c) \/ Answer(c) \/ Trigger(c)
         \/ (CleanPoweroff(c) \/ ForcedPoweroff(c)) /\ ~PowerOff
  PROVE  Rests(v)
BY DEF TypeOK, Rests, Arrive, CheckLock, LoadArmed, Compare, Answer, Trigger, CleanPoweroff, ForcedPoweroff,
   Escalate, Release, GotoV

LEMMA AnsweredStep == ASSUME NotAusInv, AnsweredInv, [Next]_vars PROVE AnsweredInv'
<1>t. TypeOK
  BY DEF NotAusInv
<1>1. ASSUME NEW c \in Callers,
             \/ Arrive(c) \/ CheckLock(c) \/ LoadArmed(c) \/ Compare(c) \/ Answer(c) \/ Trigger(c)
             \/ (CleanPoweroff(c) \/ ForcedPoweroff(c)) /\ ~PowerOff
      PROVE  AnsweredInv'
  <2>1. vpc'[c] = "answer" => verdict'[c] # "none"
    BY <1>t, <1>1 DEF TypeOK, Arrive, CheckLock, LoadArmed, Compare, Answer, Trigger, CleanPoweroff,
       ForcedPoweroff, Escalate, Release, GotoV
  <2> QED  BY <1>t, <1>1, <2>1, OthersWait DEF AnsweredInv, Rests
<1>2. CASE ForgetAll
  BY <1>2 DEF ForgetAll, AnsweredInv
<1>3. CASE UNCHANGED <<vpc, verdict>>
  BY <1>3 DEF AnsweredInv
<1>4. CASE \/ \E r \in Requests : AdminReceive(r) \/ AdminServe(r)
           \/ Edit \/ Tick \/ Terminate \/ Start \/ UNCHANGED vars
  BY <1>3, <1>4 DEF AdminReceive, AdminServe, Edit, Tick, Terminate, Start, vars, verifyVars
<1> QED  BY <1>1, <1>2, <1>4 DEF Next, ServeCaller, Exit, PowerOff

(* Where a step leaves everybody but c alone, the picture changes at c.    *)
LEMMA PictureOfOne ==
  ASSUME NEW c \in Callers, NEW x, NEW y, \A v \in Callers \ {c} : Rests(v), Judged'[c] = x, Tried'[c] = y
  PROVE  Judged' = [Judged EXCEPT ![c] = x] /\ Tried' = [Tried EXCEPT ![c] = y]
<1>1. \A v \in Callers \ {c} : Judged'[v] = Judged[v] /\ Tried'[v] = Tried[v]
  BY DEF Judged, Tried, Rests
<1>2. /\ Judged = [v \in Callers |-> Judged[v]] /\ Judged' = [v \in Callers |-> Judged'[v]]
      /\ Tried = [v \in Callers |-> Tried[v]] /\ Tried' = [v \in Callers |-> Tried'[v]]
  BY DEF Judged, Tried
<1> HIDE DEF Judged, Tried
<1> QED  BY <1>1, <1>2

LEMMA PictureOfNone ==
  ASSUME \A v \in Callers : Rests(v)
  PROVE  Judged' = Judged /\ Tried' = Tried
BY DEF Judged, Tried, Rests

LEMMA PictureOfRest ==
  ASSUME NEW c \in Callers, \A v \in Callers \ {c} : Rests(v), Judged'[c] = Judged[c], Tried'[c] = Tried[c]
  PROVE  Judged' = Judged /\ Tried' = Tried
<1>1. \A v \in Callers : Judged'[v] = Judged[v] /\ Tried'[v] = Tried[v]
  BY DEF Judged, Tried, Rests
<1> QED  BY <1>1 DEF Judged, Tried

(* A content of the file makes a button of a known password, or none.      *)
LEMMA ButtonIsKnown == ASSUME NEW d \in DiskContent PROVE ButtonOf(d) \in Passwords \cup {NoHash}
BY LoadedIsState DEF ButtonOf, EffectivelyArmed, State

(* When everything in memory goes, everybody is forgotten.                 *)
LEMMA ForgetIsForget == ASSUME ForgetAll PROVE Button!Forget
BY DEF ForgetAll, StoreStop, Button!Forget, Judged, Tried

(* A caller's step is one step of the button, or none.                     *)
LEMMA CallerKeepsButton ==
  ASSUME NotAusInv, AnsweredInv, NEW c \in Callers, Arrive(c) \/ ServeCaller(c)
  PROVE  Button!Next \/ UNCHANGED <<ButtonOf(disk), Tried, Judged, machine>>
<1>t. TypeOK /\ VerdictFitsStage /\ AnsweredInv
  BY DEF NotAusInv
<1> DEFINE Still == UNCHANGED <<ButtonOf(disk), Tried, Judged, machine>>
<1>j. /\ Judged[c] = CASE vpc[c] \in {"check", "load"} -> "asked"
                       [] vpc[c] = "compare" -> IF guess[c] = hash[c] THEN "authorized" ELSE "wrong"
                       [] OTHER -> verdict[c]
      /\ Tried[c] = IF vpc[c] = "idle" THEN NoHash ELSE guess[c]
  BY DEF Judged, Tried
<1>k. /\ Judged'[c] = CASE vpc'[c] \in {"check", "load"} -> "asked"
                        [] vpc'[c] = "compare" -> IF guess'[c] = hash'[c] THEN "authorized" ELSE "wrong"
                        [] OTHER -> verdict'[c]
      /\ Tried'[c] = IF vpc'[c] = "idle" THEN NoHash ELSE guess'[c]
  BY DEF Judged, Tried
<1> HIDE DEF Still
<1>s. ASSUME UNCHANGED <<disk, machine>>, Judged'[c] = Judged[c], Tried'[c] = Tried[c],
             \A v \in Callers \ {c} : Rests(v)
      PROVE  Still
  BY <1>s, PictureOfRest DEF Still
<1>l. ASSUME Release(c), UNCHANGED <<disk, machine>>, Judged[c] \notin {"none", "asked"},
             \A v \in Callers \ {c} : Rests(v)
      PROVE  Button!Leave(c)
  <2>1. vpc'[c] = "idle" /\ verdict'[c] = "none"
    BY <1>t, <1>l DEF Release, GotoV, TypeOK
  <2>2. Judged'[c] = "none" /\ Tried'[c] = NoHash
    BY <1>k, <2>1
  <2> QED  BY <1>l, <2>2, PictureOfOne DEF Button!Leave
<1>1. CASE Arrive(c)
  <2>1. /\ vpc[c] = "idle" /\ vpc'[c] = "check" /\ guess'[c] \in Guesses /\ UNCHANGED <<disk, machine>>
    BY <1>t, <1>1 DEF TypeOK, Arrive, GotoV, Guesses, storeVars, hostVars
  <2>2. Judged[c] = "none" /\ Judged'[c] = "asked" /\ Tried'[c] = guess'[c]
    BY <1>t, <1>j, <1>k, <2>1 DEF VerdictFitsStage
  <2>3. Judged' = [Judged EXCEPT ![c] = "asked"] /\ Tried' = [Tried EXCEPT ![c] = guess'[c]]
    BY <1>t, <1>1, <2>2, OthersWait, PictureOfOne
  <2>4. Button!Ask(c)
    BY <2>1, <2>2, <2>3 DEF Button!Ask
  <2> QED  BY <2>4 DEF Button!Next
<1>2. CASE CheckLock(c)
  <2>r. \A v \in Callers \ {c} : Rests(v)
    BY <1>t, <1>2, OthersWait
  <2>1. /\ vpc[c] = "check" /\ guess'[c] = guess[c] /\ UNCHANGED <<disk, machine>>
        /\ vpc'[c] = "load" \/ (vpc'[c] = "answer" /\ verdict'[c] = "locked")
    BY <1>t, <1>2 DEF TypeOK, CheckLock, GotoV, storeVars, hostVars
  <2>2. CASE vpc'[c] = "load"
    <3>1. Judged'[c] = Judged[c] /\ Tried'[c] = Tried[c]
      BY <1>j, <1>k, <2>1, <2>2
    <3> QED  BY <1>s, <2>1, <2>r, <3>1 DEF Still
  <2>3. CASE vpc'[c] = "answer" /\ verdict'[c] = "locked"
    <3>1. Judged[c] = "asked" /\ Judged'[c] = "locked" /\ Tried'[c] = Tried[c]
      BY <1>j, <1>k, <2>1, <2>3
    <3>2. Judged' = [Judged EXCEPT ![c] = "locked"] /\ Tried' = [Tried EXCEPT ![c] = Tried[c]]
      BY <2>r, <3>1, PictureOfOne
    <3>3. Tried' = Tried
      BY <3>2 DEF Tried
    <3>4. Button!TurnAway(c)
      BY <2>1, <3>1, <3>2, <3>3 DEF Button!TurnAway
    <3> QED  BY <3>4 DEF Button!Next
  <2> QED  BY <2>1, <2>2, <2>3
<1>3. CASE LoadArmed(c)
  <2>r. \A v \in Callers \ {c} : Rests(v)
    BY <1>t, <1>3, OthersWait
  <2>1. /\ vpc[c] = "load" /\ guess'[c] = guess[c] /\ UNCHANGED <<disk, machine>>
        /\ \/ EffectivelyArmed(disk) /\ vpc'[c] = "compare" /\ hash'[c] = Loaded(disk).hash
           \/ ~EffectivelyArmed(disk) /\ vpc'[c] = "answer" /\ verdict'[c] = "not_armed"
    BY <1>t, <1>3 DEF TypeOK, LoadArmed, HasButton, GotoV, storeVars, hostVars
  <2>2. EffectivelyArmed(disk) => Loaded(disk).hash # NoHash
    BY DEF EffectivelyArmed
  <2>3. Judged[c] = "asked" /\ Tried[c] = guess[c] /\ Tried'[c] = Tried[c]
    BY <1>j, <1>k, <2>1
  <2>4. Judged'[c] = Button!Verdict(Tried[c])
    BY <1>k, <2>1, <2>2, <2>3 DEF Button!Verdict, ButtonOf
  <2>5. Judged' = [Judged EXCEPT ![c] = Button!Verdict(Tried[c])] /\ Tried' = [Tried EXCEPT ![c] = Tried[c]]
    BY <2>r, <2>3, <2>4, PictureOfOne
  <2>6. Tried' = Tried
    BY <2>5 DEF Tried
  <2>7. Button!Judge(c)
    BY <2>1, <2>3, <2>5, <2>6 DEF Button!Judge
  <2> QED  BY <2>7 DEF Button!Next
<1>4. CASE Compare(c)
  <2>1. /\ vpc[c] = "compare" /\ vpc'[c] = "answer" /\ guess'[c] = guess[c] /\ UNCHANGED <<disk, machine>>
        /\ verdict'[c] = IF guess[c] = hash[c] THEN "authorized" ELSE "wrong"
    BY <1>t, <1>4 DEF TypeOK, Compare, GotoV, storeVars, hostVars
  <2>2. Judged'[c] = Judged[c] /\ Tried'[c] = Tried[c]
    BY <1>j, <1>k, <2>1
  <2> QED  BY <1>s, <1>t, <1>4, <2>1, <2>2, OthersWait DEF Still
<1>5. ASSUME Answer(c) \/ Trigger(c) \/ ((CleanPoweroff(c) \/ ForcedPoweroff(c)) /\ ~PowerOff)
      PROVE  Button!Next \/ Still
  <2>r. \A v \in Callers \ {c} : Rests(v)
    BY <1>t, <1>5, OthersWait
  <2>1. /\ vpc[c] \in {"answer", "confirmed", "clean", "forced"} /\ UNCHANGED <<disk, machine>>
        /\ \/ Release(c)
           \/ vpc'[c] \in {"confirmed", "clean", "forced"} /\ UNCHANGED <<guess, verdict>>
    BY <1>t, <1>5 DEF TypeOK, Answer, Trigger, CleanPoweroff, ForcedPoweroff, Escalate, GotoV, storeVars, hostVars
  <2>2. Judged[c] = verdict[c] /\ verdict[c] \notin {"none", "asked"}
    BY <1>t, <1>j, <2>1 DEF VerdictFitsStage, AnsweredInv, TypeOK
  <2>3. CASE Release(c)
    BY <1>l, <2>r, <2>1, <2>2, <2>3 DEF Button!Next
  <2>4. CASE vpc'[c] \in {"confirmed", "clean", "forced"} /\ UNCHANGED <<guess, verdict>>
    <3>1. Judged'[c] = Judged[c] /\ Tried'[c] = Tried[c]
      BY <1>j, <1>k, <2>1, <2>2, <2>4
    <3> QED  BY <1>s, <2>r, <2>1, <3>1
  <2> QED  BY <2>1, <2>3, <2>4
<1>6. CASE (CleanPoweroff(c) \/ ForcedPoweroff(c)) /\ PowerOff
  <2>1. vpc[c] \in {"clean", "forced"}
    BY <1>6 DEF CleanPoweroff, ForcedPoweroff
  <2>2. Judged[c] = "authorized"
    BY <1>t, <1>j, <2>1 DEF VerdictFitsStage
  <2>3. Button!PowerOff(c)
    BY <1>6, <2>2, ForgetIsForget DEF PowerOff, Button!PowerOff
  <2> QED  BY <2>3 DEF Button!Next
<1> QED  BY <1>1, <1>2, <1>3, <1>4, <1>5, <1>6 DEF ServeCaller, Still

(* Every caller is judged at one instant of its own request by the button  *)
(* as it is then, and only a caller judged right switches the machine off  *)
(* (shutdown.go:69-70, api.go:395-431), for any number of callers,         *)
(* administrators, edits and restarts.                                     *)
THEOREM NotAusImplementsButton == Spec => ImplementsButton
<1>1. Init => Button!Init /\ AnsweredInv
  BY DEF Init, StoreInit, Button!Init, AnsweredInv, Judged, Tried, ButtonOf, EffectivelyArmed, Loaded, ZeroState
<1>2. NotAusInv /\ AnsweredInv /\ [Next]_vars => AnsweredInv'
  BY AnsweredStep
<1>3. NotAusInv /\ StoreInv /\ AnsweredInv /\ [Next]_vars =>
        [Button!Next]_<<ButtonOf(disk), Tried, Judged, machine>>
  <2> SUFFICES ASSUME NotAusInv, StoreInv, AnsweredInv, [Next]_vars
               PROVE  Button!Next \/ UNCHANGED <<ButtonOf(disk), Tried, Judged, machine>>
    OBVIOUS
  <2>1. ASSUME UNCHANGED <<vpc, guess, hash, verdict, machine>>
        PROVE  Button!Configure
    <3>1. Judged' = Judged /\ Tried' = Tried
      BY <2>1, PictureOfNone DEF Rests
    <3>2. disk' \in DiskContent
      BY StepIsStoreStep, StoreTypeStep DEF StoreTypeOK
    <3>3. ButtonOf(disk)' \in Passwords \cup {NoHash}
      BY <3>2, ButtonIsKnown
    <3> QED  BY <2>1, <3>1, <3>3 DEF Button!Configure
  <2>2. CASE \E r \in Requests : AdminReceive(r) \/ AdminServe(r)
    BY <2>1, <2>2 DEF AdminReceive, AdminServe, verifyVars, hostVars, Button!Next
  <2>3. CASE Edit \/ Tick \/ Terminate \/ UNCHANGED vars
    BY <2>1, <2>3 DEF Edit, Tick, Terminate, vars, verifyVars, hostVars, Button!Next
  <2>4. CASE Exit
    BY <2>4, ForgetIsForget DEF Exit, Button!Stop, Button!Next
  <2>5. CASE Start
    <3>1. Judged' = Judged /\ Tried' = Tried /\ disk' = disk /\ machine' = "on"
      BY <2>5, PictureOfNone DEF Start, Rests, verifyVars, storeVars
    <3> QED  BY <3>1 DEF Button!PowerOn, Button!Next
  <2>6. CASE \E c \in Callers : Arrive(c) \/ ServeCaller(c)
    BY <2>6, CallerKeepsButton
  <2> QED  BY <2>2, <2>3, <2>4, <2>5, <2>6 DEF Next
<1> QED
  BY <1>1, <1>2, <1>3, NotAusInvariant, NotAusStoreIsSafe, PTL DEF Spec, ImplementsButton, Button!Spec
================================================================================
