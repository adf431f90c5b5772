------------------------------ MODULE ArmRegister ------------------------------
(***************************************************************************)
(* What the Not-Aus configuration promises its administrators: one record, *)
(* changed one field at a time.  A requested change of the password or of  *)
(* the arm flag either takes effect at one instant between its call and    *)
(* its return, on the record as it is at that instant, or leaves the       *)
(* record alone.  Module ShutdownStore implements this with a file, a lock *)
(* and a load-change-save sequence.                                        *)
(***************************************************************************)

CONSTANTS
  Requests,    \* concurrent administrator requests
  Changes,     \* the changes a request may ask for
  InitialRecord,
  NoChange,    \* the request is not changing anything at the moment
  Refuses(_, _),   \* Refuses(change, record): the change is invalid for it
  Result(_, _)     \* Result(change, record): the record after the change

VARIABLES
  record,      \* the current record
  asked        \* asked[r]: the change request r has called and not returned from

Init ==
  /\ record = InitialRecord
  /\ asked = [r \in Requests |-> NoChange]

Call(r, c) ==
  /\ asked[r] = NoChange
  /\ asked' = [asked EXCEPT ![r] = c]
  /\ UNCHANGED record

(* The change takes effect, on the record of this very instant, and the    *)
(* request goes on to its next change c or to none.                        *)
Apply(r, c) ==
  /\ asked[r] # NoChange
  /\ ~Refuses(asked[r], record)
  /\ record' = Result(asked[r], record)
  /\ asked' = [asked EXCEPT ![r] = c]

(* The change is refused, the disk fails, or the request is abandoned.     *)
GiveUp(r) ==
  /\ asked' = [asked EXCEPT ![r] = NoChange]
  /\ UNCHANGED record

(* The daemon stops: every unfinished request is abandoned.                *)
Stop ==
  /\ asked' = [r \in Requests |-> NoChange]
  /\ UNCHANGED record

Next ==
  \/ \E r \in Requests, c \in Changes : Call(r, c)
  \/ \E r \in Requests, c \in Changes \cup {NoChange} : Apply(r, c)
  \/ \E r \in Requests : GiveUp(r)
  \/ Stop

Spec == Init /\ [][Next]_<<record, asked>>
================================================================================
