--------------------------------- MODULE Views ---------------------------------
(***************************************************************************)
(* Requests of several users to the daemon: the guard that admits them,    *)
(* and the handlers that show a cached inventory without the values their  *)
(* user has no right to.  Handlers run in parallel and the cache is shared *)
(* by reference, so each has to copy what it redacts.                      *)
(*                                                                         *)
(* Abstractions: a field the handlers withhold is named after the right    *)
(* that opens it; a slice is the set of fields still in it; a token is     *)
(* good or not.                                                            *)
(***************************************************************************)
EXTENDS Naturals

CONSTANTS
  Readers,   \* users with one request at a time
  Rights,    \* fine-grained rights, each opening one field
  Derived,   \* fields that say something of a withheld one, and are not withheld
  Admin,     \* the group that holds every right
  Memberships, \* the sets of groups an account may have
  Routes,    \* perm: the rights one must hold; csrf; shared: served from the cache
  Slices     \* bound: slices the cache may be using or have used

ASSUME ViewsConstants ==
  /\ Memberships \subseteq SUBSET (Rights \cup {Admin})
  /\ Admin \notin Rights /\ Derived \cap Rights = {} /\ Slices \cap Readers = {}
  /\ Routes \subseteq [perm : SUBSET Rights, csrf : BOOLEAN, shared : BOOLEAN]

VARIABLES
  groups,   \* the Linux groups of each user; NoAccount: it was deleted
  heap,     \* the fields in each slice: of the cache, and a reader's own
  cache,    \* the slice the cache points to
  req       \* what each request is at
viewsVars == <<groups, heap, cache, req>>

(* HealthReason may name the temperature or a raw counter and AgePercent   *)
(* comes from the power-on hours; the handlers leave both to everybody.    *)
ViewFields == Rights \cup Derived

None == "none"
NoAccount == {None}
NoRequest == [at |-> "idle", route |-> None, user |-> {}, ref |-> None, shown |-> {}]

ViewsInit ==
  /\ groups \in [Readers -> Memberships]
  /\ heap = [s \in Slices \cup Readers |-> ViewFields]
  /\ cache \in Slices
  /\ req = [r \in Readers |-> NoRequest]

Can(user, right) == Admin \in user \/ right \in user
Hidden(r) == {v \in Rights : ~Can(req[r].user, v)}

--------------------------------------------------------------------------------
(* Rights are given and taken, accounts deleted; a collector publishes a   *)
(* new slice instead of the one before.                                    *)
Regroup(r) ==
  /\ \E G \in Memberships \cup {NoAccount} : groups' = [groups EXCEPT ![r] = G]
  /\ UNCHANGED <<heap, cache, req>>

Refresh ==
  /\ \E s \in Slices \ ({cache} \cup {req[r].ref : r \in Readers}) :
       /\ cache' = s
       /\ heap' = [heap EXCEPT ![s] = ViewFields]
  /\ UNCHANGED <<groups, req>>

(* The guard: an access token of an account that still exists, the right   *)
(* of the route and, where it changes something, the CSRF header.  What    *)
(* the user may is read once, here.                                        *)
MayUse(r, route) == \A p \in route.perm : Can(groups[r], p)

Arrive(r, route, token, header) ==
  /\ req[r].at = "idle"
  /\ req' = [req EXCEPT ![r] =
       IF ~token \/ groups[r] = NoAccount THEN [NoRequest EXCEPT !.at = "401"]
       ELSE IF ~MayUse(r, route) \/ (route.csrf /\ ~header)
            THEN [NoRequest EXCEPT !.at = "403"]
       ELSE [at |-> "fetch", route |-> route, user |-> groups[r], ref |-> None, shown |-> {}]]
  /\ UNCHANGED <<groups, heap, cache>>

(* The handler takes the cached slice, by reference, or builds its own.    *)
Fetch(r) ==
  /\ req[r].at = "fetch"
  /\ IF req[r].route.shared
     THEN req' = [req EXCEPT ![r].at = "copy", ![r].ref = cache] /\ UNCHANGED heap
     ELSE /\ req' = [req EXCEPT ![r].at = "redact", ![r].ref = r]
          /\ heap' = [heap EXCEPT ![r] = ViewFields]
  /\ UNCHANGED <<groups, cache>>

(* A handler that will redact anything copies the slice first.             *)
RedactInPlace(r) ==                                     \* mutant of CopySlice
  /\ req[r].at = "copy"
  /\ req' = [req EXCEPT ![r].at = "redact"]
  /\ UNCHANGED <<groups, heap, cache>>
CopySlice(r) ==
  /\ req[r].at = "copy"
  /\ IF Hidden(r) = {}
     THEN req' = [req EXCEPT ![r].at = "redact"] /\ UNCHANGED heap
     ELSE /\ req' = [req EXCEPT ![r].at = "redact", ![r].ref = r]
          /\ heap' = [heap EXCEPT ![r] = heap[req[r].ref]]
  /\ UNCHANGED <<groups, cache>>

Redact(r) ==
  /\ req[r].at = "redact"
  /\ \/ \E v \in Hidden(r) \cap heap[req[r].ref] : heap' = [heap EXCEPT ![req[r].ref] = @ \ {v}] /\ UNCHANGED req
     \/ /\ Hidden(r) \cap heap[req[r].ref] = {}
        /\ req' = [req EXCEPT ![r].at = "write"] /\ UNCHANGED heap
  /\ UNCHANGED <<groups, cache>>

(* The answer is encoded from the slice while others go on.                *)
WriteAnswer(r) ==
  /\ req[r].at = "write"
  /\ req' = [req EXCEPT ![r].at = "200", ![r].ref = None, ![r].shown = heap[req[r].ref]]
  /\ UNCHANGED <<groups, heap, cache>>

Leave(r) ==
  /\ req[r].at \in {"200", "401", "403"}
  /\ req' = [req EXCEPT ![r] = NoRequest]
  /\ heap' = [heap EXCEPT ![r] = ViewFields]
  /\ UNCHANGED <<groups, cache>>

ViewsNext ==
  \/ Refresh
  \/ \E r \in Readers :
       \/ Regroup(r)
       \/ \E route \in Routes, token, header \in BOOLEAN : Arrive(r, route, token, header)
       \/ Fetch(r) \/ CopySlice(r) \/ Redact(r) \/ WriteAnswer(r) \/ Leave(r)

ViewsSpec == ViewsInit /\ [][ViewsNext]_viewsVars

--------------------------------------------------------------------------------
(* What an answer shows of the fields the handlers withhold is decided by  *)
(* its user's rights alone: every field the user holds the right to, none  *)
(* of the others, whatever the requests of other users redact at the same  *)
(* time; nothing else is lost from it, and the cache stays whole.  What a  *)
(* derived field gives away of a withheld one is not withheld.             *)
RightsDecideWhatIsSeen ==
  /\ heap[cache] = ViewFields
  /\ \A r \in Readers :
       req[r].at = "200" =>
         /\ req[r].shown = Derived \cup (Rights \ Hidden(r))
         /\ \A p \in req[r].route.perm : Can(req[r].user, p)
================================================================================
