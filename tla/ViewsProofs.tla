------------------------------ MODULE ViewsProofs ------------------------------
(***************************************************************************)
(* Proofs about Views, for any number of users, rights, routes and slices. *)
(*                                                                         *)
(* The invariant follows a handler through its steps: which slice it may   *)
(* hold, the cache's or its own, and how much of it is redacted.  What     *)
(* makes it work is that a slice of the cache is only ever held by a       *)
(* handler that has nothing to redact, or has not copied it yet.           *)
(***************************************************************************)
EXTENDS Views, TLAPS

Steps == {"idle", "fetch", "copy", "redact", "write", "200", "401", "403"}
Accounts == SUBSET (Rights \cup {Admin, None})
Requests ==
  [at : Steps, route : Routes \cup {None}, user : Accounts,
   ref : Slices \cup Readers \cup {None}, shown : SUBSET ViewFields]

ViewsTypeOK ==
  /\ groups \in [Readers -> Accounts]
  /\ heap \in [Slices \cup Readers -> SUBSET ViewFields]
  /\ cache \in Slices
  /\ req \in [Readers -> Requests]

(* A slice of the cache held by handler r is whole.                        *)
Shared(r) == req[r].ref \in Slices /\ heap[req[r].ref] = ViewFields
(* Handler r has the right its route asks for.                             *)
Admitted(r) == \A p \in req[r].route.perm : Can(req[r].user, p)

HandlerOK(r) ==
  /\ req[r].at \in {"fetch", "copy", "redact", "write", "200"} => Admitted(r)
  /\ req[r].at = "copy" => Shared(r)
  /\ req[r].at = "redact" =>
       \/ Shared(r) /\ Hidden(r) = {}
       \/ req[r].ref = r /\ ViewFields \ Hidden(r) \subseteq heap[r]
  /\ req[r].at = "write" =>
       \/ Shared(r) /\ Hidden(r) = {}
       \/ req[r].ref = r /\ heap[r] = ViewFields \ Hidden(r)
  /\ req[r].at = "200" => req[r].shown = ViewFields \ Hidden(r)

ViewsInv ==
  /\ ViewsTypeOK
  /\ heap[cache] = ViewFields
  /\ \A r \in Readers : HandlerOK(r)

--------------------------------------------------------------------------------
(* A handler that a step leaves where it is, and whose slices it leaves as *)
(* they are, stays right.                                                  *)
LEMMA HandlerUntouched ==
  ASSUME NEW r \in Readers, HandlerOK(r), req'[r] = req[r],
         \A s \in Slices \cup {r} : heap'[s] = heap[s]
  PROVE  HandlerOK(r)'
<1>1. Hidden(r)' = Hidden(r)
  BY DEF Hidden, Can
<1>2. Shared(r)' <=> Shared(r)
  BY DEF Shared
<1>3. Admitted(r)' <=> Admitted(r)
  BY DEF Admitted, Can
<1> QED  BY <1>1, <1>2, <1>3 DEF HandlerOK

(* The initial states satisfy the invariant.                               *)
LEMMA ViewsInitInv == ASSUME ViewsInit PROVE ViewsInv
<1> USE ViewsConstants
<1>1. ViewsTypeOK
  <2>1. groups \in [Readers -> Accounts]
    BY DEF ViewsInit, Accounts
  <2>2. NoRequest \in Requests
    BY DEF NoRequest, Requests, Steps, Accounts
  <2> QED  BY <2>1, <2>2 DEF ViewsInit, ViewsTypeOK
<1>2. heap[cache] = ViewFields
  BY DEF ViewsInit
<1>3. \A r \in Readers : HandlerOK(r)
  BY DEF ViewsInit, HandlerOK, NoRequest
<1> QED  BY <1>1, <1>2, <1>3 DEF ViewsInv

(* Every step preserves the invariant.                                     *)
LEMMA ViewsStepInv == ASSUME ViewsInv, [ViewsNext]_viewsVars PROVE ViewsInv'
<1> USE ViewsConstants
<1>t. ViewsTypeOK /\ heap[cache] = ViewFields
  BY DEF ViewsInv
<1>h. \A r \in Readers : HandlerOK(r)
  BY DEF ViewsInv
<1>c. cache \in Slices
  BY <1>t DEF ViewsTypeOK
<1>req. \A r \in Readers : req[r] \in Requests
  BY <1>t DEF ViewsTypeOK
<1>1. CASE Refresh
  <2>1. PICK s \in Slices \ ({cache} \cup {req[r].ref : r \in Readers}) :
          cache' = s /\ heap' = [heap EXCEPT ![s] = ViewFields]
    BY <1>1 DEF Refresh
  <2>2. UNCHANGED <<groups, req>>
    BY <1>1 DEF Refresh
  <2>3. heap' \in [Slices \cup Readers -> SUBSET ViewFields] /\ heap'[cache'] = ViewFields
    BY <2>1, <1>t DEF ViewsTypeOK
  <2>4. ASSUME NEW r \in Readers PROVE HandlerOK(r)'
    <3>1. s # req[r].ref /\ s # r
      BY <2>1
    <3>2. heap'[r] = heap[r]
      BY <3>1, <2>1, <1>t DEF ViewsTypeOK
    <3>3. req[r].ref \in Slices \cup Readers => heap'[req[r].ref] = heap[req[r].ref]
      BY <3>1, <2>1, <1>t DEF ViewsTypeOK
    <3>4. Hidden(r)' = Hidden(r) /\ (Admitted(r)' <=> Admitted(r))
      BY <2>2 DEF Hidden, Can, Admitted
    <3>5. Shared(r) => Shared(r)'
      BY <2>2, <3>3 DEF Shared
    <3>6. HandlerOK(r)
      BY <1>h
    <3> QED  BY <3>2, <3>4, <3>5, <3>6, <2>2 DEF HandlerOK
  <2> QED  BY <2>1, <2>2, <2>3, <2>4, <1>t DEF ViewsInv, ViewsTypeOK
<1>2. ASSUME NEW r \in Readers, Regroup(r) PROVE ViewsInv'
  <2>1. UNCHANGED <<heap, cache, req>> /\ groups' \in [Readers -> Accounts]
    BY <1>2, <1>t DEF Regroup, ViewsTypeOK, Accounts, NoAccount
  <2>2. ASSUME NEW q \in Readers PROVE HandlerOK(q)'
    BY <1>h, <2>1, HandlerUntouched
  <2> QED  BY <2>1, <2>2, <1>t DEF ViewsInv, ViewsTypeOK
<1>3. ASSUME NEW r \in Readers, NEW route \in Routes, NEW token \in BOOLEAN, NEW header \in BOOLEAN,
             Arrive(r, route, token, header)
      PROVE  ViewsInv'
  <2>1. UNCHANGED <<groups, heap, cache>>
    BY <1>3 DEF Arrive
  <2>2. PICK x \in Requests :
          /\ req' = [req EXCEPT ![r] = x]
          /\ \/ x.at \in {"401", "403"}
             \/ x.at = "fetch" /\ x.route = route /\ x.user = groups[r] /\ MayUse(r, route)
    <3>1. NoRequest \in Requests
      BY DEF NoRequest, Requests, Steps, Accounts
    <3>2. [NoRequest EXCEPT !.at = "401"] \in Requests /\ [NoRequest EXCEPT !.at = "403"] \in Requests
      BY <3>1 DEF Requests, Steps
    <3>3. [NoRequest EXCEPT !.at = "401"].at = "401" /\ [NoRequest EXCEPT !.at = "403"].at = "403"
      BY <3>1 DEF Requests
    <3>4. groups[r] \in Accounts
      BY <1>t DEF ViewsTypeOK
    <3>5. [at |-> "fetch", route |-> route, user |-> groups[r], ref |-> None, shown |-> {}] \in Requests
      BY <3>4 DEF Requests, Steps
    <3> QED  BY <1>3, <3>2, <3>3, <3>5 DEF Arrive
  <2>3. req' \in [Readers -> Requests]
    BY <2>2, <1>t DEF ViewsTypeOK
  <2>4. ASSUME NEW q \in Readers PROVE HandlerOK(q)'
    <3>1. CASE q # r
      BY <3>1, <2>1, <2>2, <1>h, <1>t, HandlerUntouched DEF ViewsTypeOK
    <3>2. CASE q = r
      <4>1. req'[q] = x
        BY <3>2, <2>2, <1>t DEF ViewsTypeOK
      <4>2. CASE x.at \in {"401", "403"}
        BY <4>1, <4>2 DEF HandlerOK
      <4>3. CASE x.at = "fetch" /\ x.route = route /\ x.user = groups[r] /\ MayUse(r, route)
        <5>1. Admitted(q)'
          BY <4>1, <4>3 DEF Admitted, MayUse, Can
        <5> QED  BY <4>1, <4>3, <5>1 DEF HandlerOK
      <4> QED  BY <4>2, <4>3, <2>2
    <3> QED  BY <3>1, <3>2
  <2> QED  BY <2>1, <2>3, <2>4, <1>t DEF ViewsInv, ViewsTypeOK
<1>u. ASSUME NEW r \in Readers, \A q \in Readers \ {r} : req'[q] = req[q],
             \A s \in (Slices \cup Readers) \ {r} : heap'[s] = heap[s]
      PROVE  \A q \in Readers \ {r} : HandlerOK(q)'
  BY <1>u, <1>h, HandlerUntouched
<1>4. ASSUME NEW r \in Readers, Fetch(r) PROVE ViewsInv'
  <2>a. req[r].at = "fetch" /\ UNCHANGED <<groups, cache>> /\ Admitted(r)
    BY <1>4, <1>h DEF Fetch, HandlerOK
  <2>1. CASE req[r].route.shared
    <3> DEFINE x == [[req[r] EXCEPT !.at = "copy"] EXCEPT !.ref = cache]
    <3>1. req' = [req EXCEPT ![r] = x] /\ heap' = heap
      BY <1>4, <2>1, <1>t DEF Fetch, ViewsTypeOK
    <3>2. /\ x \in Requests /\ x.at = "copy" /\ x.ref = cache
          /\ x.route = req[r].route /\ x.user = req[r].user
      BY <1>req, <1>c DEF Requests, Steps
    <3> HIDE DEF x
    <3>3. req' \in [Readers -> Requests] /\ req'[r] = x /\ \A q \in Readers \ {r} : req'[q] = req[q]
      BY <3>1, <3>2, <1>t DEF ViewsTypeOK
    <3>4. HandlerOK(r)'
      <4>1. Admitted(r)' /\ Shared(r)'
        BY <2>a, <3>1, <3>2, <3>3, <1>t DEF Admitted, Can, Shared, ViewsTypeOK
      <4> QED  BY <4>1, <3>2, <3>3 DEF HandlerOK
    <3> QED  BY <3>1, <3>3, <3>4, <2>a, <1>u, <1>t DEF ViewsInv, ViewsTypeOK
  <2>2. CASE ~req[r].route.shared
    <3> DEFINE x == [[req[r] EXCEPT !.at = "redact"] EXCEPT !.ref = r]
    <3>1. req' = [req EXCEPT ![r] = x] /\ heap' = [heap EXCEPT ![r] = ViewFields]
      BY <1>4, <2>2, <1>t DEF Fetch, ViewsTypeOK
    <3>2. /\ x \in Requests /\ x.at = "redact" /\ x.ref = r
          /\ x.route = req[r].route /\ x.user = req[r].user
      BY <1>req, <1>c DEF Requests, Steps
    <3> HIDE DEF x
    <3>3. req' \in [Readers -> Requests] /\ req'[r] = x /\ \A q \in Readers \ {r} : req'[q] = req[q]
      BY <3>1, <3>2, <1>t DEF ViewsTypeOK
    <3>4. /\ heap' \in [Slices \cup Readers -> SUBSET ViewFields] /\ heap'[r] = ViewFields
          /\ \A s \in (Slices \cup Readers) \ {r} : heap'[s] = heap[s]
      BY <3>1, <1>t DEF ViewsTypeOK
    <3>5. HandlerOK(r)'
      <4>1. Admitted(r)'
        BY <2>a, <3>2, <3>3 DEF Admitted, Can
      <4> QED  BY <4>1, <3>2, <3>3, <3>4 DEF HandlerOK, Hidden
    <3>6. heap'[cache'] = ViewFields
      BY <3>4, <2>a, <1>t DEF ViewsTypeOK
    <3> QED  BY <3>3, <3>4, <3>5, <3>6, <2>a, <1>u, <1>t DEF ViewsInv, ViewsTypeOK
  <2> QED  BY <2>1, <2>2
<1>5. ASSUME NEW r \in Readers, CopySlice(r) PROVE ViewsInv'
  <2>a. req[r].at = "copy" /\ UNCHANGED <<groups, cache>> /\ Admitted(r) /\ Shared(r)
    BY <1>5, <1>h DEF CopySlice, HandlerOK
  <2>1. CASE Hidden(r) = {}
    <3> DEFINE x == [req[r] EXCEPT !.at = "redact"]
    <3>1. req' = [req EXCEPT ![r] = x] /\ heap' = heap
      BY <1>5, <2>1, <1>t DEF CopySlice, ViewsTypeOK
    <3>2. /\ x \in Requests /\ x.at = "redact" /\ x.ref = req[r].ref
          /\ x.route = req[r].route /\ x.user = req[r].user
      BY <1>req, <1>c DEF Requests, Steps
    <3> HIDE DEF x
    <3>3. req' \in [Readers -> Requests] /\ req'[r] = x /\ \A q \in Readers \ {r} : req'[q] = req[q]
      BY <3>1, <3>2, <1>t DEF ViewsTypeOK
    <3>4. HandlerOK(r)'
      <4>1. Admitted(r)' /\ Shared(r)'
        BY <2>a, <3>1, <3>2, <3>3 DEF Admitted, Can, Shared
      <4>2. Hidden(r)' = {}
        BY <2>1, <3>2, <3>3 DEF Hidden, Can
      <4> QED  BY <4>1, <4>2, <3>2, <3>3 DEF HandlerOK
    <3> QED  BY <3>1, <3>3, <3>4, <2>a, <1>u, <1>t DEF ViewsInv, ViewsTypeOK
  <2>2. CASE Hidden(r) # {}
    <3> DEFINE x == [[req[r] EXCEPT !.at = "redact"] EXCEPT !.ref = r]
    <3>1. req' = [req EXCEPT ![r] = x] /\ heap' = [heap EXCEPT ![r] = ViewFields]
      BY <1>5, <2>2, <2>a, <1>t DEF CopySlice, Shared, ViewsTypeOK
    <3>2. /\ x \in Requests /\ x.at = "redact" /\ x.ref = r
          /\ x.route = req[r].route /\ x.user = req[r].user
      BY <1>req, <1>c DEF Requests, Steps
    <3> HIDE DEF x
    <3>3. req' \in [Readers -> Requests] /\ req'[r] = x /\ \A q \in Readers \ {r} : req'[q] = req[q]
      BY <3>1, <3>2, <1>t DEF ViewsTypeOK
    <3>4. /\ heap' \in [Slices \cup Readers -> SUBSET ViewFields] /\ heap'[r] = ViewFields
          /\ \A s \in (Slices \cup Readers) \ {r} : heap'[s] = heap[s]
      BY <3>1, <1>t DEF ViewsTypeOK
    <3>5. HandlerOK(r)'
      <4>1. Admitted(r)'
        BY <2>a, <3>2, <3>3 DEF Admitted, Can
      <4> QED  BY <4>1, <3>2, <3>3, <3>4 DEF HandlerOK, Hidden
    <3>6. heap'[cache'] = ViewFields
      BY <3>4, <2>a, <1>t DEF ViewsTypeOK
    <3> QED  BY <3>3, <3>4, <3>5, <3>6, <2>a, <1>u, <1>t DEF ViewsInv, ViewsTypeOK
  <2> QED  BY <2>1, <2>2
<1>6. ASSUME NEW r \in Readers, Redact(r) PROVE ViewsInv'
  <2>a. req[r].at = "redact" /\ UNCHANGED <<groups, cache>> /\ Admitted(r)
    BY <1>6, <1>h DEF Redact, HandlerOK
  <2>b. \/ Shared(r) /\ Hidden(r) = {}
        \/ req[r].ref = r /\ ViewFields \ Hidden(r) \subseteq heap[r]
    BY <2>a, <1>h DEF HandlerOK
  <2>1. ASSUME NEW v \in Hidden(r) \cap heap[req[r].ref],
               heap' = [heap EXCEPT ![req[r].ref] = @ \ {v}], UNCHANGED req
        PROVE  ViewsInv'
    <3>1. req[r].ref = r /\ ViewFields \ Hidden(r) \subseteq heap[r]
      BY <2>1, <2>b
    <3>2. /\ heap' \in [Slices \cup Readers -> SUBSET ViewFields] /\ heap'[r] = heap[r] \ {v}
          /\ \A s \in (Slices \cup Readers) \ {r} : heap'[s] = heap[s]
      BY <2>1, <3>1, <1>t DEF ViewsTypeOK
    <3>3. HandlerOK(r)'
      <4>1. Admitted(r)' /\ Hidden(r)' = Hidden(r)
        BY <2>a, <2>1 DEF Admitted, Hidden, Can
      <4>2. ViewFields \ Hidden(r)' \subseteq heap'[r]
        BY <4>1, <3>1, <3>2, <2>1
      <4> QED  BY <4>1, <4>2, <2>1, <2>a, <3>1 DEF HandlerOK
    <3>4. heap'[cache'] = ViewFields
      BY <3>2, <2>a, <1>t DEF ViewsTypeOK
    <3> QED  BY <3>2, <3>3, <3>4, <2>1, <2>a, <1>u, <1>t DEF ViewsInv, ViewsTypeOK
  <2>2. CASE /\ Hidden(r) \cap heap[req[r].ref] = {}
             /\ req' = [req EXCEPT ![r].at = "write"] /\ UNCHANGED heap
    <3> DEFINE x == [req[r] EXCEPT !.at = "write"]
    <3>1. req' = [req EXCEPT ![r] = x] /\ heap' = heap
      BY <2>2, <1>t DEF ViewsTypeOK
    <3>2. /\ x \in Requests /\ x.at = "write" /\ x.ref = req[r].ref
          /\ x.route = req[r].route /\ x.user = req[r].user
      BY <1>req, <1>c DEF Requests, Steps
    <3> HIDE DEF x
    <3>3. req' \in [Readers -> Requests] /\ req'[r] = x /\ \A q \in Readers \ {r} : req'[q] = req[q]
      BY <3>1, <3>2, <1>t DEF ViewsTypeOK
    <3>4. HandlerOK(r)'
      <4>1. Admitted(r)' /\ Hidden(r)' = Hidden(r) /\ (Shared(r) => Shared(r)')
        BY <2>a, <3>1, <3>2, <3>3 DEF Admitted, Can, Shared, Hidden
      <4>2. heap[r] \subseteq ViewFields
        BY <1>t DEF ViewsTypeOK
      <4>3. req[r].ref = r /\ ViewFields \ Hidden(r) \subseteq heap[r] => heap'[r] = ViewFields \ Hidden(r)'
        BY <4>1, <4>2, <2>2, <3>1
      <4> QED  BY <4>1, <4>3, <2>b, <3>2, <3>3 DEF HandlerOK
    <3> QED  BY <3>1, <3>3, <3>4, <2>a, <1>u, <1>t DEF ViewsInv, ViewsTypeOK
  <2> QED  BY <2>1, <2>2, <1>6 DEF Redact
<1>7. ASSUME NEW r \in Readers, WriteAnswer(r) PROVE ViewsInv'
  <2>a. req[r].at = "write" /\ UNCHANGED <<groups, heap, cache>> /\ Admitted(r)
    BY <1>7, <1>h DEF WriteAnswer, HandlerOK
  <2>b. heap[req[r].ref] = ViewFields \ Hidden(r)
    BY <2>a, <1>h DEF HandlerOK, Shared
  <2> DEFINE x == [[[req[r] EXCEPT !.at = "200"] EXCEPT !.ref = None] EXCEPT !.shown = ViewFields \ Hidden(r)]
  <2>1. req' = [req EXCEPT ![r] = x]
    BY <1>7, <2>b, <1>t DEF WriteAnswer, ViewsTypeOK
  <2>2. /\ x \in Requests /\ x.at = "200" /\ x.shown = ViewFields \ Hidden(r)
        /\ x.route = req[r].route /\ x.user = req[r].user
    BY <1>req DEF Requests, Steps
  <2> HIDE DEF x
  <2>3. req' \in [Readers -> Requests] /\ req'[r] = x /\ \A q \in Readers \ {r} : req'[q] = req[q]
    BY <2>1, <2>2, <1>t DEF ViewsTypeOK
  <2>4. HandlerOK(r)'
    <3>1. Admitted(r)' /\ Hidden(r)' = Hidden(r)
      BY <2>a, <2>2, <2>3 DEF Admitted, Can, Hidden
    <3> QED  BY <3>1, <2>2, <2>3 DEF HandlerOK
  <2> QED  BY <2>3, <2>4, <2>a, <1>u, <1>t DEF ViewsInv, ViewsTypeOK
<1>8. ASSUME NEW r \in Readers, Leave(r) PROVE ViewsInv'
  <2>1. NoRequest \in Requests /\ NoRequest.at = "idle"
    BY DEF NoRequest, Requests, Steps, Accounts
  <2>2. UNCHANGED <<groups, cache>> /\ req' = [req EXCEPT ![r] = NoRequest] /\ heap' = [heap EXCEPT ![r] = ViewFields]
    BY <1>8 DEF Leave
  <2>3. req' \in [Readers -> Requests] /\ req'[r].at = "idle" /\ \A q \in Readers \ {r} : req'[q] = req[q]
    BY <2>1, <2>2, <1>t DEF ViewsTypeOK
  <2>4. /\ heap' \in [Slices \cup Readers -> SUBSET ViewFields] /\ heap'[cache'] = ViewFields
        /\ \A s \in (Slices \cup Readers) \ {r} : heap'[s] = heap[s]
    BY <2>2, <1>t DEF ViewsTypeOK
  <2>5. HandlerOK(r)'
    BY <2>3 DEF HandlerOK
  <2> QED  BY <2>2, <2>3, <2>4, <2>5, <1>u, <1>t DEF ViewsInv, ViewsTypeOK
<1>9. CASE UNCHANGED viewsVars
  <2>1. UNCHANGED <<groups, heap, cache, req>>
    BY <1>9 DEF viewsVars
  <2>2. \A r \in Readers : HandlerOK(r)'
    BY <2>1, <1>h, HandlerUntouched
  <2> QED  BY <2>1, <2>2, <1>t DEF ViewsInv, ViewsTypeOK
<1> QED
  BY <1>1, <1>2, <1>3, <1>4, <1>5, <1>6, <1>7, <1>8, <1>9 DEF ViewsNext

--------------------------------------------------------------------------------
(* The invariant holds for every number of users, rights and slices.       *)
THEOREM ViewsInvariant == ViewsSpec => []ViewsInv
<1>1. ViewsInit => ViewsInv
  BY ViewsInitInv
<1>2. ViewsInv /\ [ViewsNext]_viewsVars => ViewsInv'
  BY ViewsStepInv
<1> QED
  BY <1>1, <1>2, PTL DEF ViewsSpec

(* Of the fields the handlers withhold, an answer shows those its user has *)
(* the rights for and no other, and it lacks nothing else, however the     *)
(* handlers of other users interleave with it; what is redacted for one of *)
(* them never leaves the cache (api.go, the handlers that copy before they *)
(* redact).                                                                *)
THEOREM RightsDecide == ViewsSpec => []RightsDecideWhatIsSeen
<1>1. ViewsInv => RightsDecideWhatIsSeen
  <2>1. \A r \in Readers : ViewFields \ Hidden(r) = Derived \cup (Rights \ Hidden(r))
    BY ViewsConstants DEF ViewFields, Hidden
  <2> QED  BY <2>1 DEF ViewsInv, RightsDecideWhatIsSeen, HandlerOK, Admitted
<1> QED
  BY <1>1, ViewsInvariant, PTL
================================================================================
