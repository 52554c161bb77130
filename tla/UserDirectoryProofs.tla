------------------------ MODULE UserDirectoryProofs ------------------------
(***************************************************************************)
(* DirectoryKept is inductive, for any people, requests, roles and         *)
(* updates, and the properties of UserDirectory follow from it.            *)
(***************************************************************************)
EXTENDS UserDirectory, TLAPS

\* At the start nobody is blocked, nobody is erased, and nothing runs.
LEMMA InitKept == Init => DirectoryKept
<1> SUFFICES ASSUME Init PROVE DirectoryKept
  OBVIOUS
<1>1. TypeOK
  BY DirectoryNames, DirectoryNulls DEF Init, TypeOK, Row
<1>2. \A p \in People : person[p].name = "own" /\ ~Erased(p)
  BY DEF Init, Erased, Row
<1>3. \A r \in Requests : pc[r] = "idle"
  BY DEF Init
<1>4. OneHolder /\ \A r \in Requests : Judged(r)
  BY <1>3 DEF OneHolder, Judged, Inside
<1>5. \A p \in People : ChoiceShows(p)
  BY DEF Init, ChoiceShows, Row
<1> QED BY <1>1, <1>2, <1>4, <1>5 DEF DirectoryKept, ErasedBlocked

\* A request that is not the one that acts, and whose caller and target keep
\* what it was judged by, is judged still.
LEMMA JudgedKept ==
  ASSUME DirectoryKept, NEW r \in Requests, pc'[r] = pc[r],
         pc[r] \in Inside => request'[r].op = request[r].op,
         pc[r] \in {"judged", "loaded"} => request'[r] = request[r],
         \A p \in Holds(r) \cap People : person'[p] = person[p],
         pc[r] \in Inside => \A p \in People : Erased(p)' => Erased(p)
  PROVE  Judged(r)'
<1>1. CASE pc[r] \notin Inside
  BY <1>1 DEF Judged, Inside
<1>2. CASE pc[r] = "directory"
  BY <1>2 DEF Judged, Inside, OfWeb, DirectoryKept
<1>3. CASE pc[r] \in {"judged", "loaded"}
  <2>1. Judged(r) /\ request[r] \in Request
    BY <1>3 DEF DirectoryKept, TypeOK
  <2>2. OfWeb(r)' = OfWeb(r)
    BY <1>3 DEF OfWeb
  <2>3. OfWeb(r) => person'[request[r].caller] = person[request[r].caller]
    BY <1>3, <2>1 DEF Holds, Request, OfWeb
  <2>4. pc[r] = "loaded" /\ request[r].op = "anonymise"
          => person'[request[r].target] = person[request[r].target]
    BY <1>3, <2>1 DEF Holds, Request
  <2>5. pc[r] = "loaded" /\ OfWeb(r) => ~Erased(request[r].target)'
    BY <1>3, <2>1 DEF Judged, Request, Inside
  <2> QED BY <1>3, <2>1, <2>2, <2>3, <2>4, <2>5 DEF Judged, ActiveAdmin
<1> QED BY <1>1, <1>2, <1>3 DEF Inside

\* Only one request is behind the directory lock.
LEMMA OneInside ==
  ASSUME DirectoryKept, NEW r \in Requests, NEW v \in Requests, pc[r] \in Inside, pc[v] \in Inside
  PROVE  v = r
BY DEF DirectoryKept, OneHolder

\* A step that leaves the accounts and their choices alone and puts at most
\* one request elsewhere: what is left to show is that request's own part.
LEMMA OneMoves ==
  ASSUME DirectoryKept, NEW r \in Requests, TypeOK', UNCHANGED <<person, chosen>>,
         \A v \in Requests \ {r} : pc'[v] = pc[v] /\ request'[v] = request[v],
         \A v \in Requests \ {r} : pc[v] \in Inside => holder' = v,
         pc'[r] \in Inside => holder' = r,
         Judged(r)'
  PROVE  DirectoryKept'
<1>1. OneHolder'
  BY DEF DirectoryKept, OneHolder
<1>2. ASSUME NEW v \in Requests PROVE Judged(v)'
  <2>1. CASE v = r
    BY <2>1
  <2>2. CASE v # r
    BY <2>2, JudgedKept DEF Erased
  <2> QED BY <2>1, <2>2
<1>3. ErasedBlocked' /\ \A p \in People : ChoiceShows(p)'
  BY DEF DirectoryKept, ErasedBlocked, Erased, ChoiceShows
<1> QED BY <1>1, <1>2, <1>3 DEF DirectoryKept

LEMMA RefuseKept ==
  ASSUME DirectoryKept, NEW r \in Requests, Refuse(r) PROVE DirectoryKept'
<1>1. TypeOK'
  BY DEF DirectoryKept, TypeOK, Refuse, Go, Released
<1>2. pc'[r] = "idle" /\ \A v \in Requests \ {r} : pc'[v] = pc[v] /\ request'[v] = request[v]
  BY DEF DirectoryKept, TypeOK, Refuse, Go
<1>3. \A v \in Requests \ {r} : pc[v] \in Inside => holder' = v
  BY DEF DirectoryKept, OneHolder, Refuse, Released
<1>4. Judged(r)'
  BY <1>2 DEF Judged
<1> QED BY <1>1, <1>2, <1>3, <1>4, OneMoves DEF Refuse, Inside

LEMMA AskKept ==
  ASSUME DirectoryKept, NEW r \in Requests, NEW op \in {"update", "handBack", "anonymise"},
         NEW p \in People, NEW q \in People, NEW u \in Updates \cup {NoUpdate}, Ask(r, op, p, q, u)
  PROVE  DirectoryKept'
<1>1. u.role \in Roles \cup {NoRole} /\ u.switch \in Switch
  BY DirectoryNames DEF NoUpdate, Switch
<1> DEFINE asked == [op |-> op, caller |-> p, target |-> q, role |-> u.role, switch |-> u.switch,
                    current |-> TRUE, wasBlocked |-> FALSE]
<1>2. asked \in Request
  BY <1>1, DirectoryNames DEF Request, Ops
<1>3. request' = [request EXCEPT ![r] = asked]
  BY DEF Ask
<1> HIDE DEF asked
<1>4. TypeOK'
  BY <1>2, <1>3, DirectoryNulls DEF DirectoryKept, TypeOK, Ask, Go
<1>5. pc'[r] = "queued" /\ \A v \in Requests \ {r} : pc'[v] = pc[v] /\ request'[v] = request[v]
  BY DEF DirectoryKept, TypeOK, Ask, Go
<1>6. Judged(r)'
  BY <1>5 DEF Judged
<1> QED BY <1>4, <1>5, <1>6, OneMoves DEF Ask, Inside, DirectoryKept, OneHolder

LEMMA SignInKept ==
  ASSUME DirectoryKept, NEW r \in Requests, NEW p \in People, NEW role \in Roles \cup {NoRole},
         SignIn(r, p, role)
  PROVE  DirectoryKept'
<1> DEFINE asked == [op |-> "signIn", caller |-> Nobody, target |-> p, role |-> role, switch |-> Keep,
                    current |-> TRUE, wasBlocked |-> FALSE]
<1>1. asked \in Request
  BY DEF Request, Ops, Switch
<1>2. request' = [request EXCEPT ![r] = asked]
  BY DEF SignIn
<1> HIDE DEF asked
<1>3. TypeOK'
  BY <1>1, <1>2, DirectoryNulls DEF DirectoryKept, TypeOK, SignIn, Go
<1>4. pc'[r] = "queued" /\ \A v \in Requests \ {r} : pc'[v] = pc[v] /\ request'[v] = request[v]
  BY DEF DirectoryKept, TypeOK, SignIn, Go
<1>5. Judged(r)'
  BY <1>4 DEF Judged
<1> QED BY <1>3, <1>4, <1>5, OneMoves DEF SignIn, Inside, DirectoryKept, OneHolder

LEMMA TakeKept ==
  ASSUME DirectoryKept, NEW r \in Requests, TakeDirectory(r) PROVE DirectoryKept'
<1>1. TypeOK'
  BY DEF DirectoryKept, TypeOK, TakeDirectory, Go
<1>2. /\ pc'[r] = (IF OfWeb(r) THEN "directory" ELSE "judged")
      /\ \A v \in Requests \ {r} : pc'[v] = pc[v] /\ request'[v] = request[v]
  BY DEF DirectoryKept, TypeOK, TakeDirectory, Go
<1>3. \A v \in Requests : pc[v] \notin Inside
  BY DirectoryNames DEF DirectoryKept, OneHolder, TakeDirectory
<1>4. OfWeb(r)' = OfWeb(r)
  BY DEF OfWeb, TakeDirectory
<1>5. Judged(r)'
  BY <1>2, <1>4 DEF Judged
<1> QED BY <1>1, <1>2, <1>3, <1>5, OneMoves DEF TakeDirectory

LEMMA JudgeKept ==
  ASSUME DirectoryKept, NEW r \in Requests, JudgeCaller(r) PROVE DirectoryKept'
<1>1. TypeOK'
  BY DEF DirectoryKept, TypeOK, JudgeCaller, Go
<1>2. pc'[r] = "judged" /\ \A v \in Requests \ {r} : pc'[v] = pc[v] /\ request'[v] = request[v]
  BY DEF DirectoryKept, TypeOK, JudgeCaller, Go
<1>3. Judged(r)'
  BY <1>2 DEF Judged, JudgeCaller, ActiveAdmin, OfWeb
<1> QED BY <1>1, <1>2, <1>3, OneMoves DEF JudgeCaller, Inside, DirectoryKept, OneHolder

LEMMA LoadKept ==
  ASSUME DirectoryKept, NEW r \in Requests, LoadTarget(r) PROVE DirectoryKept'
<1>1. request[r] \in Request /\ person[request[r].target].blocked \in BOOLEAN
  BY DEF DirectoryKept, TypeOK, LoadTarget, Request, Row
<1>2. request' = [request EXCEPT ![r] = [request[r] EXCEPT !.wasBlocked = person[request[r].target].blocked]]
  BY DEF LoadTarget
<1>3. [request[r] EXCEPT !.wasBlocked = person[request[r].target].blocked] \in Request
  BY <1>1 DEF Request
<1>4. TypeOK'
  BY <1>2, <1>3, DirectoryNulls DEF DirectoryKept, TypeOK, LoadTarget, Go
<1>5. pc'[r] = "loaded" /\ \A v \in Requests \ {r} : pc'[v] = pc[v] /\ request'[v] = request[v]
  BY DEF DirectoryKept, TypeOK, LoadTarget, Go
<1>6. \A f \in {"op", "caller", "target", "role", "switch", "current"} : request'[r][f] = request[r][f]
  BY <1>1, <1>2 DEF DirectoryKept, TypeOK, Request
<1>7. Judged(r) /\ pc[r] = "judged" /\ OfWeb(r)
  BY DEF DirectoryKept, LoadTarget
<1>8. Judged(r)'
  BY <1>5, <1>6, <1>7 DEF Judged, LoadTarget, ActiveAdmin, OfWeb, Erased
<1> QED BY <1>4, <1>5, <1>8, OneMoves DEF LoadTarget, Inside, DirectoryKept, OneHolder

LEMMA LockIdentityKept ==
  ASSUME DirectoryKept, NEW r \in Requests, LockIdentity(r) PROVE DirectoryKept'
<1>1. TypeOK'
  BY DEF DirectoryKept, TypeOK, LockIdentity, Go
<1>2. pc'[r] = "loaded" /\ \A v \in Requests \ {r} : pc'[v] = pc[v] /\ request'[v] = request[v]
  BY DEF DirectoryKept, TypeOK, LockIdentity, Go
<1>3. Judged(r)'
  BY <1>2 DEF Judged, LockIdentity, OfWeb
<1> QED BY <1>1, <1>2, <1>3, OneMoves DEF LockIdentity, Inside, DirectoryKept, OneHolder

\* A commit is alone behind the lock: only the rows are left to show.
LEMMA CommitKept ==
  ASSUME DirectoryKept, NEW r \in Requests, pc[r] = "loaded", Go(r, "idle"), TypeOK',
         ErasedBlocked', \A p \in People : ChoiceShows(p)'
  PROVE  DirectoryKept'
<1>1. \A v \in Requests : pc'[v] \notin Inside
  BY OneInside DEF DirectoryKept, TypeOK, Go, Inside
<1> QED BY <1>1 DEF DirectoryKept, OneHolder, Judged, Inside

\* Outdating changes no more of a request than that.
LEMMA OutdatedTyped ==
  ASSUME NEW p, NEW q, q \in [Requests -> Request \cup {NoRequest}]
  PROVE  /\ Outdated(p, q) \in [Requests -> Request \cup {NoRequest}]
         /\ \A r \in Requests : q[r] # NoRequest =>
              /\ Outdated(p, q)[r] # NoRequest /\ Outdated(p, q)[r].op = q[r].op
              /\ q[r].caller # p => Outdated(p, q)[r] = q[r]
BY DirectoryNulls DEF Outdated, Request

\* An account that is written alone is held by nobody.
LEMMA AloneKept ==
  ASSUME DirectoryKept, NEW p \in People, Free(p), NEW row \in Row,
         person' = [person EXCEPT ![p] = row],
         request' = request \/ request' = Outdated(p, request),
         UNCHANGED <<holder, pc>>, chosen' \in [People -> Roles \cup {NoRole}],
         \A q \in People \ {p} : chosen'[q] = chosen[q],
         row.name = "former" => Erased(p) /\ row.blocked,
         ChoiceShows(p)'
  PROVE  DirectoryKept'
<1>1. TypeOK'
  <2>1. person' \in [People -> Row]
    BY DEF DirectoryKept, TypeOK
  <2>2. /\ request' \in [Requests -> Request \cup {NoRequest}]
        /\ \A r \in Requests : request[r] # NoRequest => request'[r] # NoRequest
    BY OutdatedTyped DEF DirectoryKept, TypeOK
  <2> QED BY <2>1, <2>2 DEF DirectoryKept, TypeOK
<1>2. OneHolder'
  BY DEF DirectoryKept, OneHolder
<1>3. person'[p] = row /\ \A q \in People \ {p} : person'[q] = person[q]
  BY DEF DirectoryKept, TypeOK
<1>4. \A q \in People : Erased(q)' => Erased(q)
  BY <1>3 DEF Erased
<1>5. ErasedBlocked'
  BY <1>3 DEF ErasedBlocked, Erased, DirectoryKept
<1>6. ASSUME NEW q \in People PROVE ChoiceShows(q)'
  BY <1>3 DEF ChoiceShows, DirectoryKept
<1>7. ASSUME NEW r \in Requests PROVE Judged(r)'
  <2>1. pc[r] \in Inside => request[r] # NoRequest /\ request[r] \in Request
    BY DEF Inside, DirectoryKept, TypeOK
  <2>2. pc[r] \in Inside => request'[r].op = request[r].op
    BY <2>1, OutdatedTyped DEF DirectoryKept, TypeOK
  <2>3. p \notin Holds(r)
    BY DEF Free
  <2>4. pc[r] \in {"judged", "loaded"} => request[r].caller # p
    <3>1. ASSUME pc[r] \in {"judged", "loaded"}, OfWeb(r) PROVE request[r].caller # p
      BY <2>3, <3>1 DEF Holds
    <3>2. ASSUME pc[r] \in {"judged", "loaded"}, ~OfWeb(r) PROVE request[r].caller # p
      BY <2>1, <3>2, DirectoryNames DEF Request, OfWeb, Inside
    <3> QED BY <3>1, <3>2
  <2>5. pc[r] \in {"judged", "loaded"} => request'[r] = request[r]
    BY <2>1, <2>4, OutdatedTyped DEF DirectoryKept, TypeOK, Inside
  <2>6. \A q \in Holds(r) \cap People : person'[q] = person[q]
    BY <1>3, <2>3
  <2> QED BY <1>4, <2>2, <2>5, <2>6, JudgedKept
<1> QED BY <1>1, <1>2, <1>5, <1>6, <1>7 DEF DirectoryKept

\* What a change of one row, and the choice that goes with it, must show.
LEMMA RowKept ==
  ASSUME DirectoryKept, NEW p \in People, NEW row \in Row, NEW choice \in Roles \cup {NoRole},
         person' = [person EXCEPT ![p] = row], chosen' = [chosen EXCEPT ![p] = choice],
         row.name = "former" => row.blocked,
         choice # NoRole => /\ row.role = choice
                            /\ row.source = "manual" \/ row.applied \notin {NoRole, row.role}
  PROVE  /\ person' \in [People -> Row] /\ chosen' \in [People -> Roles \cup {NoRole}]
         /\ ErasedBlocked' /\ \A q \in People : ChoiceShows(q)'
<1>1. person' \in [People -> Row] /\ chosen' \in [People -> Roles \cup {NoRole}]
  BY DEF DirectoryKept, TypeOK
<1>2. /\ person'[p] = row /\ chosen'[p] = choice
      /\ \A q \in People \ {p} : person'[q] = person[q] /\ chosen'[q] = chosen[q]
  BY DEF DirectoryKept, TypeOK
<1>3. ErasedBlocked'
  BY <1>2 DEF ErasedBlocked, Erased, DirectoryKept
<1>4. ASSUME NEW q \in People PROVE ChoiceShows(q)'
  BY <1>2 DEF ChoiceShows, DirectoryKept
<1> QED BY <1>1, <1>3, <1>4

\* The roles an update and a sign-in leave, and their rows' types.
LEMMA RowsTyped ==
  ASSUME NEW row \in Row, NEW role \in Roles \cup {NoRole}, NEW switch \in Switch
  PROVE  /\ Assigned(row, role) \in Row /\ Assigned(row, role).name = row.name
         /\ Assigned(row, role).blocked = row.blocked
         /\ role = NoRole => Assigned(row, role) = row
         /\ role # NoRole => Assigned(row, role).role = role /\ Assigned(row, role).source = "manual"
         /\ Switched(row, switch) \in Row /\ Switched(row, switch).name = row.name
         /\ Switched(row, switch).role = row.role /\ Switched(row, switch).source = row.source
         /\ Switched(row, switch).applied = row.applied
         /\ Synced(row, role) \in Row /\ Synced(row, role).name = row.name
         /\ Synced(row, role).blocked = row.blocked
<1>1. /\ Assigned(row, role) \in Row /\ Assigned(row, role).name = row.name
      /\ Assigned(row, role).blocked = row.blocked
      /\ role = NoRole => Assigned(row, role) = row
      /\ role # NoRole => Assigned(row, role).role = role /\ Assigned(row, role).source = "manual"
  BY DEF Assigned, Row
<1>2. (switch = "block") \in BOOLEAN
  OBVIOUS
<1>3. /\ Switched(row, switch) \in Row /\ Switched(row, switch).name = row.name
      /\ Switched(row, switch).role = row.role /\ Switched(row, switch).source = row.source
      /\ Switched(row, switch).applied = row.applied
  BY <1>2 DEF Switched, Row
<1>4. /\ Synced(row, role) \in Row /\ Synced(row, role).name = row.name
      /\ Synced(row, role).blocked = row.blocked
  BY DEF Synced, Row
<1> QED BY <1>1, <1>3, <1>4

\* What a request that commits knows.
LEMMA CommitKnows ==
  ASSUME DirectoryKept, NEW r \in Requests, pc[r] = "loaded"
  PROVE  /\ request[r] \in Request /\ request[r].target \in People
         /\ person[request[r].target] \in Row /\ Judged(r)
         /\ chosen[request[r].target] \in Roles \cup {NoRole}
         /\ request[r].role \in Roles \cup {NoRole} /\ request[r].switch \in Switch
<1>1. request[r] \in Request
  BY DEF DirectoryKept, TypeOK
<1>2. request[r].target \in People /\ request[r].role \in Roles \cup {NoRole} /\ request[r].switch \in Switch
  BY <1>1 DEF Request
<1> QED BY <1>1, <1>2 DEF DirectoryKept, TypeOK

\* A request that has ended is typed, whomever it outdated.
LEMMA EndedTyped ==
  ASSUME DirectoryKept, NEW r \in Requests, pc[r] = "loaded", Go(r, "idle"), NEW p,
         LET ended == [request EXCEPT ![r] = NoRequest]
         IN  request' = ended \/ request' = Outdated(p, ended),
         holder' = Nobody, person' \in [People -> Row], chosen' \in [People -> Roles \cup {NoRole}]
  PROVE  TypeOK'
<1> DEFINE ended == [request EXCEPT ![r] = NoRequest]
<1>1. /\ ended \in [Requests -> Request \cup {NoRequest}]
      /\ \A v \in Requests : pc'[v] # "idle" => ended[v] # NoRequest
  BY DEF DirectoryKept, TypeOK, Go
<1> HIDE DEF ended
<1>2. request' = ended \/ request' = Outdated(p, ended)
  BY DEF ended
<1>3. /\ request' \in [Requests -> Request \cup {NoRequest}]
      /\ \A v \in Requests : pc'[v] # "idle" => request'[v] # NoRequest
  BY <1>1, <1>2, OutdatedTyped
<1>4. pc' \in [Requests -> {"idle", "queued", "directory", "judged", "loaded"}]
  BY DEF DirectoryKept, TypeOK, Go
<1> QED BY <1>3, <1>4 DEF TypeOK

LEMMA CommitUpdateKept ==
  ASSUME DirectoryKept, NEW r \in Requests, CommitUpdate(r) PROVE DirectoryKept'
<1> DEFINE q == request[r]
           p == request[r].target
           row == Switched(Assigned(person[p], q.role), q.switch)
           choice == IF q.role = NoRole THEN chosen[p] ELSE q.role
<1>1. pc[r] = "loaded" /\ Go(r, "idle") /\ holder' = Nobody /\ OfWeb(r)
  BY DEF CommitUpdate, OfWeb
<1>2. /\ q \in Request /\ p \in People /\ person[p] \in Row /\ Judged(r)
      /\ q.role \in Roles \cup {NoRole} /\ q.switch \in Switch /\ chosen[p] \in Roles \cup {NoRole}
  BY <1>1, CommitKnows
<1>3. /\ row \in Row /\ row.name = person[p].name
      /\ q.role = NoRole => row.role = person[p].role /\ row.source = person[p].source
                              /\ row.applied = person[p].applied
      /\ q.role # NoRole => row.role = q.role /\ row.source = "manual"
  <2>1. /\ Assigned(person[p], q.role) \in Row
        /\ Assigned(person[p], q.role).name = person[p].name
        /\ q.role = NoRole => Assigned(person[p], q.role) = person[p]
        /\ q.role # NoRole => /\ Assigned(person[p], q.role).role = q.role
                              /\ Assigned(person[p], q.role).source = "manual"
    BY <1>2, RowsTyped
  <2> QED BY <1>2, <2>1, RowsTyped
<1>4. person' = [person EXCEPT ![p] = row]
  BY DEF CommitUpdate
<1>5. chosen' = [chosen EXCEPT ![p] = choice] /\ choice \in Roles \cup {NoRole}
  BY <1>2 DEF CommitUpdate, DirectoryKept, TypeOK
<1>6. row.name # "former"
  BY <1>1, <1>2, <1>3 DEF Judged, Erased
<1>7. choice # NoRole => /\ row.role = choice
                         /\ row.source = "manual" \/ row.applied \notin {NoRole, row.role}
  BY <1>2, <1>3 DEF DirectoryKept, ChoiceShows
<1>8. LET ended == [request EXCEPT ![r] = NoRequest]
      IN  request' = ended \/ request' = Outdated(p, ended)
  BY DEF CommitUpdate
<1> HIDE DEF row, choice, p
<1>9. /\ person' \in [People -> Row] /\ chosen' \in [People -> Roles \cup {NoRole}]
      /\ ErasedBlocked' /\ \A v \in People : ChoiceShows(v)'
  BY <1>2, <1>3, <1>4, <1>5, <1>6, <1>7, RowKept
<1>10. TypeOK'
  BY <1>1, <1>8, <1>9, EndedTyped
<1> QED BY <1>1, <1>9, <1>10, CommitKept

LEMMA CommitHandBackKept ==
  ASSUME DirectoryKept, NEW r \in Requests, CommitHandBack(r) PROVE DirectoryKept'
<1> DEFINE p == request[r].target
           row == [person[p] EXCEPT !.source = "idp", !.applied = NoRole]
<1>1. pc[r] = "loaded" /\ Go(r, "idle") /\ holder' = Nobody
  BY DEF CommitHandBack, Finish
<1>2. p \in People /\ person[p] \in Row
  BY <1>1, CommitKnows
<1>3. row \in Row /\ (row.name = "former" => row.blocked)
  BY <1>2 DEF Row, DirectoryKept, ErasedBlocked, Erased
<1>4. person' = [person EXCEPT ![p] = row]
  BY DEF CommitHandBack
<1>5. chosen' = [chosen EXCEPT ![p] = NoRole]
  BY DEF CommitHandBack
<1>6. LET ended == [request EXCEPT ![r] = NoRequest]
      IN  request' = ended \/ request' = Outdated(p, ended)
  BY DEF CommitHandBack, Finish
<1> HIDE DEF row, p
<1>7. /\ person' \in [People -> Row] /\ chosen' \in [People -> Roles \cup {NoRole}]
      /\ ErasedBlocked' /\ \A v \in People : ChoiceShows(v)'
  BY <1>2, <1>3, <1>4, <1>5, RowKept
<1>8. TypeOK'
  BY <1>1, <1>6, <1>7, EndedTyped
<1> QED BY <1>1, <1>7, <1>8, CommitKept

LEMMA CommitTombstoneKept ==
  ASSUME DirectoryKept, NEW r \in Requests, CommitTombstone(r) PROVE DirectoryKept'
<1> DEFINE p == request[r].target
           row == [person[p] EXCEPT !.name = "former"]
<1>1. pc[r] = "loaded" /\ Go(r, "idle") /\ holder' = Nobody /\ request[r].op = "anonymise"
  BY DEF CommitTombstone, Finish
<1>2. p \in People /\ person[p] \in Row /\ Judged(r) /\ chosen[p] \in Roles \cup {NoRole}
  BY <1>1, CommitKnows
<1>3. row \in Row /\ row.blocked /\ row.role = person[p].role
      /\ row.source = person[p].source /\ row.applied = person[p].applied
  BY <1>1, <1>2 DEF Row, Judged, OfWeb
<1>4. person' = [person EXCEPT ![p] = row]
  BY DEF CommitTombstone
<1>5. chosen' = [chosen EXCEPT ![p] = chosen[p]]
  BY DEF CommitTombstone, DirectoryKept, TypeOK
<1>6. LET ended == [request EXCEPT ![r] = NoRequest]
      IN  request' = ended \/ request' = Outdated(p, ended)
  BY DEF CommitTombstone, Finish
<1>7. chosen[p] # NoRole => /\ row.role = chosen[p]
                            /\ row.source = "manual" \/ row.applied \notin {NoRole, row.role}
  BY <1>2, <1>3 DEF DirectoryKept, ChoiceShows
<1> HIDE DEF row, p
<1>8. /\ person' \in [People -> Row] /\ chosen' \in [People -> Roles \cup {NoRole}]
      /\ ErasedBlocked' /\ \A v \in People : ChoiceShows(v)'
  BY <1>2, <1>3, <1>4, <1>5, <1>7, RowKept
<1>9. TypeOK'
  BY <1>1, <1>6, <1>8, EndedTyped
<1> QED BY <1>1, <1>8, <1>9, CommitKept

LEMMA CommitRoleKept ==
  ASSUME DirectoryKept, NEW r \in Requests, CommitRole(r) PROVE DirectoryKept'
<1> DEFINE p == request[r].target
           row == Synced(person[p], request[r].role)
<1>1. pc[r] = "loaded" /\ Go(r, "idle") /\ holder' = Nobody
  BY DEF CommitRole, Finish
<1>2. /\ p \in People /\ person[p] \in Row /\ chosen[p] \in Roles \cup {NoRole}
      /\ request[r].role \in Roles \cup {NoRole}
  BY <1>1, CommitKnows
<1>3. row \in Row /\ row.name = person[p].name /\ row.blocked = person[p].blocked
  BY <1>2, RowsTyped DEF Switch
<1>4. row.name = "former" => row.blocked
  BY <1>2, <1>3 DEF DirectoryKept, ErasedBlocked, Erased
<1>5. person' = [person EXCEPT ![p] = row]
  BY DEF CommitRole
<1>6. chosen' = [chosen EXCEPT ![p] = chosen[p]]
  BY DEF CommitRole, DirectoryKept, TypeOK
<1>7. LET ended == [request EXCEPT ![r] = NoRequest]
      IN  request' = ended \/ request' = Outdated(p, ended)
  BY DEF CommitRole, Finish
<1>8. chosen[p] # NoRole => /\ row.role = chosen[p]
                            /\ row.source = "manual" \/ row.applied \notin {NoRole, row.role}
  BY <1>2 DEF DirectoryKept, ChoiceShows, Synced, Row
<1> HIDE DEF row, p
<1>9. /\ person' \in [People -> Row] /\ chosen' \in [People -> Roles \cup {NoRole}]
      /\ ErasedBlocked' /\ \A v \in People : ChoiceShows(v)'
  BY <1>2, <1>3, <1>4, <1>5, <1>6, <1>8, RowKept
<1>10. TypeOK'
  BY <1>1, <1>7, <1>9, EndedTyped
<1> QED BY <1>1, <1>9, <1>10, CommitKept

\* What the panel's form holds is a row of the same name.
LEMMA FormsTyped ==
  ASSUME NEW p \in People, person[p] \in Row, NEW saved \in Forms(p)
  PROVE  saved \in Row /\ saved.name = person[p].name
<1> PICK role \in Roles, blocked \in BOOLEAN,
         o \in Owners \cup {[source |-> person[p].source, applied |-> person[p].applied]} :
       saved = Filled(person[p], role, blocked, o)
  BY DEF Forms
<1>1. person[p].source \in {"manual", "idp"} /\ person[p].applied \in Roles \cup {NoRole}
  BY DEF Row
<1>2. o.source \in {"manual", "idp"} /\ o.applied \in Roles \cup {NoRole}
  <2>1. CASE o \in Owners
    BY <2>1, DirectoryNames
  <2>2. CASE o = [source |-> person[p].source, applied |-> person[p].applied]
    BY <1>1, <2>2
  <2> QED BY <2>1, <2>2
<1> QED BY <1>2 DEF Row, Filled

LEMMA PanelSaveKept ==
  ASSUME DirectoryKept, NEW p \in People, NEW row \in Forms(p), PanelSave(p, row)
  PROVE  DirectoryKept'
<1>1. person[p] \in Row
  BY DEF DirectoryKept, TypeOK
<1>2. row \in Row /\ row.name = person[p].name
  BY <1>1, FormsTyped
<1>3. row.role \in Roles
  BY <1>2 DEF Row
<1>4. person' = [person EXCEPT ![p] = row]
  BY DEF PanelSave
<1>5. row.name # "former"
  BY <1>2 DEF PanelSave, Erased
<1>6. person'[p] = row
  BY <1>4 DEF DirectoryKept, TypeOK
<1>7. /\ chosen' \in [People -> Roles \cup {NoRole}]
      /\ \A q \in People \ {p} : chosen'[q] = chosen[q]
      /\ chosen'[p] = IF row.source = "manual" \/ row.applied \notin {NoRole, row.role}
                      THEN row.role ELSE NoRole
  BY <1>3 DEF PanelSave, DirectoryKept, TypeOK
<1>8. ChoiceShows(p)'
  BY <1>6, <1>7 DEF ChoiceShows
<1>9. Free(p) /\ (request' = request \/ request' = Outdated(p, request)) /\ UNCHANGED <<holder, pc>>
  BY DEF PanelSave
<1> QED BY <1>2, <1>4, <1>5, <1>7, <1>8, <1>9, AloneKept

LEMMA MoveVersionKept ==
  ASSUME DirectoryKept, NEW p \in People, MoveVersion(p) PROVE DirectoryKept'
<1>1. person[p] \in Row /\ person' = [person EXCEPT ![p] = person[p]]
  BY DEF DirectoryKept, TypeOK, MoveVersion
<1>2. person[p].name = "former" => Erased(p) /\ person[p].blocked
  BY DEF DirectoryKept, ErasedBlocked, Erased
<1>3. ChoiceShows(p)' /\ chosen' \in [People -> Roles \cup {NoRole}]
  BY DEF DirectoryKept, TypeOK, ChoiceShows, MoveVersion
<1> QED BY <1>1, <1>2, <1>3, AloneKept DEF MoveVersion

LEMMA SaveProfileKept ==
  ASSUME DirectoryKept, NEW p \in People, SaveProfile(p) PROVE DirectoryKept'
<1> DEFINE row == [person[p] EXCEPT !.name = "own"]
<1>1. person[p] \in Row
  BY DEF DirectoryKept, TypeOK
<1>2. row \in Row /\ row.name = "own" /\ row.role = person[p].role
      /\ row.source = person[p].source /\ row.applied = person[p].applied
  BY <1>1 DEF Row
<1>3. person' = [person EXCEPT ![p] = row]
  BY DEF SaveProfile
<1> HIDE DEF row
<1>4. person'[p] = row
  BY <1>3 DEF DirectoryKept, TypeOK
<1>5. ChoiceShows(p)' /\ chosen' \in [People -> Roles \cup {NoRole}]
  BY <1>2, <1>4 DEF DirectoryKept, TypeOK, ChoiceShows, SaveProfile
<1> QED BY <1>2, <1>3, <1>5, AloneKept DEF SaveProfile, work

LEMMA StutterKept ==
  ASSUME DirectoryKept, UNCHANGED vars PROVE DirectoryKept'
BY DEF DirectoryKept, TypeOK, OneHolder, ErasedBlocked, Erased, Judged, OfWeb, ActiveAdmin,
       ChoiceShows, vars, work

LEMMA NextKept ==
  ASSUME DirectoryKept, [Next]_vars PROVE DirectoryKept'
<1>1. ASSUME NEW r \in Requests, Web(r) PROVE DirectoryKept'
  <2>1. CASE \E p, q \in People :
               \/ \E u \in Updates : Ask(r, "update", p, q, u)
               \/ \E op \in {"handBack", "anonymise"} : Ask(r, op, p, q, NoUpdate)
    BY <2>1, AskKept
  <2>2. CASE JudgeCaller(r) \/ LoadTarget(r)
    BY <2>2, JudgeKept, LoadKept
  <2>3. CASE CommitUpdate(r) \/ CommitHandBack(r) \/ CommitTombstone(r)
    BY <2>3, CommitUpdateKept, CommitHandBackKept, CommitTombstoneKept
  <2> QED BY <1>1, <2>1, <2>2, <2>3 DEF Web
<1>2. ASSUME NEW r \in Requests, Provider(r) PROVE DirectoryKept'
  BY <1>2, SignInKept, LockIdentityKept, CommitRoleKept DEF Provider
<1>3. ASSUME NEW r \in Requests, TakeDirectory(r) \/ Refuse(r) PROVE DirectoryKept'
  BY <1>3, TakeKept, RefuseKept
<1>4. ASSUME Alone PROVE DirectoryKept'
  BY <1>4, PanelSaveKept, MoveVersionKept, SaveProfileKept DEF Alone
<1> QED BY <1>1, <1>2, <1>3, <1>4, StutterKept DEF Next

-----------------------------------------------------------------------------

\* The directory lock has one holder, whoever it let in stays entitled until
\* it commits, and tombstones and chosen roles are as they should be.
THEOREM DirectoryIsKept == Spec => []DirectoryKept
<1>1. Init => DirectoryKept
  BY InitKept
<1>2. DirectoryKept /\ [Next]_vars => DirectoryKept'
  BY NextKept
<1> QED BY <1>1, <1>2, PTL DEF Spec

\* Every variable keeps its type.
THEOREM Typed == Spec => []TypeOK
<1>1. DirectoryKept => TypeOK
  BY DEF DirectoryKept
<1> QED BY <1>1, DirectoryIsKept, PTL

\* No sign-in writes the provider's role over one the intranet chose.
THEOREM ChoiceStands == Spec => []RoleChoiceStands
<1>1. DirectoryKept => RoleChoiceStands
  BY DEF DirectoryKept, ChoiceShows, RoleChoiceStands
<1> QED BY <1>1, DirectoryIsKept, PTL

\* The one who changes another person's role or block is an administrator
\* still when the change commits, and is not that person.
LEMMA AdminKept ==
  ASSUME DirectoryKept, [Next]_vars, AdminLeft, ~OutsideTheWeb PROVE AdminLeft'
<1>1. ASSUME UNCHANGED person PROVE AdminLeft'
  BY <1>1 DEF AdminLeft, ActiveAdmin
<1>2. ASSUME NEW r \in Requests, CommitUpdate(r) PROVE AdminLeft'
  <2> DEFINE c == request[r].caller
             p == request[r].target
  <2>1. pc[r] = "loaded" /\ OfWeb(r) /\ request[r].op = "update"
    BY <1>2 DEF CommitUpdate, OfWeb
  <2>2. request[r] \in Request /\ p \in People /\ Judged(r)
    BY <2>1, CommitKnows
  <2>3. c \in People /\ ActiveAdmin(c)
    BY <2>1, <2>2 DEF Judged, Request
  <2>4. CASE p = c
    <3>1. request[r].role = NoRole /\ request[r].switch = Keep
      BY <2>1, <2>2, <2>4 DEF Judged
    <3>2. person'[c] = person[c]
      BY <1>2, <2>3, <2>4, <3>1 DEF CommitUpdate, Assigned, Switched, DirectoryKept, TypeOK
    <3> QED BY <2>3, <3>2 DEF AdminLeft, ActiveAdmin
  <2>5. CASE p # c
    <3>1. person'[c] = person[c]
      BY <1>2, <2>3, <2>5 DEF CommitUpdate, DirectoryKept, TypeOK
    <3> QED BY <2>3, <3>1 DEF AdminLeft, ActiveAdmin
  <2> QED BY <2>4, <2>5
<1>3. ASSUME \A p \in People : /\ person'[p].role = person[p].role
                               /\ person'[p].blocked = person[p].blocked
      PROVE  AdminLeft'
  BY <1>3 DEF AdminLeft, ActiveAdmin
<1>4. ASSUME NEW r \in Requests, CommitHandBack(r) PROVE AdminLeft'
  BY <1>3, <1>4 DEF CommitHandBack, DirectoryKept, TypeOK, Row
<1>5. ASSUME NEW r \in Requests, CommitTombstone(r) PROVE AdminLeft'
  BY <1>3, <1>5 DEF CommitTombstone, DirectoryKept, TypeOK, Row
<1>6. ASSUME NEW p \in People, SaveProfile(p) PROVE AdminLeft'
  BY <1>3, <1>6 DEF SaveProfile, DirectoryKept, TypeOK, Row
<1>7. ASSUME NEW r \in Requests, Web(r) PROVE AdminLeft'
  BY <1>1, <1>2, <1>4, <1>5, <1>7 DEF Web, Ask, JudgeCaller, LoadTarget
<1>8. ASSUME NEW r \in Requests, Provider(r) \/ TakeDirectory(r) \/ Refuse(r) PROVE AdminLeft'
  BY <1>1, <1>8 DEF Provider, SignIn, LockIdentity, TakeDirectory, Refuse, OutsideTheWeb
<1>9. ASSUME Alone PROVE AdminLeft'
  BY <1>1, <1>6, <1>9 DEF Alone, MoveVersion, OutsideTheWeb
<1> QED BY <1>1, <1>7, <1>8, <1>9 DEF Next, vars

\* Administrators who block and demote each other at the same time leave one.
THEOREM AdminStays == Spec => AdminRemains
<1>1. DirectoryKept /\ [Next]_vars => [AdminLeft /\ ~AdminLeft' => OutsideTheWeb]_vars
  BY AdminKept
<1> QED BY <1>1, DirectoryIsKept, PTL DEF Spec, AdminRemains

\* Every writer of a row leaves a tombstone's name and block alone.
LEMMA TombstoneKept ==
  ASSUME DirectoryKept, [Next]_vars, NEW p \in People, Erased(p)
  PROVE  person[p].blocked /\ Erased(p)' /\ person'[p].blocked
<1>1. person[p].blocked /\ person[p] \in Row
  BY DEF DirectoryKept, ErasedBlocked, TypeOK
<1> SUFFICES person'[p].name = person[p].name /\ person'[p].blocked = person[p].blocked
  BY <1>1 DEF Erased
<1>2. ASSUME UNCHANGED person PROVE person'[p].name = person[p].name /\ person'[p].blocked = person[p].blocked
  BY <1>2
<1>3. ASSUME NEW r \in Requests, CommitUpdate(r)
      PROVE  person'[p].name = person[p].name /\ person'[p].blocked = person[p].blocked
  <2>1. request[r].target # p
    BY <1>3, CommitKnows DEF CommitUpdate, Judged, OfWeb
  <2> QED BY <1>3, <2>1 DEF CommitUpdate, DirectoryKept, TypeOK
<1>4. ASSUME NEW r \in Requests, CommitHandBack(r)
      PROVE  person'[p].name = person[p].name /\ person'[p].blocked = person[p].blocked
  BY <1>4 DEF CommitHandBack, DirectoryKept, TypeOK, Row
<1>5. ASSUME NEW r \in Requests, CommitTombstone(r)
      PROVE  person'[p].name = person[p].name /\ person'[p].blocked = person[p].blocked
  BY <1>5 DEF CommitTombstone, DirectoryKept, TypeOK, Row, Erased
<1>6. ASSUME NEW r \in Requests, CommitRole(r)
      PROVE  person'[p].name = person[p].name /\ person'[p].blocked = person[p].blocked
  <2>1. /\ request[r].role \in Roles \cup {NoRole} /\ request[r].target \in People
        /\ person[request[r].target] \in Row
    BY <1>6, CommitKnows DEF CommitRole, Finish
  <2>2. Synced(person[p], request[r].role).name = person[p].name
        /\ Synced(person[p], request[r].role).blocked = person[p].blocked
    BY <1>1, <2>1, RowsTyped DEF Switch
  <2>3. person'[p] = IF p = request[r].target THEN Synced(person[p], request[r].role) ELSE person[p]
    BY <1>6 DEF CommitRole, DirectoryKept, TypeOK
  <2> QED BY <2>2, <2>3
<1>7. ASSUME NEW q \in People, SaveProfile(q) \/ \E saved \in Forms(q) : PanelSave(q, saved)
      PROVE  person'[p].name = person[p].name /\ person'[p].blocked = person[p].blocked
  <2>1. q # p
    BY <1>1, <1>7 DEF SaveProfile, PanelSave
  <2> QED BY <1>7, <2>1 DEF SaveProfile, PanelSave, DirectoryKept, TypeOK
<1>8. ASSUME NEW r \in Requests, Web(r)
      PROVE  person'[p].name = person[p].name /\ person'[p].blocked = person[p].blocked
  BY <1>2, <1>3, <1>4, <1>5, <1>8 DEF Web, Ask, JudgeCaller, LoadTarget
<1>9. ASSUME NEW r \in Requests, Provider(r) \/ TakeDirectory(r) \/ Refuse(r)
      PROVE  person'[p].name = person[p].name /\ person'[p].blocked = person[p].blocked
  BY <1>2, <1>6, <1>9 DEF Provider, SignIn, LockIdentity, TakeDirectory, Refuse
<1>10. ASSUME Alone
      PROVE  person'[p].name = person[p].name /\ person'[p].blocked = person[p].blocked
  BY <1>2, <1>7, <1>10 DEF Alone, MoveVersion
<1> QED BY <1>2, <1>8, <1>9, <1>10 DEF Next, vars

\* An anonymised account stays blocked and nameless.
THEOREM ErasedStays == Spec => TombstoneStays
<1>1. DirectoryKept /\ [Next]_vars
        => [\A p \in People : Erased(p) => person[p].blocked /\ Erased(p)' /\ person'[p].blocked]_vars
  BY TombstoneKept
<1> QED BY <1>1, DirectoryIsKept, PTL DEF Spec, TombstoneStays

=============================================================================
