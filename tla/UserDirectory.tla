--------------------------- MODULE UserDirectory ---------------------------
(***************************************************************************)
(* The accounts as administrators, the admin panel, the identity provider  *)
(* and an anonymisation write them.                                        *)
(*                                                                         *)
(* Administrators on the web and the role write of a sign-in wait for one  *)
(* directory lock and hold it, with rows of people, until they commit.     *)
(* The panel, a person's own profile and whatever raises a token version   *)
(* take the row alone, for one short transaction.                          *)
(***************************************************************************)
EXTENDS Integers, FiniteSets

CONSTANTS
  People,
  Bound,       \* those the identity provider knows
  Requests,    \* what the server may work on at a time
  Roles, Admin,
  Updates,     \* what administrators change of a person: a role, the block or both
  Owners,      \* source and applied as the panel may save them, other than as they are
  NoRole, NoRequest, Nobody

\* An update's switch; Keep: the block is not in it.
Keep == "keep"
Switch == {"block", "unblock", Keep}

ASSUME DirectoryNames ==
  /\ Admin \in Roles /\ NoRole \notin Roles /\ Bound \subseteq People
  /\ Nobody \notin Requests \cup People
  /\ Updates \subseteq [role : Roles \cup {NoRole}, switch : Switch]
  /\ Owners \subseteq [source : {"manual", "idp"}, applied : Roles \cup {NoRole}]

\* "source" is roleSource ("idp": the provider keeps the role in sync),
\* "applied" entraAppliedRole; the name is a tombstone's once it is "former".
Row == [role : Roles, blocked : BOOLEAN, source : {"manual", "idp"},
        applied : Roles \cup {NoRole}, name : {"own", "former"}]

\* "role": an update's, or what the provider grants, if anything.  "current":
\* the caller's token version has not moved since the request was verified.
\* "wasBlocked": the target, when the row was loaded.
Ops == {"update", "handBack", "anonymise", "signIn"}
Request ==
  {q \in [op : Ops, caller : People \cup {Nobody}, target : People, role : Roles \cup {NoRole},
          switch : Switch, current : BOOLEAN, wasBlocked : BOOLEAN] :
     q.op = "signIn" <=> q.caller = Nobody}

ASSUME DirectoryNulls == NoRequest \notin Request

VARIABLES
  person,      \* the users
  holder,      \* who holds the directory lock
  pc, request,
  chosen       \* the role the intranet chose for a person, if it is for it to choose

work == <<holder, pc, request>>
vars == <<person, work, chosen>>

-----------------------------------------------------------------------------

ActiveAdmin(p) == ~person[p].blocked /\ person[p].role = Admin
Erased(p) == person[p].name = "former"

OfWeb(r) == request[r].op # "signIn"

\* Fault: the caller's row is only read.
Holds_Target(r) ==
  IF pc[r] # "loaded" THEN {}
  ELSE IF request[r].op \in {"anonymise", "signIn"} THEN {request[r].target} ELSE {}

\* The rows a request holds, each until it ends: the caller's from its check
\* on, the target's of an anonymisation and of a role write.
Holds(r) ==
  IF pc[r] \notin {"judged", "loaded"} THEN {}
  ELSE (IF OfWeb(r) THEN {request[r].caller} ELSE {}) \cup
       (IF pc[r] = "loaded" /\ request[r].op \in {"anonymise", "signIn"}
        THEN {request[r].target} ELSE {})

Free(p) == \A r \in Requests : p \notin Holds(r)

-----------------------------------------------------------------------------

Init ==
  /\ person \in [People -> {row \in Row :
       /\ ~row.blocked /\ row.name = "own"
       /\ row.applied = (IF row.source = "idp" THEN row.role ELSE NoRole)}]
  /\ \A p \in People : person[p].source = "idp" => p \in Bound
  /\ holder = Nobody
  /\ pc = [r \in Requests |-> "idle"] /\ request = [r \in Requests |-> NoRequest]
  /\ chosen = [p \in People |-> IF person[p].source = "manual" THEN person[p].role ELSE NoRole]

Go(r, at) == pc' = [pc EXCEPT ![r] = at]
Released(r) == holder' = IF holder = r THEN Nobody ELSE holder

\* A refusal or a rollback, at any step and for any reason the model leaves
\* out.
Refuse(r) ==
  /\ pc[r] # "idle" /\ Go(r, "idle") /\ request' = [request EXCEPT ![r] = NoRequest]
  /\ Released(r)
  /\ UNCHANGED <<person, chosen>>

-----------------------------------------------------------------------------
(* Administrators on the web.                                               *)

\* A request that the policy let through: by an active administrator, then.
Ask(r, op, p, q, u) ==
  /\ pc[r] = "idle" /\ ActiveAdmin(p)
  /\ Go(r, "queued")
  /\ request' = [request EXCEPT ![r] =
       [op |-> op, caller |-> p, target |-> q, role |-> u.role, switch |-> u.switch,
        current |-> TRUE, wasBlocked |-> FALSE]]
  /\ UNCHANGED <<person, holder, chosen>>

NoUpdate == [role |-> NoRole, switch |-> Keep]

\* lockDirectory.
TakeDirectory(r) ==
  /\ pc[r] = "queued" /\ holder = Nobody
  /\ holder' = r /\ Go(r, IF OfWeb(r) THEN "directory" ELSE "judged")
  /\ UNCHANGED <<person, request, chosen>>

\* Fault: what the policy saw is good enough.
JudgeCaller_Policy(r) ==
  /\ pc[r] = "directory" /\ Free(request[r].caller)
  /\ Go(r, "judged")
  /\ UNCHANGED <<person, holder, request, chosen>>

\* assertActiveAdmin, on the caller's locked row.
JudgeCaller(r) ==
  /\ pc[r] = "directory" /\ Free(request[r].caller)
  /\ ActiveAdmin(request[r].caller) /\ request[r].current
  /\ Go(r, "judged")
  /\ UNCHANGED <<person, holder, request, chosen>>

\* The target, and what is refused with it in hand; only an anonymisation
\* locks the row.
LoadTarget(r) ==
  LET q == request[r]
  IN /\ pc[r] = "judged" /\ OfWeb(r) /\ ~Erased(q.target)
     /\ q.op = "anonymise" => person[q.target].blocked /\ Free(q.target)
     /\ q.op = "handBack" => q.target # q.caller /\ q.target \in Bound
     /\ q.op = "update" /\ q.target = q.caller => q.role = NoRole /\ q.switch = Keep
     /\ Go(r, "loaded")
     /\ request' = [request EXCEPT ![r].wasBlocked = person[q.target].blocked]
     /\ UNCHANGED <<person, holder, chosen>>

Finish(r) ==
  /\ pc[r] = "loaded" /\ Go(r, "idle") /\ request' = [request EXCEPT ![r] = NoRequest]
  /\ holder' = Nobody

\* A token version that moves leaves the requests it was checked for behind.
Outdated(p, requests) ==
  [r \in Requests |-> IF requests[r] # NoRequest /\ requests[r].caller = p
                      THEN [requests[r] EXCEPT !.current = FALSE] ELSE requests[r]]

\* The role of an update: chosen by hand.
Assigned(row, role) ==
  IF role = NoRole THEN row
  ELSE [row EXCEPT !.role = role, !.source = "manual", !.applied = NoRole]

Switched(row, switch) ==
  IF switch = Keep THEN row ELSE [row EXCEPT !.blocked = (switch = "block")]

CommitUpdate(r) ==
  LET q == request[r]
      ended == [request EXCEPT ![r] = NoRequest]
  IN /\ pc[r] = "loaded" /\ q.op = "update" /\ Go(r, "idle") /\ holder' = Nobody
     /\ person' = [person EXCEPT ![q.target] = Switched(Assigned(person[q.target], q.role), q.switch)]
     /\ request' = IF q.switch = "block" /\ ~q.wasBlocked THEN Outdated(q.target, ended) ELSE ended
     /\ chosen' = IF q.role = NoRole THEN chosen ELSE [chosen EXCEPT ![q.target] = q.role]

\* handRoleToEntra.
CommitHandBack(r) ==
  LET q == request[r].target
  IN /\ Finish(r) /\ request[r].op = "handBack"
     /\ person' = [person EXCEPT ![q].source = "idp", ![q].applied = NoRole]
     /\ chosen' = [chosen EXCEPT ![q] = NoRole]

\* Step 1 of an anonymisation, of the row; the rows around it go too.
CommitTombstone(r) ==
  /\ Finish(r) /\ request[r].op = "anonymise"
  /\ person' = [person EXCEPT ![request[r].target].name = "former"]
  /\ UNCHANGED chosen

-----------------------------------------------------------------------------
(* A sign-in with the identity provider.                                    *)

\* admitIdentity: the first read of the row, before any lock; "role" is what
\* the provider grants, if anything.
SignIn(r, p, role) ==
  /\ pc[r] = "idle" /\ p \in Bound /\ ~person[p].blocked
  /\ Go(r, "queued")
  /\ request' = [request EXCEPT ![r] =
       [op |-> "signIn", caller |-> Nobody, target |-> p, role |-> role, switch |-> Keep,
        current |-> TRUE, wasBlocked |-> FALSE]]
  /\ UNCHANGED <<person, holder, chosen>>

\* Fault: a role changed in the panel is not told from one the provider wrote.
Synced_NoOverride(row, granted) ==
  IF row.source # "idp" \/ granted = NoRole THEN row
  ELSE [row EXCEPT !.role = granted, !.applied = granted]

\* decideRoleWrite for an existing user, in the mode "on".
Synced(row, granted) ==
  IF row.source # "idp" THEN row
  ELSE IF row.applied \notin {NoRole, row.role}
    THEN [row EXCEPT !.source = "manual", !.applied = NoRole]
  ELSE IF granted = NoRole THEN row
  ELSE [row EXCEPT !.role = granted, !.applied = granted]

\* writeRole: the row's lock under the directory's, and the decision on it.
LockIdentity(r) ==
  /\ pc[r] = "judged" /\ ~OfWeb(r) /\ Free(request[r].target)
  /\ Go(r, "loaded")
  /\ UNCHANGED <<person, holder, request, chosen>>

CommitRole(r) ==
  LET q == request[r]
  IN /\ Finish(r) /\ q.op = "signIn"
     /\ person' = [person EXCEPT ![q.target] = Synced(person[q.target], q.role)]
     /\ UNCHANGED chosen

-----------------------------------------------------------------------------
(* Whoever takes one row alone.                                             *)

Filled(row, role, blocked, owner) ==
  [row EXCEPT !.role = role, !.blocked = blocked, !.source = owner.source, !.applied = owner.applied]

\* What a form of the panel may hold when it is saved.
Forms(p) ==
  {Filled(person[p], role, blocked, owner) :
     role \in Roles, blocked \in BOOLEAN,
     owner \in Owners \cup {[source |-> person[p].source, applied |-> person[p].applied]}}

\* The panel: nothing of a tombstone, and a block that ends the sessions.  It
\* saves the form it shows, who owns the role and what the provider wrote
\* included.  A role saved here is the intranet's choice, unless the row is
\* saved as the provider's: with the very role it wrote, or with none yet.
PanelSave(p, saved) ==
  /\ Free(p) /\ ~Erased(p)
  /\ person' = [person EXCEPT ![p] = saved]
  /\ request' = IF saved.blocked /\ ~person[p].blocked THEN Outdated(p, request) ELSE request
  /\ chosen' = [chosen EXCEPT ![p] =
       IF saved.source = "manual" \/ saved.applied \notin {NoRole, saved.role}
       THEN saved.role ELSE NoRole]
  /\ UNCHANGED <<holder, pc>>

\* A password change, a reset or a sign-out somewhere else.
MoveVersion(p) ==
  /\ Free(p)
  /\ request' = Outdated(p, request)
  /\ UNCHANGED <<person, holder, pc, chosen>>

\* Fault: the account was not blocked when the request was verified.
SaveProfile_Verified(p) ==
  /\ Free(p)
  /\ person' = [person EXCEPT ![p].name = "own"]
  /\ UNCHANGED <<work, chosen>>

\* writeWhileUnblocked: the profile form, and the provider's profile sync.
SaveProfile(p) ==
  /\ ~person[p].blocked /\ Free(p)
  /\ person' = [person EXCEPT ![p].name = "own"]
  /\ UNCHANGED <<work, chosen>>

-----------------------------------------------------------------------------

Web(r) ==
  \/ \E p, q \in People :
       \/ \E u \in Updates : Ask(r, "update", p, q, u)
       \/ \E op \in {"handBack", "anonymise"} : Ask(r, op, p, q, NoUpdate)
  \/ JudgeCaller(r) \/ LoadTarget(r)
  \/ CommitUpdate(r) \/ CommitHandBack(r) \/ CommitTombstone(r)

Provider(r) ==
  \/ \E p \in People, role \in Roles \cup {NoRole} : SignIn(r, p, role)
  \/ LockIdentity(r) \/ CommitRole(r)

Alone ==
  \E p \in People :
    \/ \E saved \in Forms(p) : PanelSave(p, saved)
    \/ MoveVersion(p) \/ SaveProfile(p)

Next ==
  \/ \E r \in Requests : Web(r) \/ Provider(r) \/ TakeDirectory(r) \/ Refuse(r)
  \/ Alone

Spec == Init /\ [][Next]_vars

-----------------------------------------------------------------------------
(* What the directory promises.                                             *)

TypeOK ==
  /\ person \in [People -> Row] /\ holder \in Requests \cup {Nobody}
  /\ pc \in [Requests -> {"idle", "queued", "directory", "judged", "loaded"}]
  /\ request \in [Requests -> Request \cup {NoRequest}]
  /\ \A r \in Requests : pc[r] # "idle" => request[r] # NoRequest
  /\ chosen \in [People -> Roles \cup {NoRole}]

Inside == {"directory", "judged", "loaded"}

OneHolder == \A r \in Requests : pc[r] \in Inside => holder = r

\* What a request was let in by, and loaded, is so until it commits.
Judged(r) ==
  /\ pc[r] = "directory" => OfWeb(r)
  /\ pc[r] \in {"judged", "loaded"} /\ OfWeb(r)
       => ActiveAdmin(request[r].caller) /\ request[r].current
  /\ pc[r] = "loaded" /\ OfWeb(r) =>
       /\ ~Erased(request[r].target)
       /\ request[r].op = "anonymise" => person[request[r].target].blocked
       /\ request[r].op = "update" /\ request[r].target = request[r].caller
            => request[r].role = NoRole /\ request[r].switch = Keep

ErasedBlocked == \A p \in People : Erased(p) => person[p].blocked

\* What makes the next sign-in keep a role that was chosen.
ChoiceShows(p) ==
  chosen[p] # NoRole =>
    /\ person[p].role = chosen[p]
    /\ person[p].source = "manual" \/ person[p].applied \notin {NoRole, person[p].role}

\* Between any two steps; with the types, the inductive invariant.
DirectoryKept ==
  /\ TypeOK /\ OneHolder /\ ErasedBlocked
  /\ \A r \in Requests : Judged(r)
  /\ \A p \in People : ChoiceShows(p)

AdminLeft == \E p \in People : ActiveAdmin(p)

OutsideTheWeb ==
  \/ \E p \in People : \E saved \in Forms(p) : PanelSave(p, saved)
  \/ \E r \in Requests : CommitRole(r)

\* However administrators act on each other at the same time, one of them
\* remains: only the panel or the provider takes the last one away.
AdminRemains == [][AdminLeft /\ ~AdminLeft' => OutsideTheWeb]_vars

\* A role somebody in the intranet chose stays until it is changed there or
\* handed back, on the web or by what the panel saves: no sign-in writes the
\* provider's over it.
RoleChoiceStands ==
  \A p \in People : chosen[p] # NoRole => person[p].role = chosen[p]

\* "Nothing of an anonymised account changes any more" of what tells who it
\* was or lets them in: it stays blocked and nameless, though unblocks and
\* profiles are saved by writers that take no directory lock.
TombstoneStays ==
  [][\A p \in People : Erased(p) => person[p].blocked /\ Erased(p)' /\ person'[p].blocked]_vars

=============================================================================
