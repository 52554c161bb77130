---------------------------- MODULE DocumentLock ----------------------------
(***************************************************************************)
(* The document revision, its lock and the authoring write path.           *)
(*                                                                         *)
(* Every guarded document has a revision in content_versions and up to two *)
(* content rows, the draft and its published twin.  Three kinds of writers *)
(* race for it: web authors (a form is loaded, the write gate classifies   *)
(* the request, the document lock compares and commits), moderators'       *)
(* deletes, and panel or boot writers, which carry no token.  Departments   *)
(* and teams are deleted and moved, and accounts change, behind their      *)
(* backs; a delete is a transaction of its own, which takes the version    *)
(* rows of the documents it found one after the other.                     *)
(*                                                                         *)
(* A transaction is modelled by what the others can see of it: it takes    *)
(* the row lock of the version row, judges the request on committed rows,  *)
(* and all its writes appear at its COMMIT.  The transaction of a document *)
(* that is already gone waits and leaves like any other; the code's may    *)
(* lock no row then, and has no content row to write.                      *)
(***************************************************************************)
EXTENDS Integers, Sequences, FiniteSets

CONSTANTS
  Docs,             \* documentIds, existing ones and ones still to be drawn, by their order
  Writers,          \* sessions: browser tabs, panel users, boot writers
  CallerOf,         \* the class and department of each session's account at the start
  Departments,
  Teams,
  Bodies,           \* what a row says, apart from its ownership
  Moderator,        \* caller: admin_role or editor, through the web
  Panel,            \* caller: a writer without an authoring scope
  Nobody,           \* caller: an account without an authoring class
  NewClasses,       \* what the account of a web session may be changed to
  NoDept, NoTeam, NoRow, NoToken, NoDoc, NoWriter,
  Deletable,        \* the departments and teams that may be deleted
  PredictedTokens,  \* If-Match values sent without loading a form
  MaxChanges        \* bound on the changes asked of one document

Callers == Departments \cup {Moderator, Panel, Nobody}

\* What can be deleted and has links of documents to it.
Targets == Departments \cup Teams

\* What a delete that is not running has to lock.
NoDelete == {NoDoc}

Row == [body : Bodies, owner : Departments \cup {NoDept}, team : Teams \cup {NoTeam}]

ASSUME CallersAssumption ==
  /\ CallerOf \in [Writers -> Callers]
  /\ NewClasses \subseteq Callers \ {Panel}
  /\ Moderator \notin Departments \cup {Panel, Nobody}
  /\ Panel \notin Departments \cup {Nobody}
  /\ Nobody \notin Departments

ASSUME NullsAssumption ==
  /\ NoDept \notin Targets /\ NoTeam \notin Targets
  /\ NoRow \notin Row \cup Nat
  /\ NoToken \notin Nat
  /\ NoDoc \notin Docs
  /\ NoWriter \notin Writers \cup Targets

ASSUME TargetsAssumption == Departments \cap Teams = {} /\ Targets \cap Writers = {}

ASSUME DocsAssumption == Docs \subseteq Nat

ASSUME BoundsAssumption ==
  /\ Deletable \subseteq Targets
  /\ PredictedTokens \subseteq Nat
  /\ MaxChanges \in Nat

VARIABLES
  draft, live,      \* the committed rows of each document, NoRow when absent
  version,          \* its row in content_versions, NoRow when absent
  audit,            \* the revisions of its audit rows, oldest first
  lockedBy,         \* who holds the version row FOR UPDATE: a session, or a delete by its target
  departments,      \* the departments that exist
  teamDept,         \* the department of each team, NoTeam once deleted
  caller,           \* the class and department of each session's account
  refs,             \* deletes of departments and teams: the documents still to be locked
  pc, doc, action,  \* where each session is, and what it asks for
  expected,         \* its If-Match token
  loaded,           \* the draft its form shows (NoRow: the token is a guess)
  admittedAs,       \* the class and department it was admitted with, Nobody without a request
  observed, seen,   \* the revision and then the rows its write gate read
  locked,           \* the revision found under the lock
  classSinceLock    \* history: the document was in that class's scope since the lock was its own

database == <<draft, live, version, audit>>
org == <<departments, teamDept, caller, refs>>
session ==
  <<pc, doc, action, expected, loaded, admittedAs, observed, seen, locked, classSinceLock>>
vars == <<database, lockedBy, org, session>>

Actions == {"save", "savePublished", "publish", "unpublish", "discard", "delete"}

\* Waiting for the lock or holding it.
InFlight == {"waiting", "locked", "checked", "accepted"}
Holding == {"locked", "checked", "accepted"}

(***************************************************************************)
(* The revision and the classes.                                           *)
(***************************************************************************)

\* readRevision: a document without a version row has revision 0.
Revision(d) == IF version[d] = NoRow THEN 0 ELSE version[d]

Exists(d) == draft[d] # NoRow

\* A documentId that was never drawn.
Fresh(d) == draft[d] = NoRow /\ live[d] = NoRow /\ audit[d] = <<>>

\* rowInDepartmentScope: owned by the department, and if it targets a team,
\* a team of that department.
InScope(row, dept) ==
  /\ row.owner = dept
  /\ row.team # NoTeam => teamDept[row.team] = dept

\* scopeClassifier, and the gate's own reading of the same rule: a moderator
\* needs a draft, a department author every row in the department's scope.
HoldsClass(class, d) ==
  /\ Exists(d) /\ class # Nobody
  /\ class \in Departments =>
       \A row \in {draft[d], live[d]} \ {NoRow} : InScope(row, class)

\* The scope carries the gate's reading and its classifier, both or neither.
Gated(w) == observed[w] # NoToken

\* Fault: only one of the two tokens is compared.
TokensMatch_GateOnly(w) == observed[w] \in {NoToken, locked[w]}
TokensMatch_ClientOnly(w) == expected[w] \in {NoToken, locked[w]}

TokensMatch(w) ==
  /\ expected[w] \in {NoToken, locked[w]}
  /\ observed[w] \in {NoToken, locked[w]}

\* Whether one more change of d may be asked for (MaxChanges).
Room(d) ==
  Len(audit[d]) + Cardinality({w \in Writers : doc[w] = d /\ pc[w] \in InFlight}) < MaxChanges

Init ==
  /\ draft \in [Docs -> Row \cup {NoRow}]
  /\ live \in [Docs -> Row \cup {NoRow}]
  /\ \A d \in Docs : live[d] \in {NoRow, draft[d]}
  /\ version = [d \in Docs |-> NoRow]
  /\ audit = [d \in Docs |-> <<>>]
  /\ lockedBy = [d \in Docs |-> NoWriter]
  /\ departments = Departments
  /\ teamDept \in [Teams -> Departments \cup {NoDept}]
  /\ caller = CallerOf
  /\ refs = [x \in Targets |-> NoDelete]
  /\ pc = [w \in Writers |-> "idle"]
  /\ doc = [w \in Writers |-> NoDoc]
  /\ action = [w \in Writers |-> "save"]
  /\ expected = [w \in Writers |-> NoToken]
  /\ loaded = [w \in Writers |-> NoRow]
  /\ admittedAs = [w \in Writers |-> Nobody]
  /\ observed = [w \in Writers |-> NoToken]
  /\ seen = [w \in Writers |-> <<NoRow, NoRow>>]
  /\ locked = [w \in Writers |-> 0]
  /\ classSinceLock = [w \in Writers |-> FALSE]

\* The session forgets its form and its request.
Forget(w) ==
  /\ pc' = [pc EXCEPT ![w] = "idle"]
  /\ doc' = [doc EXCEPT ![w] = NoDoc]
  /\ action' = [action EXCEPT ![w] = "save"]
  /\ expected' = [expected EXCEPT ![w] = NoToken]
  /\ loaded' = [loaded EXCEPT ![w] = NoRow]
  /\ admittedAs' = [admittedAs EXCEPT ![w] = Nobody]
  /\ observed' = [observed EXCEPT ![w] = NoToken]
  /\ seen' = [seen EXCEPT ![w] = <<NoRow, NoRow>>]
  /\ locked' = [locked EXCEPT ![w] = 0]
  /\ classSinceLock' = [classSinceLock EXCEPT ![w] = FALSE]

\* The session's form shows row under the token n, its request is answered.
ShowForm(w, d, n, row) ==
  /\ pc' = [pc EXCEPT ![w] = "form"]
  /\ doc' = [doc EXCEPT ![w] = d]
  /\ action' = [action EXCEPT ![w] = "save"]
  /\ expected' = [expected EXCEPT ![w] = n]
  /\ loaded' = [loaded EXCEPT ![w] = row]
  /\ admittedAs' = [admittedAs EXCEPT ![w] = Nobody]
  /\ observed' = [observed EXCEPT ![w] = NoToken]
  /\ seen' = [seen EXCEPT ![w] = <<NoRow, NoRow>>]
  /\ locked' = [locked EXCEPT ![w] = 0]
  /\ classSinceLock' = [classSinceLock EXCEPT ![w] = FALSE]

(***************************************************************************)
(* Loading a form: the account, the revision, then the rows.               *)
(***************************************************************************)

LoadRevision(w, d) ==
  /\ pc[w] = "idle" /\ caller[w] \notin {Panel, Nobody}
  /\ pc' = [pc EXCEPT ![w] = "loading"]
  /\ doc' = [doc EXCEPT ![w] = d]
  /\ admittedAs' = [admittedAs EXCEPT ![w] = caller[w]]
  /\ expected' = [expected EXCEPT ![w] = Revision(d)]
  /\ UNCHANGED <<database, lockedBy, org, action, loaded, observed, seen, locked, classSinceLock>>

LoadRows(w) ==
  /\ pc[w] = "loading"
  /\ HoldsClass(admittedAs[w], doc[w])
  /\ ShowForm(w, doc[w], expected[w], draft[doc[w]])
  /\ UNCHANGED <<database, lockedBy, org>>

LoadRefused(w) ==
  /\ pc[w] = "loading"
  /\ ~HoldsClass(admittedAs[w], doc[w])
  /\ Forget(w)
  /\ UNCHANGED <<database, lockedBy, org>>

\* A client that sends an If-Match it was never given.
PredictToken(w, d, n) ==
  /\ pc[w] = "idle" /\ caller[w] # Panel
  /\ ShowForm(w, d, n, NoRow)
  /\ UNCHANGED <<database, lockedBy, org>>

AbandonForm(w) ==
  /\ pc[w] \in {"form", "stale"}
  /\ Forget(w)
  /\ UNCHANGED <<database, lockedBy, org>>

(***************************************************************************)
(* The write gate: the account, the revision, then the rows it classifies. *)
(***************************************************************************)

\* An account without a class is refused here, which is to abandon the form.
GateRevision(w, a) ==
  /\ pc[w] = "form" /\ a # "delete" /\ caller[w] # Nobody
  /\ Room(doc[w])
  /\ pc' = [pc EXCEPT ![w] = "gating"]
  /\ action' = [action EXCEPT ![w] = a]
  /\ admittedAs' = [admittedAs EXCEPT ![w] = caller[w]]
  /\ observed' = [observed EXCEPT ![w] = Revision(doc[w])]
  /\ UNCHANGED <<database, lockedBy, org, doc, expected, loaded, seen, locked, classSinceLock>>

GateAdmits(w) ==
  /\ pc[w] = "gating"
  /\ HoldsClass(admittedAs[w], doc[w])
  /\ pc' = [pc EXCEPT ![w] = "waiting"]
  /\ seen' = [seen EXCEPT ![w] = <<draft[doc[w]], live[doc[w]]>>]
  /\ UNCHANGED <<database, lockedBy, org, doc, action, expected, loaded, admittedAs, observed,
                 locked, classSinceLock>>

GateRefuses(w) ==
  /\ pc[w] = "gating"
  /\ ~HoldsClass(admittedAs[w], doc[w])
  /\ Forget(w)
  /\ UNCHANGED <<database, lockedBy, org>>

\* The delete route has no gate: a role, a row and the client's token.
RequestDelete(w) ==
  /\ pc[w] = "form" /\ caller[w] = Moderator
  /\ Exists(doc[w]) /\ Room(doc[w])
  /\ pc' = [pc EXCEPT ![w] = "waiting"]
  /\ action' = [action EXCEPT ![w] = "delete"]
  /\ admittedAs' = [admittedAs EXCEPT ![w] = Moderator]
  /\ UNCHANGED <<database, lockedBy, org, doc, expected, loaded, observed, seen, locked,
                 classSinceLock>>

\* The admin panel, the boot writers and the scheduler carry no token.
RequestUnscoped(w, d, a) ==
  /\ pc[w] = "idle" /\ caller[w] = Panel
  /\ Exists(d) /\ Room(d)
  /\ pc' = [pc EXCEPT ![w] = "waiting"]
  /\ doc' = [doc EXCEPT ![w] = d]
  /\ action' = [action EXCEPT ![w] = a]
  /\ admittedAs' = [admittedAs EXCEPT ![w] = Panel]
  /\ UNCHANGED <<database, lockedBy, org, expected, loaded, observed, seen, locked, classSinceLock>>

(***************************************************************************)
(* The document lock: lock, compare, act, advance, commit.                 *)
(***************************************************************************)

Lock(w) ==
  /\ pc[w] = "waiting" /\ lockedBy[doc[w]] = NoWriter
  /\ pc' = [pc EXCEPT ![w] = "locked"]
  /\ lockedBy' = [lockedBy EXCEPT ![doc[w]] = w]
  /\ locked' = [locked EXCEPT ![w] = Revision(doc[w])]
  /\ classSinceLock' = [classSinceLock EXCEPT ![w] = HoldsClass(admittedAs[w], doc[w])]
  /\ UNCHANGED <<database, org, doc, action, expected, loaded, admittedAs, observed, seen>>

Release(w) == lockedBy' = [lockedBy EXCEPT ![doc[w]] = NoWriter]

Move(w, place) ==
  /\ pc' = [pc EXCEPT ![w] = place]
  /\ UNCHANGED <<doc, action, expected, loaded, admittedAs, observed, seen, locked, classSinceLock>>

\* Fault: the gate's decision is trusted under the lock.
ClassKept_AsGated(w) == TRUE

\* The lock's order: the class of a gated request, then the tokens.  The rows
\* are read again, the role and the department are the gate's.
ClassKept(w) == Gated(w) => HoldsClass(admittedAs[w], doc[w])

\* Fault: every discard goes straight to the Document Service.
NeedsPrecheck_Never(w) == FALSE

\* A department author's discard asks first whether it would delete.
NeedsPrecheck(w) ==
  action[w] = "discard" /\ pc[w] = "locked" /\ admittedAs[w] \in Departments

Comparing(w) == pc[w] \in {"locked", "checked"} /\ ~NeedsPrecheck(w)

PrecheckDiscard(w) ==
  /\ pc[w] = "locked" /\ NeedsPrecheck(w)
  /\ ClassKept(w) /\ TokensMatch(w)
  /\ live[doc[w]] # NoRow
  /\ Move(w, "checked")
  /\ UNCHANGED <<database, lockedBy, org>>

NeverPublished(w) ==
  /\ pc[w] = "locked" /\ NeedsPrecheck(w)
  /\ ClassKept(w) /\ TokensMatch(w)
  /\ live[doc[w]] = NoRow
  /\ Release(w) /\ Forget(w)
  /\ UNCHANGED <<database, org>>

Accept(w) ==
  /\ Comparing(w)
  /\ ClassKept(w) /\ TokensMatch(w)
  /\ Move(w, "accepted")
  /\ UNCHANGED <<database, lockedBy, org>>

\* Fault: the refusal is answered without ending the transaction.
RevisionStale_Open(w) ==
  /\ pc[w] \in {"locked", "checked"}
  /\ ClassKept(w) /\ ~TokensMatch(w)
  /\ Move(w, "stale")
  /\ UNCHANGED <<database, lockedBy, org>>

\* 412 with the current revision; the client reloads or gives up.
RevisionStale(w) ==
  /\ pc[w] \in {"locked", "checked"}
  /\ ClassKept(w) /\ ~TokensMatch(w)
  /\ Release(w) /\ Move(w, "stale")
  /\ UNCHANGED <<database, org>>

\* 403 or 404, and nothing else is said.
ClassLost(w) ==
  /\ pc[w] \in {"locked", "checked"}
  /\ ~ClassKept(w)
  /\ Release(w) /\ Forget(w)
  /\ UNCHANGED <<database, org>>

\* A deadlock victim, a refused readiness check, a failed audit insert, a
\* lost connection: the transaction rolls back and the lock goes with it.
Rollback(w) ==
  /\ pc[w] \in InFlight
  /\ Forget(w)
  /\ IF pc[w] \in Holding THEN Release(w) ELSE UNCHANGED lockedBy
  /\ UNCHANGED <<database, org>>

\* Links go to departments and teams that exist.
Linkable == {row \in Row : /\ row.owner \in departments \cup {NoDept}
                           /\ row.team # NoTeam => teamDept[row.team] # NoTeam}

\* The rows a session may save: only the panel moves a document between
\* departments.  The other actions carry no row.
Payloads(w) ==
  IF action[w] \notin {"save", "savePublished"} THEN {draft[doc[w]]}
  ELSE {row \in Linkable : admittedAs[w] = Panel \/ row.owner = draft[doc[w]].owner}

\* What the Document Service leaves of an existing document: <<draft, live>>.
AfterAction(a, d, row) ==
  CASE a = "save"          -> <<row, live[d]>>
    [] a = "savePublished" -> <<row, row>>
    [] a = "publish"       -> <<draft[d], draft[d]>>
    [] a = "unpublish"     -> <<draft[d], NoRow>>
    [] a = "discard"       -> <<live[d], live[d]>>
    [] a = "delete"        -> <<NoRow, NoRow>>

\* One audit row per revision: an update that publishes writes two with the
\* same one, and both stand for the change.
Record(d, revision) == audit' = [audit EXCEPT ![d] = Append(@, revision)]

\* Fault: a write leaves the revision where it was.
AdvanceOrRemove_Stays(d, gone) ==
  version' = [version EXCEPT ![d] = IF gone THEN NoRow ELSE Revision(d)]

\* advanceRevision, or removeRevision when no row remains.
AdvanceOrRemove(d, gone) ==
  version' = [version EXCEPT ![d] = IF gone THEN NoRow ELSE Revision(d) + 1]

LinksOf(row) == IF row = NoRow THEN {} ELSE {row.owner, row.team} \ {NoDept, NoTeam}

\* The links a write inserts: a save those its draft did not have, what makes
\* a row anew all of them.  An insert waits for the row it links to.
NewLinks(w, row) ==
  LinksOf(AfterAction(action[w], doc[w], row)[1])
    \ (IF action[w] \in {"save", "unpublish"} THEN LinksOf(draft[doc[w]]) ELSE {})

\* Nobody is deleting what these links go to.
Free(links) == \A x \in links : refs[x] = NoDelete

Commit(w, row) ==
  LET d == doc[w]
      after == AfterAction(action[w], d, row)
  IN /\ pc[w] = "accepted" /\ Exists(d)
     /\ Free(NewLinks(w, row))
     /\ draft' = [draft EXCEPT ![d] = after[1]]
     /\ live' = [live EXCEPT ![d] = after[2]]
     /\ Record(d, locked[w] + 1)
     /\ AdvanceOrRemove(d, after = <<NoRow, NoRow>>)
     /\ IF admittedAs[w] = Panel \/ after[1] = NoRow
          THEN Forget(w)
          ELSE ShowForm(w, d, Revision(d) + 1, after[1])
     /\ Release(w)
     /\ UNCHANGED org

\* The document went while the request waited: nothing to change, and all
\* but the saves leave an audit row.
CommitOnGone(w) ==
  /\ pc[w] = "accepted" /\ ~Exists(doc[w])
  /\ IF action[w] \in {"save", "savePublished"}
       THEN UNCHANGED audit
       ELSE Record(doc[w], locked[w] + 1)
  /\ AdvanceOrRemove(doc[w], TRUE)
  /\ Release(w) /\ Forget(w)
  /\ UNCHANGED <<draft, live, org>>

\* The other transactions that lock a document: the scheduler, a vote, the
\* removal of a poll's voters, the pruning of an event's answers.  What they
\* write is not modelled here; that they find nothing to write, or no
\* document any more, and have inserted its version row, is.
LockInVain(d) ==
  /\ ~Fresh(d) /\ version[d] = NoRow /\ lockedBy[d] = NoWriter
  /\ version' = [version EXCEPT ![d] = 0]
  /\ UNCHANGED <<draft, live, audit, lockedBy, org, session>>

(***************************************************************************)
(* Create and clone: no document to lock, revision 1.                      *)
(***************************************************************************)

Insert(d, row, twin) ==
  /\ draft' = [draft EXCEPT ![d] = row]
  /\ live' = [live EXCEPT ![d] = twin]
  /\ version' = [version EXCEPT ![d] = 1]
  /\ Record(d, 1)

\* A department author's document belongs to their department.  A clone is a
\* panel's create of another document's draft.
Create(w, d, row, publishToo) ==
  /\ pc[w] = "idle" /\ Fresh(d) /\ Room(d)
  /\ row \in Linkable /\ Free(LinksOf(row)) /\ caller[w] # Nobody
  /\ caller[w] = Moderator => row.owner = NoDept
  /\ caller[w] \in Departments => InScope(row, caller[w])
  /\ Insert(d, row, IF publishToo THEN row ELSE NoRow)
  /\ IF caller[w] = Panel
       THEN UNCHANGED session
       ELSE ShowForm(w, d, 1, row)
  /\ UNCHANGED <<lockedBy, org>>

(***************************************************************************)
(* Departments, teams and accounts change under the documents.             *)
(***************************************************************************)

\* Fault: the scan looks at the drafts only.
LinkedTo_Drafts(x) == {d \in Docs : x \in LinksOf(draft[d])}

\* documentsLinking: a document is linked by either of its rows.  The owner
\* stands for every link to a department.
LinkedTo(x) == {d \in Docs : x \in LinksOf(draft[d]) \cup LinksOf(live[d])}

\* The delete of a department or team locks its row, so that no link to it is
\* inserted from now on, and looks for the documents that link it.
BeginDelete(x) ==
  /\ refs[x] = NoDelete
  /\ x \in departments \/ (x \in Teams /\ teamDept[x] # NoTeam)
  /\ refs' = [refs EXCEPT ![x] = LinkedTo(x)]
  /\ UNCHANGED <<database, lockedBy, departments, teamDept, caller, session>>

\* advanceRevisionsOf, one document: it is locked, whether it is still there
\* or not, and its revision goes up with the COMMIT.
AdvanceNext(x, d) ==
  /\ refs[x] # NoDelete /\ d \in refs[x] /\ \A e \in refs[x] : d <= e
  /\ lockedBy[d] = NoWriter
  /\ refs' = [refs EXCEPT ![x] = @ \ {d}]
  /\ lockedBy' = [lockedBy EXCEPT ![d] = x]
  /\ UNCHANGED <<database, departments, teamDept, caller, session>>

\* What the cascade leaves of a row.
WithoutOwner(row, dept) ==
  IF row # NoRow /\ row.owner = dept THEN [row EXCEPT !.owner = NoDept] ELSE row

WithoutTeam(row, team) ==
  IF row # NoRow /\ row.team = team THEN [row EXCEPT !.team = NoTeam] ELSE row

EndDelete(x) ==
  /\ refs' = [refs EXCEPT ![x] = NoDelete]
  /\ lockedBy' = [d \in Docs |-> IF lockedBy[d] = x THEN NoWriter ELSE lockedBy[d]]
  /\ UNCHANGED session

\* The COMMIT: ensureRow has brought back the row of a document that is gone.
AdvanceLocked(x) ==
  /\ refs[x] = {}
  /\ version' = [d \in Docs |-> IF lockedBy[d] = x THEN Revision(d) + 1 ELSE version[d]]
  /\ EndDelete(x)
  /\ UNCHANGED audit

DeleteDepartment(dept) ==
  /\ AdvanceLocked(dept)
  /\ draft' = [d \in Docs |-> WithoutOwner(draft[d], dept)]
  /\ live' = [d \in Docs |-> WithoutOwner(live[d], dept)]
  /\ departments' = departments \ {dept}
  /\ teamDept' = [t \in Teams |-> IF teamDept[t] = dept THEN NoDept ELSE teamDept[t]]
  /\ caller' = [w \in Writers |-> IF caller[w] = dept THEN Nobody ELSE caller[w]]

DeleteTeam(team) ==
  /\ AdvanceLocked(team)
  /\ draft' = [d \in Docs |-> WithoutTeam(draft[d], team)]
  /\ live' = [d \in Docs |-> WithoutTeam(live[d], team)]
  /\ teamDept' = [teamDept EXCEPT ![team] = NoTeam]
  /\ UNCHANGED <<departments, caller>>

\* A failing step, or a deadlock with a writer whose link waits for the
\* target's row: everything is as it was.
FailDelete(x) ==
  /\ refs[x] # NoDelete
  /\ EndDelete(x)
  /\ UNCHANGED <<database, departments, teamDept, caller>>

\* A team moves to another department: no document's revision says so.
MoveTeam(team, dept) ==
  /\ teamDept[team] # NoTeam /\ dept \in departments \cup {NoDept}
  /\ Free({team, dept} \ {NoDept})
  /\ teamDept' = [teamDept EXCEPT ![team] = dept]
  /\ UNCHANGED <<database, lockedBy, departments, caller, refs, pc, doc, action, expected, loaded,
                 admittedAs, observed, seen, locked>>
  /\ classSinceLock' = [w \in Writers |->
       \/ classSinceLock[w]
       \/ pc[w] \in Holding /\ HoldsClass(admittedAs[w], doc[w])']

\* The account behind a session is given another role or department.
ChangeAccount(w, class) ==
  /\ caller[w] # Panel
  /\ class \in Departments => class \in departments /\ Free({class})
  /\ caller' = [caller EXCEPT ![w] = class]
  /\ UNCHANGED <<database, lockedBy, departments, teamDept, refs, session>>

-----------------------------------------------------------------------------

Reading(w) ==
  \/ \E d \in Docs : LoadRevision(w, d)
  \/ LoadRows(w) \/ LoadRefused(w) \/ AbandonForm(w)
  \/ \E d \in Docs, n \in PredictedTokens : PredictToken(w, d, n)

Requesting(w) ==
  \/ \E a \in Actions : GateRevision(w, a)
  \/ GateAdmits(w) \/ GateRefuses(w) \/ RequestDelete(w)
  \/ \E d \in Docs, a \in Actions : RequestUnscoped(w, d, a)

Judging(w) ==
  \/ Lock(w) \/ PrecheckDiscard(w) \/ NeverPublished(w)
  \/ Accept(w) \/ RevisionStale(w) \/ ClassLost(w) \/ Rollback(w)

Writing(w) ==
  \/ pc[w] = "accepted" /\ \E row \in Payloads(w) : Commit(w, row)
  \/ CommitOnGone(w)
  \/ \E d \in Docs, row \in Row, publishToo \in BOOLEAN : Create(w, d, row, publishToo)

Deleting(x) ==
  \/ \E d \in Docs : AdvanceNext(x, d)
  \/ x \in Departments /\ DeleteDepartment(x)
  \/ x \in Teams /\ DeleteTeam(x)

OrgChange ==
  \/ \E x \in Deletable : BeginDelete(x)
  \/ \E x \in Targets : Deleting(x) \/ FailDelete(x)
  \/ \E team \in Teams, dept \in Departments \cup {NoDept} : MoveTeam(team, dept)
  \/ \E w \in Writers, class \in NewClasses : ChangeAccount(w, class)

Next ==
  \/ \E w \in Writers : Reading(w) \/ Requesting(w) \/ Judging(w) \/ Writing(w)
  \/ \E d \in Docs : LockInVain(d)
  \/ OrgChange

Spec == Init /\ [][Next]_vars

\* What the transaction of session w does next, short of failing.
Proceed(w) ==
  \/ PrecheckDiscard(w) \/ NeverPublished(w) \/ Accept(w) \/ RevisionStale(w) \/ ClassLost(w)
  \/ pc[w] = "accepted" /\ \E row \in Payloads(w) : Commit(w, row)
  \/ CommitOnGone(w)

\* The write of w waits for the row of x, and the delete of x for w's lock:
\* Postgres fails one of the two.
Deadlocked(w, x) ==
  /\ pc[w] = "accepted" /\ Exists(doc[w])
  /\ refs[x] # NoDelete /\ doc[w] \in refs[x]
  /\ \A row \in Payloads(w) : x \in NewLinks(w, row)

EndDeadlock(w, x) == Deadlocked(w, x) /\ (Rollback(w) \/ FailDelete(x))

\* A transaction runs to its end, and Postgres hands a row lock, of a version
\* row or of what a link goes to, to whoever waits for it: no request and no
\* delete is passed over for ever.
FairSpec ==
  /\ Spec
  /\ \A w \in Writers : SF_vars(Proceed(w)) /\ SF_vars(Lock(w))
  /\ \A x \in Targets : SF_vars(Deleting(x))
  /\ \A w \in Writers, x \in Targets : WF_vars(EndDeadlock(w, x))

-----------------------------------------------------------------------------
(***************************************************************************)
(* Correctness.                                                            *)
(***************************************************************************)

TablesOK ==
  /\ draft \in [Docs -> Row \cup {NoRow}]
  /\ live \in [Docs -> Row \cup {NoRow}]
  /\ version \in [Docs -> Nat \cup {NoRow}]
  /\ audit \in [Docs -> Seq(Nat)]
  /\ lockedBy \in [Docs -> Writers \cup Targets \cup {NoWriter}]
  /\ departments \in SUBSET Departments
  /\ teamDept \in [Teams -> Departments \cup {NoDept, NoTeam}]
  /\ caller \in [Writers -> Callers]
  /\ refs \in [Targets -> (SUBSET Docs) \cup {NoDelete}]

Places == {"idle", "loading", "form", "gating", "stale"} \cup InFlight

SessionsOK ==
  /\ pc \in [Writers -> Places]
  /\ doc \in [Writers -> Docs \cup {NoDoc}]
  /\ \A w \in Writers : pc[w] # "idle" => doc[w] \in Docs
  /\ action \in [Writers -> Actions]
  /\ expected \in [Writers -> Nat \cup {NoToken}]
  /\ loaded \in [Writers -> Row \cup {NoRow}]
  /\ admittedAs \in [Writers -> Callers]
  /\ observed \in [Writers -> Nat \cup {NoToken}]
  /\ seen \in [Writers -> (Row \cup {NoRow}) \X (Row \cup {NoRow})]
  /\ locked \in [Writers -> Nat]
  /\ classSinceLock \in [Writers -> BOOLEAN]

TypeOK == TablesOK /\ SessionsOK

(***************************************************************************)
(* Why the properties hold: what the revision, the lock and the gate keep  *)
(* true of every session, in every state.                                  *)
(***************************************************************************)

\* A token read from a document is never ahead of it.
TokenRead(n, d) ==
  /\ n \in Nat
  /\ Exists(d) => n <= Revision(d)
  /\ Fresh(d) => n = 0

\* Form and gate: a token that still matches vouches for the rows.
TokensVouch(w) ==
  /\ pc[w] \in {"idle", "loading"} => loaded[w] = NoRow
  /\ pc[w] \in {"idle", "loading", "form"} => observed[w] = NoToken
  /\ pc[w] = "loading" \/ loaded[w] # NoRow => TokenRead(expected[w], doc[w])
  /\ loaded[w] # NoRow /\ Exists(doc[w]) /\ expected[w] = Revision(doc[w])
       => loaded[w] = draft[doc[w]]
  /\ Gated(w) => TokenRead(observed[w], doc[w])
  /\ Gated(w) /\ pc[w] \in InFlight /\ Exists(doc[w]) /\ observed[w] = Revision(doc[w])
       => seen[w] = <<draft[doc[w]], live[doc[w]]>>

\* Who holds the lock has read the revision that still is, and everything
\* the request was judged by still stands.
LockHolds(w) ==
  /\ pc[w] \in InFlight => ~Fresh(doc[w])
  /\ pc[w] \in InFlight \cup {"gating"} /\ action[w] = "delete"
       => admittedAs[w] \notin Departments
  /\ pc[w] \in Holding =>
       /\ lockedBy[doc[w]] = w
       /\ locked[w] = Revision(doc[w])
       /\ HoldsClass(admittedAs[w], doc[w]) => classSinceLock[w]
  /\ pc[w] = "checked" => live[doc[w]] # NoRow
  /\ pc[w] = "accepted" =>
       /\ TokensMatch(w)
       /\ Gated(w) => Exists(doc[w]) /\ classSinceLock[w]
       /\ action[w] = "discard" /\ admittedAs[w] \in Departments => live[doc[w]] # NoRow

RowsGoTogether ==
  \A d \in Docs : (live[d] # NoRow => Exists(d)) /\ (Fresh(d) => version[d] = NoRow)

\* A delete of x holds version rows only while it runs, and of no document that
\* was never drawn; every document that links x is still to be locked or held.
LinksFound(x) ==
  /\ \A d \in Docs : d \in refs[x] \/ lockedBy[d] = x => ~Fresh(d)
  /\ \A d \in Docs : lockedBy[d] = x => refs[x] # NoDelete
  /\ refs[x] # NoDelete => \A d \in LinkedTo(x) : d \in refs[x] \/ lockedBy[d] = x

Maintained ==
  /\ TypeOK /\ RowsGoTogether
  /\ \A w \in Writers : TokensVouch(w) /\ LockHolds(w)
  /\ \A x \in Targets : LinksFound(x)

\* A form's token vouches for what the form shows: while the document still
\* has the form's revision it still has the form's draft.
TokenVouchesForForm ==
  \A w \in Writers :
    pc[w] = "form" /\ loaded[w] # NoRow /\ Exists(doc[w]) /\ expected[w] = Revision(doc[w])
      => loaded[w] = draft[doc[w]]

\* The write that session w commits in this step.
Writes(w) == pc[w] = "accepted" /\ audit' # audit /\ pc'[w] # "accepted"

\* No lost update: what a web author's write replaces, publishes or deletes
\* is the draft their form showed, whatever committed in between.
NoLostUpdate ==
  [][\A w \in Writers :
       Writes(w) /\ loaded[w] # NoRow /\ Exists(doc[w]) => draft[doc[w]] = loaded[w]]_vars

\* A predicted If-Match never rides on an older decision: a gated write
\* replaces the very rows the gate judged.
WriteMatchesGate ==
  [][\A w \in Writers :
       Writes(w) /\ Gated(w) => seen[w] = <<draft[doc[w]], live[doc[w]]>>]_vars

\* A request whose document left the scope of the class and department it was
\* admitted with, by a team that moved or a delete that took a link away,
\* before the lock was its own, and did not come back, changes nothing and does
\* not learn the revision, whatever tokens it carries.
NothingAfterLosingScope ==
  [][\A w \in Writers :
       Gated(w) /\ (Writes(w) \/ (pc[w] \in Holding /\ pc'[w] = "stale")) => classSinceLock[w]]_vars

\* What the comment on the scope says: "a demoted or moved author" cannot
\* ride on the gate's older decision.  Whoever is accepted under the lock holds
\* the class then, by what their account is now.
NothingAfterDemotion ==
  [][\A w \in Writers :
       Gated(w) /\ pc[w] \in Holding /\ pc[w] # "accepted" /\ pc'[w] = "accepted"
         => HoldsClass(caller[w], doc[w])]_vars

\* No request admitted as a department author's removes a document: their
\* discard of a draft that was never published, or was just withdrawn, is
\* refused.
AuthorsNeverDelete ==
  [][\A w \in Writers :
       Writes(w) /\ admittedAs[w] \in Departments /\ Exists(doc[w]) => draft'[doc[w]] # NoRow]_vars

\* Whatever changes a row of a surviving document moves its revision up, a
\* save as well as the cascade of a deleted department or team.
EveryChangeAdvances ==
  [][\A d \in Docs :
       Exists(d) /\ draft'[d] # NoRow /\ <<draft[d], live[d]>>' # <<draft[d], live[d]>>
         => version'[d] # NoRow /\ version'[d] > Revision(d)]_vars

\* The trail of a document that exists tells its changes apart: the
\* revisions of its rows go up, and none is ahead of the document.
TrailInOrder ==
  \A d \in Docs : Exists(d) =>
    /\ \A i \in 1 .. Len(audit[d]) : audit[d][i] <= Revision(d)
    /\ \A i \in 1 .. Len(audit[d]) - 1 : audit[d][i] < audit[d][i + 1]

\* Every write that was admitted to the lock's queue is answered: the holder
\* of a version row never keeps it, whichever way its request ends.
RequestAnswered ==
  \A w \in Writers : pc[w] = "waiting" ~> pc[w] \in {"idle", "form", "stale"}

\* Every delete of a department or team that was begun ends, done or undone:
\* its locks, taken one by one, and the writers that hold them and wait for its
\* row, never leave it waiting.
DeletesEnd == \A x \in Targets : refs[x] # NoDelete ~> refs[x] = NoDelete

=============================================================================
