------------------------- MODULE DocumentLockProofs -------------------------
(* What holds of the document lock for any documents, sessions and bounds. *)
EXTENDS DocumentLock, TLAPS

-----------------------------------------------------------------------------
(***************************************************************************)
(* Types.                                                                  *)
(***************************************************************************)

\* A revision is a number, with or without a version row.
LEMMA RevisionType ==
  ASSUME TypeOK, NEW d \in Docs
  PROVE  Revision(d) \in Nat
BY DEF TypeOK, TablesOK, Revision

\* A session that forgets its request is in a state a session can be in.
LEMMA ForgetType ==
  ASSUME TypeOK, NEW w \in Writers, Forget(w)
  PROVE  SessionsOK'
BY DEF TypeOK, SessionsOK, Forget, Actions, Places, Callers

\* So is one whose form shows a row under a token.
LEMMA ShowFormType ==
  ASSUME TypeOK, NEW w \in Writers, NEW d \in Docs, NEW n \in Nat, NEW row \in Row \cup {NoRow},
         ShowForm(w, d, n, row)
  PROVE  SessionsOK'
BY DEF TypeOK, SessionsOK, ShowForm, Actions, Places, Callers

\* So is one that only moves to another place of its request.
LEMMA MoveType ==
  ASSUME TypeOK, NEW w \in Writers, NEW place \in Places, pc[w] # "idle", Move(w, place)
  PROVE  SessionsOK'
BY DEF TypeOK, SessionsOK, Move

\* Tables that do not change keep their types, whatever the locks do.
LEMMA SameTables ==
  ASSUME TypeOK, UNCHANGED <<database, org>>,
         \/ UNCHANGED lockedBy
         \/ \E w \in Writers : Release(w)
         \/ \E w \in Writers : lockedBy' = [lockedBy EXCEPT ![doc[w]] = w]
  PROVE  TablesOK'
BY DEF TypeOK, TablesOK, database, org, Release

\* Loading a form keeps the types.
LEMMA ReadingType ==
  ASSUME TypeOK, NEW w \in Writers, Reading(w)
  PROVE  TypeOK'
<1>1. CASE \E d \in Docs : LoadRevision(w, d)
  <2> PICK d \in Docs : LoadRevision(w, d)
    BY <1>1
  <2>1. Revision(d) \in Nat
    BY RevisionType
  <2>2. SessionsOK'
    BY <2>1 DEF LoadRevision, TypeOK, TablesOK, SessionsOK, Places
  <2>3. TablesOK'
    BY SameTables DEF LoadRevision
  <2> QED BY <2>2, <2>3 DEF TypeOK
<1>2. CASE LoadRows(w)
  <2>1. doc[w] \in Docs /\ expected[w] \in Nat \cup {NoToken} /\ draft[doc[w]] \in Row \cup {NoRow}
    BY <1>2 DEF LoadRows, TypeOK, SessionsOK, TablesOK
  <2>2. SessionsOK'
    BY <1>2, <2>1 DEF LoadRows, ShowForm, TypeOK, SessionsOK, Places, Actions, Callers
  <2>3. TablesOK'
    BY <1>2, SameTables DEF LoadRows
  <2> QED BY <2>2, <2>3 DEF TypeOK
<1>3. CASE LoadRefused(w) \/ AbandonForm(w)
  BY <1>3, ForgetType, SameTables DEF LoadRefused, AbandonForm, TypeOK
<1>4. CASE \E d \in Docs, n \in PredictedTokens : PredictToken(w, d, n)
  <2> PICK d \in Docs, n \in PredictedTokens : PredictToken(w, d, n)
    BY <1>4
  <2>1. n \in Nat
    BY BoundsAssumption
  <2>2. SessionsOK'
    BY <2>1, ShowFormType DEF PredictToken
  <2>3. TablesOK'
    BY SameTables DEF PredictToken
  <2> QED BY <2>2, <2>3 DEF TypeOK
<1> QED BY <1>1, <1>2, <1>3, <1>4 DEF Reading

\* Asking for a write keeps the types.
LEMMA RequestingType ==
  ASSUME TypeOK, NEW w \in Writers, Requesting(w)
  PROVE  TypeOK'
<1>1. CASE \E a \in Actions : GateRevision(w, a)
  <2> PICK a \in Actions : GateRevision(w, a)
    BY <1>1
  <2>1. doc[w] \in Docs /\ Revision(doc[w]) \in Nat
    BY RevisionType DEF GateRevision, TypeOK, SessionsOK
  <2>2. SessionsOK'
    BY <2>1 DEF GateRevision, TypeOK, TablesOK, SessionsOK, Places
  <2>3. TablesOK'
    BY SameTables DEF GateRevision
  <2> QED BY <2>2, <2>3 DEF TypeOK
<1>2. CASE GateAdmits(w)
  <2>1. doc[w] \in Docs
    BY <1>2 DEF GateAdmits, TypeOK, SessionsOK
  <2>2. SessionsOK'
    BY <1>2, <2>1 DEF GateAdmits, TypeOK, SessionsOK, TablesOK, Places, InFlight
  <2>3. TablesOK'
    BY <1>2, SameTables DEF GateAdmits
  <2> QED BY <2>2, <2>3 DEF TypeOK
<1>3. CASE GateRefuses(w)
  BY <1>3, ForgetType, SameTables DEF GateRefuses, TypeOK
<1>4. CASE RequestDelete(w)
  <2>1. SessionsOK'
    BY <1>4 DEF RequestDelete, TypeOK, SessionsOK, Places, InFlight, Actions, Callers
  <2>2. TablesOK'
    BY <1>4, SameTables DEF RequestDelete
  <2> QED BY <2>1, <2>2 DEF TypeOK
<1>5. CASE \E d \in Docs, a \in Actions : RequestUnscoped(w, d, a)
  <2> PICK d \in Docs, a \in Actions : RequestUnscoped(w, d, a)
    BY <1>5
  <2>1. SessionsOK'
    BY DEF RequestUnscoped, TypeOK, SessionsOK, Places, InFlight, Callers
  <2>2. TablesOK'
    BY SameTables DEF RequestUnscoped
  <2> QED BY <2>1, <2>2 DEF TypeOK
<1> QED BY <1>1, <1>2, <1>3, <1>4, <1>5 DEF Requesting

\* Taking the lock and judging a request keeps the types.
LEMMA JudgingType ==
  ASSUME TypeOK, NEW w \in Writers, Judging(w)
  PROVE  TypeOK'
<1>1. CASE Lock(w)
  <2>1. doc[w] \in Docs /\ Revision(doc[w]) \in Nat
    BY <1>1, RevisionType DEF Lock, TypeOK, SessionsOK
  <2>2. HoldsClass(admittedAs[w], doc[w]) \in BOOLEAN
    BY DEF HoldsClass
  <2>3. SessionsOK'
    BY <1>1, <2>1, <2>2 DEF Lock, TypeOK, SessionsOK, Places, InFlight
  <2>4. TablesOK'
    BY <1>1, SameTables DEF Lock
  <2> QED BY <2>3, <2>4 DEF TypeOK
<1>2. CASE PrecheckDiscard(w) \/ Accept(w) \/ RevisionStale(w)
  <2>1. pc[w] # "idle"
    BY <1>2 DEF PrecheckDiscard, Accept, RevisionStale, Comparing
  <2>2. SessionsOK'
    BY <1>2, <2>1, MoveType DEF PrecheckDiscard, Accept, RevisionStale, Places, InFlight
  <2>3. TablesOK'
    BY <1>2, SameTables DEF PrecheckDiscard, Accept, RevisionStale
  <2> QED BY <2>2, <2>3 DEF TypeOK
<1>3. CASE NeverPublished(w) \/ ClassLost(w) \/ Rollback(w)
  BY <1>3, ForgetType, SameTables DEF NeverPublished, ClassLost, Rollback, TypeOK
<1> QED BY <1>1, <1>2, <1>3 DEF Judging

\* Whatever an action leaves of a document is a row or none.
LEMMA AfterActionType ==
  ASSUME TypeOK, NEW w \in Writers, NEW d \in Docs, NEW row \in Row \cup {NoRow}
  PROVE  AfterAction(action[w], d, row) \in (Row \cup {NoRow}) \X (Row \cup {NoRow})
BY DEF AfterAction, TypeOK, TablesOK, SessionsOK, Actions

\* A commit keeps the types.
LEMMA CommitType ==
  ASSUME TypeOK, NEW w \in Writers, NEW row \in Row \cup {NoRow}, Commit(w, row)
  PROVE  TypeOK'
<1> DEFINE d == doc[w]
           after == AfterAction(action[w], d, row)
<1>1. d \in Docs /\ Revision(d) \in Nat /\ locked[w] \in Nat
  BY RevisionType DEF Commit, TypeOK, SessionsOK
<1>2. after[1] \in Row \cup {NoRow} /\ after[2] \in Row \cup {NoRow}
  BY <1>1, AfterActionType
<1>3. TablesOK'
  BY <1>1, <1>2 DEF Commit, Record, AdvanceOrRemove, Release, TypeOK, TablesOK, org
<1>4. SessionsOK'
  <2>1. CASE Forget(w)
    BY <2>1, ForgetType
  <2>2. CASE ShowForm(w, d, Revision(d) + 1, after[1])
    BY <1>1, <1>2, <2>2, ShowFormType
  <2> QED BY <2>1, <2>2 DEF Commit
<1> QED BY <1>3, <1>4 DEF TypeOK

\* Commits and creates keep the types.
LEMMA WritingType ==
  ASSUME TypeOK, NEW w \in Writers, Writing(w)
  PROVE  TypeOK'
<1>1. CASE pc[w] = "accepted" /\ \E row \in Payloads(w) : Commit(w, row)
  <2>1. Payloads(w) \subseteq Row \cup {NoRow}
    BY <1>1 DEF Payloads, Linkable, TypeOK, TablesOK, SessionsOK
  <2> QED BY <1>1, <2>1, CommitType
<1>2. CASE CommitOnGone(w)
  <2>1. doc[w] \in Docs /\ locked[w] \in Nat
    BY <1>2 DEF CommitOnGone, TypeOK, SessionsOK
  <2>2. audit' \in [Docs -> Seq(Nat)]
    <3>1. CASE Record(doc[w], locked[w] + 1)
      BY <2>1, <3>1 DEF Record, TypeOK, TablesOK
    <3>2. CASE UNCHANGED audit
      BY <3>2 DEF TypeOK, TablesOK
    <3> QED BY <1>2, <3>1, <3>2 DEF CommitOnGone
  <2>3. /\ version' \in [Docs -> Nat \cup {NoRow}]
        /\ lockedBy' \in [Docs -> Writers \cup Targets \cup {NoWriter}]
    BY <1>2, <2>1 DEF CommitOnGone, AdvanceOrRemove, Release, TypeOK, TablesOK
  <2>4. TablesOK'
    BY <1>2, <2>2, <2>3 DEF CommitOnGone, TypeOK, TablesOK, org
  <2> QED BY <1>2, <2>4, ForgetType DEF CommitOnGone, TypeOK
<1>3. CASE \E d \in Docs, row \in Row, publishToo \in BOOLEAN : Create(w, d, row, publishToo)
  <2> PICK d \in Docs, row \in Row, publishToo \in BOOLEAN : Create(w, d, row, publishToo)
    BY <1>3
  <2>1. TablesOK'
    BY DEF Create, Insert, Record, TypeOK, TablesOK, org
  <2>2. SessionsOK'
    <3>1. CASE ShowForm(w, d, 1, row)
      BY <3>1, ShowFormType
    <3> QED BY <3>1 DEF Create, session, TypeOK, SessionsOK
  <2> QED BY <2>1, <2>2 DEF TypeOK
<1> QED BY <1>1, <1>2, <1>3 DEF Writing

\* A delete that ends leaves locks and links to lock of their types.
LEMMA EndDeleteType ==
  ASSUME TypeOK, NEW x \in Targets, EndDelete(x)
  PROVE  /\ SessionsOK'
         /\ refs' \in [Targets -> (SUBSET Docs) \cup {NoDelete}]
         /\ lockedBy' \in [Docs -> Writers \cup Targets \cup {NoWriter}]
<1>1. SessionsOK'
  BY DEF EndDelete, TypeOK, SessionsOK, session
<1>2. refs' \in [Targets -> (SUBSET Docs) \cup {NoDelete}]
  BY DEF EndDelete, TypeOK, TablesOK
<1>3. lockedBy' \in [Docs -> Writers \cup Targets \cup {NoWriter}]
  BY DEF EndDelete, TypeOK, TablesOK
<1> QED BY <1>1, <1>2, <1>3

\* A delete that commits keeps the types.
LEMMA DeletingType ==
  ASSUME TypeOK, NEW x \in Targets, Deleting(x)
  PROVE  TypeOK'
<1>1. ASSUME NEW d \in Docs, AdvanceNext(x, d)
      PROVE  TypeOK'
  <2>1. /\ refs' = [refs EXCEPT ![x] = refs[x] \ {d}] /\ refs[x] \in (SUBSET Docs) \cup {NoDelete}
        /\ refs[x] # NoDelete /\ lockedBy' = [lockedBy EXCEPT ![d] = x]
    BY <1>1 DEF AdvanceNext, TypeOK, TablesOK
  <2>2. TablesOK'
    BY <1>1, <2>1 DEF AdvanceNext, TypeOK, TablesOK, database
  <2>3. SessionsOK'
    BY <1>1 DEF AdvanceNext, TypeOK, SessionsOK, session
  <2> QED BY <2>2, <2>3 DEF TypeOK
<1>2. ASSUME AdvanceLocked(x)
      PROVE  /\ SessionsOK' /\ UNCHANGED audit
             /\ refs' \in [Targets -> (SUBSET Docs) \cup {NoDelete}]
             /\ lockedBy' \in [Docs -> Writers \cup Targets \cup {NoWriter}]
             /\ version' \in [Docs -> Nat \cup {NoRow}]
  <2>1. \A d \in Docs : Revision(d) \in Nat
    BY RevisionType
  <2>2. version' \in [Docs -> Nat \cup {NoRow}]
    BY <1>2, <2>1 DEF AdvanceLocked, TypeOK, TablesOK
  <2> QED BY <1>2, <2>2, EndDeleteType DEF AdvanceLocked
<1>3. CASE x \in Departments /\ DeleteDepartment(x)
  <2>1. \A row \in Row \cup {NoRow} : WithoutOwner(row, x) \in Row \cup {NoRow}
    BY DEF WithoutOwner, Row
  <2>2. caller' \in [Writers -> Callers]
    BY <1>3 DEF DeleteDepartment, TypeOK, TablesOK, Callers
  <2>3. TablesOK'
    BY <1>2, <1>3, <2>1, <2>2 DEF DeleteDepartment, TypeOK, TablesOK
  <2> QED BY <1>2, <1>3, <2>3 DEF DeleteDepartment, TypeOK
<1>4. CASE x \in Teams /\ DeleteTeam(x)
  <2>1. \A row \in Row \cup {NoRow} : WithoutTeam(row, x) \in Row \cup {NoRow}
    BY DEF WithoutTeam, Row
  <2>2. TablesOK'
    BY <1>2, <1>4, <2>1 DEF DeleteTeam, TypeOK, TablesOK
  <2> QED BY <1>2, <1>4, <2>2 DEF DeleteTeam, TypeOK
<1> QED BY <1>1, <1>3, <1>4 DEF Deleting

\* Deletes, moves of teams and changes of accounts keep the types.
LEMMA OrgChangeType ==
  ASSUME TypeOK, OrgChange
  PROVE  TypeOK'
<1>1. CASE \E x \in Deletable : BeginDelete(x)
  <2> PICK x \in Targets : BeginDelete(x)
    BY <1>1, BoundsAssumption
  <2>1. LinkedTo(x) \in SUBSET Docs
    BY DEF LinkedTo
  <2>2. TablesOK'
    BY <2>1 DEF BeginDelete, TypeOK, TablesOK, database
  <2> QED BY <2>2 DEF BeginDelete, TypeOK, SessionsOK, session
<1>2. CASE \E x \in Targets : Deleting(x)
  BY <1>2, DeletingType
<1>3. CASE \E x \in Targets : FailDelete(x)
  <2> PICK x \in Targets : FailDelete(x)
    BY <1>3
  <2>1. TablesOK'
    BY EndDeleteType DEF FailDelete, TypeOK, TablesOK, database
  <2> QED BY <2>1, EndDeleteType DEF FailDelete, TypeOK
<1>4. CASE \E team \in Teams, dept \in Departments \cup {NoDept} : MoveTeam(team, dept)
  BY <1>4 DEF MoveTeam, TypeOK, TablesOK, SessionsOK, database
<1>5. CASE \E w \in Writers, class \in NewClasses : ChangeAccount(w, class)
  <2> PICK w \in Writers, class \in Callers : ChangeAccount(w, class)
    BY <1>5, CallersAssumption
  <2>1. TablesOK'
    BY DEF ChangeAccount, TypeOK, TablesOK, database
  <2> QED BY <2>1 DEF ChangeAccount, TypeOK, SessionsOK, session
<1> QED BY <1>1, <1>2, <1>3, <1>4, <1>5 DEF OrgChange

\* A lock taken in vain keeps the types.
LEMMA LockInVainType ==
  ASSUME TypeOK, NEW d \in Docs, LockInVain(d)
  PROVE  TypeOK'
<1>1. TablesOK'
  BY DEF LockInVain, TypeOK, TablesOK, org
<1> QED BY <1>1 DEF LockInVain, TypeOK, SessionsOK, session

\* Every step keeps the types.
LEMMA TypeStep ==
  ASSUME TypeOK, [Next]_vars
  PROVE  TypeOK'
<1>1. CASE UNCHANGED vars
  BY <1>1 DEF vars, database, org, session, TypeOK, TablesOK, SessionsOK
<1> QED BY <1>1, ReadingType, RequestingType, JudgingType, WritingType, LockInVainType, OrgChangeType
        DEF Next

\* The tables and the sessions start with their types.
LEMMA TypeInit ==
  ASSUME Init
  PROVE  TypeOK
<1>1. TablesOK
  <2>1. /\ draft \in [Docs -> Row \cup {NoRow}] /\ live \in [Docs -> Row \cup {NoRow}]
        /\ version \in [Docs -> Nat \cup {NoRow}] /\ audit \in [Docs -> Seq(Nat)]
        /\ lockedBy \in [Docs -> Writers \cup Targets \cup {NoWriter}]
    BY DEF Init
  <2>2. departments \in SUBSET Departments /\ caller \in [Writers -> Callers]
    BY CallersAssumption DEF Init
  <2>3. teamDept \in [Teams -> Departments \cup {NoDept, NoTeam}]
    BY DEF Init
  <2>4. refs \in [Targets -> (SUBSET Docs) \cup {NoDelete}]
    BY DEF Init
  <2> QED BY <2>1, <2>2, <2>3, <2>4 DEF TablesOK
<1>2. SessionsOK
  BY DEF Init, SessionsOK, Actions, Places, InFlight, Callers
<1> QED BY <1>1, <1>2 DEF TypeOK

\* Tables and sessions keep their types.
THEOREM Typing == Spec => []TypeOK
BY TypeInit, TypeStep, PTL DEF Spec
=============================================================================
