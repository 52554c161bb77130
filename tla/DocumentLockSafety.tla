------------------------- MODULE DocumentLockSafety -------------------------
(***************************************************************************)
(* Maintained is inductive, and what follows from it.  One step of one     *)
(* actor is seen from two sides: what it does to the session that takes    *)
(* it, and what every other session still finds true afterwards, because   *)
(* it moves documents forward only (DocStep) and leaves alone those that   *)
(* another session has locked (Untouched).                                 *)
(***************************************************************************)
EXTENDS DocumentLockProofs

\* How any step may change a document: it may be drawn once, it moves its
\* revision up with its rows, and it never comes back.
DocStep(d) ==
  /\ Fresh(d)' => Fresh(d)
  /\ Exists(d) /\ Exists(d)' =>
       \/ Revision(d)' > Revision(d)
       \/ Revision(d)' = Revision(d) /\ draft'[d] = draft[d] /\ live'[d] = live[d]
  /\ ~Exists(d) /\ Exists(d)' => Fresh(d) /\ Revision(d)' > 0

Untouched(d) ==
  draft'[d] = draft[d] /\ live'[d] = live[d] /\ version'[d] = version[d] /\ lockedBy'[d] = lockedBy[d]

\* A session that takes no part in the step.
Idles(u) ==
  /\ pc'[u] = pc[u] /\ doc'[u] = doc[u] /\ action'[u] = action[u]
  /\ expected'[u] = expected[u] /\ loaded'[u] = loaded[u] /\ admittedAs'[u] = admittedAs[u]
  /\ observed'[u] = observed[u] /\ seen'[u] = seen[u] /\ locked'[u] = locked[u]

\* Whoever deletes a department or team keeps the version rows it holds, and
\* finds no document that links it anew.
LinksStay ==
  \A x \in Targets, d \in Docs :
    /\ lockedBy'[d] = x <=> lockedBy[d] = x
    /\ refs[x] # NoDelete /\ d \in LinkedTo(x)' => d \in LinkedTo(x)

\* The step of session w is w's alone.
ActsAlone(w) ==
  /\ \A u \in Writers \ {w} : Idles(u) /\ classSinceLock'[u] = classSinceLock[u]
  /\ \A d \in Docs : DocStep(d)
  /\ \A d \in Docs : ~Fresh(d) /\ lockedBy[d] \notin {w, NoWriter} => Untouched(d)
  /\ LinksStay
  /\ UNCHANGED org

Kept(w) == TokensVouch(w) /\ LockHolds(w)

-----------------------------------------------------------------------------
(***************************************************************************)
(* Bystanders.                                                             *)
(***************************************************************************)

\* A token read earlier stays a token read earlier.
LEMMA TokenReadStays ==
  ASSUME TypeOK, TypeOK', NEW d \in Docs, DocStep(d), NEW n, TokenRead(n, d)
  PROVE  TokenRead(n, d)'
<1>1. Revision(d) \in Nat /\ Revision(d)' \in Nat
  BY DEF TypeOK, TablesOK, Revision
<1> QED BY <1>1 DEF TokenRead, DocStep

\* A token that matches after the step matched before it, and the rows are
\* those it matched then.
LEMMA TokenMatchStays ==
  ASSUME TypeOK, TypeOK', NEW d \in Docs, DocStep(d), NEW n, TokenRead(n, d),
         Exists(d)', n = Revision(d)'
  PROVE  Exists(d) /\ n = Revision(d) /\ draft'[d] = draft[d] /\ live'[d] = live[d]
<1>1. Revision(d) \in Nat /\ Revision(d)' \in Nat
  BY DEF TypeOK, TablesOK, Revision
<1> QED BY <1>1 DEF TokenRead, DocStep

\* The tokens of a session that idles keep their word.
LEMMA BystanderTokens ==
  ASSUME TypeOK, TypeOK', NEW u \in Writers, TokensVouch(u), Idles(u), \A d \in Docs : DocStep(d)
  PROVE  TokensVouch(u)'
<1>1. CASE pc[u] = "idle"
  BY <1>1 DEF Idles, TokensVouch, Gated, InFlight
<1>2. CASE pc[u] # "idle"
  <2> PICK d \in Docs : d = doc[u] /\ d = doc'[u]
    BY <1>2 DEF TypeOK, SessionsOK, Idles
  <2>1. \A n : TokenRead(n, d) => TokenRead(n, d)'
    BY TokenReadStays
  <2>2. \A n : TokenRead(n, d) /\ Exists(d)' /\ n = Revision(d)'
                => Exists(d) /\ n = Revision(d) /\ draft'[d] = draft[d] /\ live'[d] = live[d]
    BY TokenMatchStays
  <2>3. /\ pc'[u] \in {"idle", "loading"} => loaded'[u] = NoRow
        /\ pc'[u] \in {"idle", "loading", "form"} => observed'[u] = NoToken
    BY DEF TokensVouch, Idles
  <2>4. pc'[u] = "loading" \/ loaded'[u] # NoRow => TokenRead(expected[u], doc[u])'
    BY <2>1 DEF TokensVouch, Idles, TokenRead, Exists, Fresh, Revision
  <2>5. Gated(u)' => TokenRead(observed[u], doc[u])'
    BY <2>1 DEF TokensVouch, Idles, TokenRead, Exists, Fresh, Revision, Gated
  <2>6. loaded'[u] # NoRow /\ Exists(doc[u])' /\ expected'[u] = Revision(doc[u])'
          => loaded'[u] = draft'[doc'[u]]
    BY <2>2 DEF TokensVouch, Idles, TokenRead, Exists, Fresh, Revision
  <2>7. Gated(u)' /\ pc'[u] \in InFlight /\ Exists(doc[u])' /\ observed'[u] = Revision(doc[u])'
          => seen'[u] = <<draft'[doc'[u]], live'[doc'[u]]>>
    BY <2>2 DEF TokensVouch, Idles, TokenRead, Exists, Fresh, Revision, Gated
  <2> QED BY <2>3, <2>4, <2>5, <2>6, <2>7 DEF TokensVouch
<1> QED BY <1>1, <1>2

\* The request of a session that idles stands as it stood: nobody touches
\* the document it has locked, and its class was its own before the step.
LEMMA BystanderLock ==
  ASSUME TypeOK, TypeOK', NEW u \in Writers, LockHolds(u), Idles(u), \A d \in Docs : DocStep(d),
         classSinceLock[u] => classSinceLock'[u],
         pc[u] \in Holding =>
           /\ \A d \in Docs : d = doc[u] => Untouched(d)
           /\ HoldsClass(admittedAs[u], doc[u])' => HoldsClass(admittedAs[u], doc[u]) \/ classSinceLock'[u]
  PROVE  LockHolds(u)'
<1>1. CASE pc[u] \notin InFlight
  BY <1>1 DEF LockHolds, Idles, InFlight, Holding
<1>2. CASE pc[u] \in InFlight
  <2> PICK d \in Docs : d = doc[u] /\ d = doc'[u]
    BY <1>2 DEF TypeOK, SessionsOK, Idles, InFlight
  <2>1. ~Fresh(doc[u])'
    BY <1>2 DEF LockHolds, Idles, DocStep, Fresh
  <2>2. action'[u] = "delete" => admittedAs[u] \notin Departments
    BY <1>2 DEF LockHolds, Idles
  <2>3. ASSUME pc[u] \in Holding
        PROVE  /\ lockedBy'[doc'[u]] = u /\ locked'[u] = Revision(doc[u])'
               /\ HoldsClass(admittedAs[u], doc[u])' => classSinceLock'[u]
    BY <2>3 DEF LockHolds, Idles, Untouched, Revision
  <2>4. pc[u] = "checked" => live'[doc'[u]] # NoRow
    BY DEF LockHolds, Idles, Untouched, Holding
  <2>5. ASSUME pc[u] = "accepted"
        PROVE  /\ TokensMatch(u)'
               /\ Gated(u)' => Exists(doc[u])' /\ classSinceLock'[u]
               /\ action'[u] = "discard" /\ admittedAs[u] \in Departments => live'[doc'[u]] # NoRow
    BY <2>5 DEF LockHolds, Idles, Untouched, Holding, TokensMatch, Gated, Exists
  <2> QED BY <1>2, <2>1, <2>2, <2>3, <2>4, <2>5 DEF LockHolds, Idles
<1> QED BY <1>1, <1>2

\* A step of w leaves every other session as good as it was.
LEMMA Bystanders ==
  ASSUME Maintained, TypeOK', NEW w \in Writers, ActsAlone(w), NEW u \in Writers \ {w}
  PROVE  Kept(u)'
<1>1. TypeOK /\ TokensVouch(u) /\ LockHolds(u) /\ Idles(u) /\ \A d \in Docs : DocStep(d)
  BY DEF Maintained, ActsAlone
<1>2. TokensVouch(u)'
  BY <1>1, BystanderTokens
<1>3. ASSUME pc[u] \in Holding
      PROVE  /\ \A d \in Docs : d = doc[u] => Untouched(d)
             /\ HoldsClass(admittedAs[u], doc[u])' => HoldsClass(admittedAs[u], doc[u])
  <2>1. u \notin {w, NoWriter}
    BY NullsAssumption
  <2>2. \A d \in Docs : d = doc[u] => Untouched(d)
    BY <1>1, <1>3, <2>1 DEF LockHolds, ActsAlone, Holding, InFlight, Fresh
  <2>3. doc[u] \in Docs /\ doc'[u] = doc[u]
    BY <1>1, <1>3 DEF TypeOK, SessionsOK, Holding, Idles
  <2>4. /\ draft'[doc[u]] = draft[doc[u]] /\ live'[doc[u]] = live[doc[u]] /\ teamDept' = teamDept
        /\ admittedAs'[u] = admittedAs[u]
    BY <1>1, <2>2, <2>3 DEF Untouched, ActsAlone, org, Idles
  <2> QED BY <2>2, <2>3, <2>4 DEF HoldsClass, Exists, InScope
<1>4. LockHolds(u)'
  BY <1>1, <1>3, BystanderLock DEF ActsAlone
<1> QED BY <1>2, <1>4 DEF Kept

\* A delete still finds what it found, and nothing that was never drawn.
LEMMA FoundStays ==
  ASSUME Maintained, LinksStay, UNCHANGED refs, \A d \in Docs : DocStep(d), NEW x \in Targets
  PROVE  LinksFound(x)'
<1>1. LinksFound(x)
  BY DEF Maintained
<1>2. refs'[x] = refs[x] /\ \A d \in Docs : lockedBy'[d] = x <=> lockedBy[d] = x
  BY DEF LinksStay
<1>3. \A d \in Docs : d \in refs'[x] \/ lockedBy'[d] = x => ~Fresh(d)'
  BY <1>1, <1>2 DEF LinksFound, DocStep
<1>4. \A d \in Docs : lockedBy'[d] = x => refs'[x] # NoDelete
  BY <1>1, <1>2 DEF LinksFound
<1>5. ASSUME refs[x] # NoDelete, NEW d \in LinkedTo(x)'
      PROVE  d \in refs'[x] \/ lockedBy'[d] = x
  <2>1. d \in Docs
    BY <1>5 DEF LinkedTo
  <2>2. d \in LinkedTo(x)
    BY <1>5, <2>1 DEF LinksStay
  <2> QED BY <1>1, <1>2, <1>5, <2>1, <2>2 DEF LinksFound
<1> QED BY <1>2, <1>3, <1>4, <1>5 DEF LinksFound, NoDelete

-----------------------------------------------------------------------------
(***************************************************************************)
(* The session that takes the step.                                        *)
(***************************************************************************)

\* A session that forgot its request owes nothing.
LEMMA ForgetKept ==
  ASSUME TypeOK, NEW w \in Writers, Forget(w)
  PROVE  /\ Kept(w)'
         /\ \A u \in Writers \ {w} : Idles(u) /\ classSinceLock'[u] = classSinceLock[u]
BY DEF TypeOK, SessionsOK, Forget, Kept, TokensVouch, LockHolds, Gated, Idles, InFlight, Holding

\* A form is good when its token was read and vouches for its row.
LEMMA ShowFormKept ==
  ASSUME TypeOK, NEW w \in Writers, NEW d \in Docs, NEW n, NEW row, ShowForm(w, d, n, row),
         row # NoRow => TokenRead(n, d)',
         row # NoRow /\ Exists(d)' /\ n = Revision(d)' => row = draft'[d]
  PROVE  /\ Kept(w)'
         /\ \A u \in Writers \ {w} : Idles(u) /\ classSinceLock'[u] = classSinceLock[u]
<1>1. /\ pc'[w] = "form" /\ doc'[w] = d /\ expected'[w] = n /\ loaded'[w] = row
      /\ observed'[w] = NoToken
  BY DEF ShowForm, TypeOK, SessionsOK
<1>2. \A u \in Writers \ {w} : Idles(u) /\ classSinceLock'[u] = classSinceLock[u]
  BY DEF ShowForm, TypeOK, SessionsOK, Idles
<1>3. LockHolds(w)'
  BY <1>1 DEF LockHolds, InFlight, Holding
<1>4. loaded'[w] # NoRow => TokenRead(expected[w], doc[w])'
  BY <1>1 DEF TokenRead, Exists, Fresh, Revision
<1>5. loaded'[w] # NoRow /\ Exists(doc[w])' /\ expected'[w] = Revision(doc[w])'
        => loaded'[w] = draft'[doc'[w]]
  BY <1>1 DEF Exists, Revision
<1>6. TokensVouch(w)'
  BY <1>1, <1>4, <1>5 DEF TokensVouch, Gated
<1> QED BY <1>2, <1>3, <1>6 DEF Kept

\* The step of session w takes or leaves no lock of another.
OwnLock(w, d) ==
  lockedBy'[d] = lockedBy[d] \/ {lockedBy[d], lockedBy'[d]} \subseteq {w, NoWriter}

\* What a step of session w does to locks and links is no concern of a delete.
LEMMA LinksStayed ==
  ASSUME NEW w \in Writers, \A d \in Docs : OwnLock(w, d),
         \A x \in Targets, d \in Docs :
           refs[x] # NoDelete /\ d \in LinkedTo(x)' => d \in LinkedTo(x)
  PROVE  LinksStay
<1>1. \A x \in Targets : x \notin {w, NoWriter}
  BY TargetsAssumption, NullsAssumption
<1> QED BY <1>1 DEF LinksStay, OwnLock

\* A step that changes no row, and no lock but its own session's.
LEMMA QuietStep ==
  ASSUME Maintained, TypeOK', NEW w \in Writers, UNCHANGED <<database, org>>,
         \A u \in Writers \ {w} : Idles(u) /\ classSinceLock'[u] = classSinceLock[u],
         \A d \in Docs : OwnLock(w, d)
  PROVE  ActsAlone(w) /\ RowsGoTogether'
<1>1. \A d \in Docs : DocStep(d)
  BY DEF database, DocStep, Fresh, Exists, Revision
<1>2. \A d \in Docs : ~Fresh(d) /\ lockedBy[d] \notin {w, NoWriter} => Untouched(d)
  BY DEF database, Untouched, OwnLock
<1>3. RowsGoTogether'
  BY DEF Maintained, RowsGoTogether, database, Exists, Fresh
<1>4. LinksStay
  BY LinksStayed DEF database, LinkedTo
<1> QED BY <1>1, <1>2, <1>3, <1>4 DEF ActsAlone, org

\* What a step of session w has to show.
Good(w) == ActsAlone(w) /\ RowsGoTogether' /\ Kept(w)'

\* Loading a form.
LEMMA ReadingKept ==
  ASSUME Maintained, TypeOK', NEW w \in Writers, Reading(w)
  PROVE  Good(w)
<1> USE DEF Good
<1>0. TypeOK /\ TokensVouch(w)
  BY DEF Maintained
<1>1. ASSUME NEW d \in Docs, LoadRevision(w, d)
      PROVE  Good(w)
  <2>1. /\ pc'[w] = "loading" /\ doc'[w] = d /\ expected'[w] = Revision(d)
        /\ loaded'[w] = NoRow /\ observed'[w] = NoToken
    BY <1>0, <1>1 DEF LoadRevision, TypeOK, SessionsOK, TokensVouch
  <2>2. TokenRead(expected[w], doc[w])'
    <3>1. Revision(d) \in Nat /\ Fresh(d) => Revision(d) = 0
      BY <1>0, RevisionType DEF Maintained, RowsGoTogether, Fresh, Exists, Revision
    <3> QED BY <1>0, <1>1, <2>1, <3>1, RevisionType
               DEF LoadRevision, database, TokenRead, Exists, Fresh, Revision
  <2>3. Kept(w)'
    BY <2>1, <2>2 DEF Kept, TokensVouch, LockHolds, Gated, InFlight, Holding
  <2>4. \A u \in Writers \ {w} : Idles(u) /\ classSinceLock'[u] = classSinceLock[u]
    BY <1>0, <1>1 DEF LoadRevision, TypeOK, SessionsOK, Idles
  <2> QED BY <1>1, <2>3, <2>4, QuietStep DEF OwnLock, LoadRevision
<1>2. CASE LoadRows(w)
  <2> PICK d \in Docs : d = doc[w]
    BY <1>0, <1>2 DEF LoadRows, TypeOK, SessionsOK
  <2> PICK n : n = expected[w]
    OBVIOUS
  <2>1. TokenRead(n, d)'
    BY <1>0, <1>2 DEF TokensVouch, LoadRows, TokenRead, database, Exists, Fresh, Revision
  <2>2. ShowForm(w, d, n, draft[d]) /\ draft'[d] = draft[d]
    BY <1>2 DEF LoadRows, database
  <2> PICK row : row = draft[d]
    OBVIOUS
  <2>3. Kept(w)' /\ \A u \in Writers \ {w} : Idles(u) /\ classSinceLock'[u] = classSinceLock[u]
    BY <1>0, <2>1, <2>2, ShowFormKept
  <2> QED BY <1>2, <2>3, QuietStep DEF OwnLock, LoadRows
<1>3. CASE LoadRefused(w) \/ AbandonForm(w)
  BY <1>0, <1>3, ForgetKept, QuietStep DEF OwnLock, LoadRefused, AbandonForm
<1>4. ASSUME NEW d \in Docs, NEW n \in PredictedTokens, PredictToken(w, d, n)
      PROVE  Good(w)
  <2>1. Kept(w)' /\ \A u \in Writers \ {w} : Idles(u) /\ classSinceLock'[u] = classSinceLock[u]
    <3> PICK row : row = NoRow
      OBVIOUS
    <3> QED BY <1>0, <1>4, ShowFormKept DEF PredictToken
  <2> QED BY <1>4, <2>1, QuietStep DEF OwnLock, PredictToken
<1> QED BY <1>1, <1>2, <1>3, <1>4 DEF Reading

\* Asking for a write: the gate's reading is a token like the form's.
LEMMA RequestingKept ==
  ASSUME Maintained, TypeOK', NEW w \in Writers, Requesting(w)
  PROVE  Good(w)
<1> USE DEF Good
<1>0. TypeOK /\ TokensVouch(w) /\ LockHolds(w)
  BY DEF Maintained
<1>1. ASSUME NEW a \in Actions, GateRevision(w, a)
      PROVE  Good(w)
  <2> PICK d \in Docs : d = doc[w] /\ d = doc'[w]
    BY <1>0, <1>1 DEF GateRevision, TypeOK, SessionsOK
  <2>1. /\ pc[w] = "form" /\ pc'[w] = "gating" /\ observed'[w] = Revision(d) /\ a # "delete"
        /\ loaded'[w] = loaded[w] /\ expected'[w] = expected[w] /\ action'[w] = a
        /\ UNCHANGED database
    BY <1>0, <1>1 DEF GateRevision, TypeOK, SessionsOK
  <2>2. Revision(d) \in Nat /\ (Fresh(d) => Revision(d) = 0)
    BY <1>0, RevisionType DEF Maintained, RowsGoTogether, Fresh, Exists, Revision
  <2>3. TokenRead(observed[w], doc[w])'
    BY <2>1, <2>2 DEF database, TokenRead, Exists, Fresh, Revision
  <2>4. TokensVouch(w)'
    BY <1>0, <2>1, <2>3 DEF TokensVouch, TokenRead, database, Exists, Fresh, Revision, InFlight
  <2>5. LockHolds(w)'
    BY <2>1 DEF LockHolds, InFlight, Holding
  <2>6. \A u \in Writers \ {w} : Idles(u) /\ classSinceLock'[u] = classSinceLock[u]
    BY <1>0, <1>1 DEF GateRevision, TypeOK, SessionsOK, Idles
  <2> QED BY <1>1, <2>4, <2>5, <2>6, QuietStep DEF OwnLock, GateRevision, Kept
<1>2. CASE GateAdmits(w)
  <2>1. /\ pc[w] = "gating" /\ pc'[w] = "waiting" /\ seen'[w] = <<draft[doc[w]], live[doc[w]]>>
        /\ Exists(doc[w]) /\ UNCHANGED <<database, doc, action, expected, loaded, admittedAs, observed>>
    BY <1>0, <1>2 DEF GateAdmits, HoldsClass, TypeOK, SessionsOK
  <2>2. TokensVouch(w)'
    BY <1>0, <2>1 DEF TokensVouch, Gated, TokenRead, database, Exists, Fresh, Revision
  <2>3. LockHolds(w)'
    BY <1>0, <2>1 DEF LockHolds, database, Exists, Fresh, InFlight, Holding
  <2>4. \A u \in Writers \ {w} : Idles(u) /\ classSinceLock'[u] = classSinceLock[u]
    BY <1>0, <1>2 DEF GateAdmits, TypeOK, SessionsOK, Idles
  <2> QED BY <1>2, <2>2, <2>3, <2>4, QuietStep DEF OwnLock, GateAdmits, Kept
<1>3. CASE GateRefuses(w)
  BY <1>0, <1>3, ForgetKept, QuietStep DEF OwnLock, GateRefuses
<1>4. CASE RequestDelete(w)
  <2>1. /\ pc[w] = "form" /\ pc'[w] = "waiting" /\ action'[w] = "delete" /\ admittedAs'[w] = Moderator
        /\ Exists(doc[w]) /\ UNCHANGED <<database, doc, expected, loaded, observed, seen>>
    BY <1>0, <1>4 DEF RequestDelete, TypeOK, SessionsOK
  <2>2. TokensVouch(w)'
    BY <1>0, <2>1 DEF TokensVouch, Gated, TokenRead, database, Exists, Fresh, Revision
  <2>3. LockHolds(w)'
    BY <2>1, CallersAssumption DEF LockHolds, database, Exists, Fresh, InFlight, Holding
  <2>4. \A u \in Writers \ {w} : Idles(u) /\ classSinceLock'[u] = classSinceLock[u]
    BY <1>0, <1>4 DEF RequestDelete, TypeOK, SessionsOK, Idles
  <2> QED BY <1>4, <2>2, <2>3, <2>4, QuietStep DEF OwnLock, RequestDelete, Kept
<1>5. ASSUME NEW d \in Docs, NEW a \in Actions, RequestUnscoped(w, d, a)
      PROVE  Good(w)
  <2>1. /\ pc[w] = "idle" /\ pc'[w] = "waiting" /\ doc'[w] = d /\ admittedAs'[w] = Panel
        /\ Exists(d) /\ UNCHANGED <<database, loaded, observed>>
    BY <1>0, <1>5 DEF RequestUnscoped, TypeOK, SessionsOK
  <2>2. TokensVouch(w)'
    BY <1>0, <2>1 DEF TokensVouch, Gated
  <2>3. LockHolds(w)'
    BY <2>1, CallersAssumption DEF LockHolds, database, Exists, Fresh, InFlight, Holding
  <2>4. \A u \in Writers \ {w} : Idles(u) /\ classSinceLock'[u] = classSinceLock[u]
    BY <1>0, <1>5 DEF RequestUnscoped, TypeOK, SessionsOK, Idles
  <2> QED BY <1>5, <2>2, <2>3, <2>4, QuietStep DEF OwnLock, RequestUnscoped, Kept
<1> QED BY <1>1, <1>2, <1>3, <1>4, <1>5 DEF Requesting

\* A move within the request leaves its tokens as they were.
LEMMA MoveTokens ==
  ASSUME Maintained, NEW w \in Writers, NEW place \in InFlight \cup {"stale"},
         pc[w] \in InFlight, Move(w, place), UNCHANGED database
  PROVE  /\ TokensVouch(w)' /\ pc'[w] = place
         /\ \A u \in Writers \ {w} : Idles(u) /\ classSinceLock'[u] = classSinceLock[u]
<1>1. TypeOK /\ TokensVouch(w)
  BY DEF Maintained
<1>2. pc'[w] = place
  BY <1>1 DEF Move, TypeOK, SessionsOK
<1>3. \A u \in Writers \ {w} : Idles(u) /\ classSinceLock'[u] = classSinceLock[u]
  BY <1>1 DEF Move, TypeOK, SessionsOK, Idles
<1>4. TokensVouch(w)'
  BY <1>1, <1>2 DEF Move, TokensVouch, Gated, TokenRead, database, Exists, Fresh, Revision, InFlight
<1> QED BY <1>2, <1>3, <1>4

\* Taking the lock, comparing under it and leaving it.
LEMMA JudgingKept ==
  ASSUME Maintained, TypeOK', NEW w \in Writers, Judging(w)
  PROVE  Good(w)
<1> USE DEF Good
<1>0. TypeOK /\ TokensVouch(w) /\ LockHolds(w)
  BY DEF Maintained
<1>1. CASE Lock(w)
  <2> PICK d \in Docs : d = doc[w] /\ d = doc'[w]
    BY <1>0, <1>1 DEF Lock, TypeOK, SessionsOK
  <2>1. /\ pc[w] = "waiting" /\ pc'[w] = "locked" /\ lockedBy'[d] = w /\ locked'[w] = Revision(d)
        /\ classSinceLock'[w] = HoldsClass(admittedAs[w], doc[w])
        /\ UNCHANGED <<database, org, doc, action, expected, loaded, admittedAs, observed, seen>>
    BY <1>0, <1>1 DEF Lock, TypeOK, TablesOK, SessionsOK
  <2>2. TokensVouch(w)'
    BY <1>0, <2>1 DEF TokensVouch, Gated, TokenRead, database, Exists, Fresh, Revision, InFlight
  <2>3. LockHolds(w)'
    BY <1>0, <2>1 DEF LockHolds, database, org, Exists, Fresh, Revision, HoldsClass, InScope,
                      InFlight, Holding
  <2>4. \A u \in Writers \ {w} : Idles(u) /\ classSinceLock'[u] = classSinceLock[u]
    BY <1>0, <1>1 DEF Lock, TypeOK, SessionsOK, Idles
  <2>5. \A e \in Docs : OwnLock(w, e)
    BY <1>0, <1>1 DEF OwnLock, Lock, TypeOK, TablesOK
  <2> QED BY <1>1, <2>2, <2>3, <2>4, <2>5, QuietStep DEF Lock, Kept
<1>2. CASE PrecheckDiscard(w) \/ Accept(w)
  <2>1. /\ pc[w] \in {"locked", "checked"} /\ ClassKept(w) /\ TokensMatch(w)
        /\ UNCHANGED <<database, lockedBy, org>>
    BY <1>2 DEF PrecheckDiscard, Accept, Comparing
  <2> PICK place \in {"checked", "accepted"} : Move(w, place)
    BY <1>2 DEF PrecheckDiscard, Accept
  <2>2. /\ TokensVouch(w)' /\ pc'[w] = place
        /\ \A u \in Writers \ {w} : Idles(u) /\ classSinceLock'[u] = classSinceLock[u]
    BY <2>1, MoveTokens DEF InFlight
  <2>3. place = "checked" => live[doc[w]] # NoRow
    BY <1>0, <1>2, <2>2 DEF PrecheckDiscard, Accept, Move, TypeOK, SessionsOK
  <2>4. place = "accepted" /\ action[w] = "discard" /\ admittedAs[w] \in Departments
          => live[doc[w]] # NoRow
    BY <1>0, <1>2, <2>2 DEF PrecheckDiscard, Accept, Comparing, NeedsPrecheck, Move, LockHolds,
                             TypeOK, SessionsOK
  <2>5. Gated(w) => Exists(doc[w]) /\ classSinceLock[w]
    BY <1>0, <2>1 DEF ClassKept, HoldsClass, LockHolds, Holding
  <2>6. LockHolds(w)'
    BY <1>0, <2>1, <2>2, <2>3, <2>4, <2>5
       DEF LockHolds, Move, database, org, Exists, Fresh, Revision, HoldsClass, InScope,
           Gated, TokensMatch, InFlight, Holding
  <2> QED BY <2>1, <2>2, <2>6, QuietStep DEF OwnLock, Kept
<1>3. CASE RevisionStale(w)
  <2>1. /\ TokensVouch(w)' /\ pc'[w] = "stale"
        /\ \A u \in Writers \ {w} : Idles(u) /\ classSinceLock'[u] = classSinceLock[u]
    BY <1>3, MoveTokens DEF RevisionStale, InFlight
  <2>2. LockHolds(w)'
    BY <2>1 DEF LockHolds, InFlight, Holding
  <2>3. \A e \in Docs : OwnLock(w, e)
    BY <1>0, <1>3 DEF OwnLock, RevisionStale, Release, LockHolds, Holding, TypeOK, TablesOK
  <2> QED BY <1>3, <2>1, <2>2, <2>3, QuietStep DEF RevisionStale, Kept
<1>4. CASE NeverPublished(w) \/ ClassLost(w) \/ Rollback(w)
  <2>1. Kept(w)' /\ \A u \in Writers \ {w} : Idles(u) /\ classSinceLock'[u] = classSinceLock[u]
    BY <1>0, <1>4, ForgetKept DEF NeverPublished, ClassLost, Rollback
  <2>2. (pc[w] \in Holding /\ Release(w)) \/ UNCHANGED lockedBy
    BY <1>4 DEF NeverPublished, ClassLost, Rollback, Holding
  <2>3. \A e \in Docs : OwnLock(w, e)
    BY <1>0, <2>2 DEF OwnLock, Release, LockHolds, TypeOK, TablesOK
  <2> QED BY <1>4, <2>1, <2>3, QuietStep DEF NeverPublished, ClassLost, Rollback
<1> QED BY <1>1, <1>2, <1>3, <1>4 DEF Judging

\* What a commit leaves of a document that exists: a draft, or nothing; and
\* a department author's leaves a draft.
LEMMA Outcome ==
  ASSUME Maintained, NEW w \in Writers, pc[w] = "accepted", Exists(doc[w]), NEW row \in Payloads(w),
         NEW after, after = AfterAction(action[w], doc[w], row)
  PROVE  /\ after[1] \in Row \cup {NoRow} /\ after[2] \in Row \cup {NoRow}
         /\ after[1] = NoRow => after = <<NoRow, NoRow>>
         /\ admittedAs[w] \in Departments => after[1] # NoRow
<1>0. TypeOK /\ RowsGoTogether /\ LockHolds(w)
  BY DEF Maintained
<1>1. /\ draft[doc[w]] \in Row /\ live[doc[w]] \in Row \cup {NoRow} /\ action[w] \in Actions
      /\ NoRow \notin Row
  BY <1>0, NullsAssumption DEF TypeOK, TablesOK, SessionsOK, Exists
<1>2. row \in Row
  BY <1>1 DEF Payloads, Linkable
<1>3. admittedAs[w] \in Departments =>
        action[w] # "delete" /\ (action[w] = "discard" => live[doc[w]] # NoRow)
  BY <1>0 DEF LockHolds, InFlight
<1> QED BY <1>1, <1>2, <1>3 DEF AfterAction, Actions

\* A commit: the lock is its own, the revision moves up with the rows or
\* goes with the last of them.
LEMMA CommitKept ==
  ASSUME Maintained, TypeOK', NEW w \in Writers, NEW row \in Payloads(w), Commit(w, row)
  PROVE  Good(w)
<1>0. /\ TypeOK /\ RowsGoTogether /\ LockHolds(w)
      /\ pc[w] = "accepted" /\ Exists(doc[w])
  BY DEF Maintained, Commit
<1> PICK d \in Docs : d = doc[w]
  BY <1>0 DEF TypeOK, SessionsOK
<1> PICK after : after = AfterAction(action[w], doc[w], row)
  OBVIOUS
<1> PICK n \in Nat : n = Revision(d)
  BY <1>0, RevisionType
<1>1. /\ after[1] \in Row \cup {NoRow} /\ after[2] \in Row \cup {NoRow}
      /\ after[1] = NoRow => after = <<NoRow, NoRow>>
  BY <1>0, Outcome
<1>2. lockedBy[d] = w
  BY <1>0 DEF LockHolds, Holding
<1>3. /\ draft' = [draft EXCEPT ![d] = after[1]] /\ live' = [live EXCEPT ![d] = after[2]]
      /\ version' = [version EXCEPT ![d] = IF after = <<NoRow, NoRow>> THEN NoRow ELSE n + 1]
      /\ audit' = [audit EXCEPT ![d] = Append(audit[d], locked[w] + 1)]
      /\ lockedBy' = [lockedBy EXCEPT ![d] = NoWriter]
      /\ UNCHANGED org
  BY DEF Commit, Record, AdvanceOrRemove, Release
<1>4. /\ draft'[d] = after[1] /\ live'[d] = after[2]
      /\ version'[d] = (IF after = <<NoRow, NoRow>> THEN NoRow ELSE n + 1)
      /\ audit'[d] # <<>>
  <2>1. audit[d] \in Seq(Nat) /\ locked[w] \in Nat
    BY <1>0 DEF TypeOK, TablesOK, SessionsOK
  <2>2. Append(audit[d], locked[w] + 1) # <<>>
    BY <2>1
  <2> QED BY <1>0, <1>3, <2>2 DEF TypeOK, TablesOK
<1>5. ~Fresh(d)' /\ (Exists(d)' => Revision(d)' = n + 1)
  BY <1>1, <1>4, NullsAssumption DEF Fresh, Exists, Revision
<1>6. \A e \in Docs \ {d} : Untouched(e) /\ audit'[e] = audit[e]
  BY <1>0, <1>3 DEF TypeOK, TablesOK, Untouched
<1>7. \A e \in Docs : DocStep(e)
  <2>1. DocStep(d)
    BY <1>0, <1>5 DEF DocStep
  <2> QED BY <1>6, <2>1 DEF DocStep, Untouched, Fresh, Exists, Revision
<1>8. RowsGoTogether'
  BY <1>0, <1>1, <1>4, <1>5, <1>6, NullsAssumption DEF RowsGoTogether, Untouched, Exists, Fresh
<1>9. Kept(w)' /\ \A u \in Writers \ {w} : Idles(u) /\ classSinceLock'[u] = classSinceLock[u]
  <2>1. CASE Forget(w)
    BY <1>0, <2>1, ForgetKept
  <2>2. CASE ShowForm(w, d, n + 1, after[1])
    <3>1. after[1] # NoRow => TokenRead(n + 1, d)'
      BY <1>5 DEF TokenRead
    <3> PICK m, shown : m = n + 1 /\ shown = after[1]
      OBVIOUS
    <3> QED BY <1>0, <1>4, <2>2, <3>1, ShowFormKept
  <2> QED BY <2>1, <2>2 DEF Commit
<1>10. \A e \in Docs : ~Fresh(e) /\ lockedBy[e] \notin {w, NoWriter} => Untouched(e)
  BY <1>2, <1>6
<1>11. \A e \in Docs : OwnLock(w, e)
  BY <1>0, <1>2, <1>3 DEF OwnLock, TypeOK, TablesOK
<1>12. ASSUME NEW x \in Targets, refs[x] # NoDelete, NEW e \in Docs, e \in LinkedTo(x)'
       PROVE  e \in LinkedTo(x)
  <2>1. CASE e = d
    <3>1. x \notin NewLinks(w, row)
      BY <1>12 DEF Commit, Free
    <3>2. x \in LinksOf(after[1]) \cup LinksOf(after[2])
      BY <1>4, <1>12, <2>1 DEF LinkedTo
    <3>3. x \in LinksOf(draft[d]) \cup LinksOf(live[d])
      BY <1>0, <3>1, <3>2 DEF NewLinks, AfterAction, LinksOf, TypeOK, SessionsOK, Actions
    <3> QED BY <2>1, <3>3 DEF LinkedTo
  <2>2. CASE e # d
    BY <1>6, <1>12, <2>2 DEF LinkedTo, Untouched
  <2> QED BY <2>1, <2>2
<1>13. LinksStay
  BY <1>11, <1>12, LinksStayed
<1> QED BY <1>3, <1>7, <1>8, <1>9, <1>10, <1>13 DEF Good, ActsAlone

\* A write that found its document gone leaves the document gone.
LEMMA CommitOnGoneKept ==
  ASSUME Maintained, TypeOK', NEW w \in Writers, CommitOnGone(w)
  PROVE  Good(w)
<1>0. /\ TypeOK /\ RowsGoTogether /\ LockHolds(w)
      /\ pc[w] = "accepted" /\ ~Exists(doc[w])
  BY DEF Maintained, CommitOnGone
<1> PICK d \in Docs : d = doc[w]
  BY <1>0 DEF TypeOK, SessionsOK
<1>1. lockedBy[d] = w /\ ~Fresh(d)
  BY <1>0 DEF LockHolds, Holding, InFlight
<1>2. /\ UNCHANGED <<draft, live, org>> /\ version' = [version EXCEPT ![d] = NoRow]
      /\ lockedBy' = [lockedBy EXCEPT ![d] = NoWriter]
  BY DEF CommitOnGone, AdvanceOrRemove, Release
<1>3. \A e \in Docs \ {d} : Untouched(e) /\ audit'[e] = audit[e]
  <2>1. CASE UNCHANGED audit
    BY <1>0, <1>2, <2>1 DEF TypeOK, TablesOK, Untouched
  <2>2. CASE Record(d, locked[w] + 1)
    BY <1>0, <1>2, <2>2 DEF TypeOK, TablesOK, Untouched, Record
  <2> QED BY <2>1, <2>2 DEF CommitOnGone
<1>4. ~Fresh(d)'
  <2>1. audit'[d] # <<>>
    <3>1. live[d] = NoRow /\ audit[d] # <<>>
      BY <1>0, <1>1 DEF RowsGoTogether, Fresh, Exists
    <3>2. CASE UNCHANGED audit
      BY <3>1, <3>2
    <3>3. CASE Record(d, locked[w] + 1)
      <4>1. audit[d] \in Seq(Nat) /\ locked[w] \in Nat
        BY <1>0 DEF TypeOK, TablesOK, SessionsOK
      <4>2. audit'[d] = Append(audit[d], locked[w] + 1)
        BY <1>0, <3>3 DEF Record, TypeOK, TablesOK
      <4> QED BY <4>1, <4>2
    <3> QED BY <3>2, <3>3 DEF CommitOnGone
  <2> QED BY <2>1 DEF Fresh
<1>5. \A e \in Docs : DocStep(e)
  <2>1. DocStep(d)
    BY <1>0, <1>2, <1>4 DEF DocStep, Exists
  <2> QED BY <1>3, <2>1 DEF DocStep, Untouched, Fresh, Exists, Revision
<1>6. RowsGoTogether'
  BY <1>0, <1>2, <1>3, <1>4 DEF RowsGoTogether, Untouched, Exists, Fresh, TypeOK, TablesOK
<1>7. Kept(w)' /\ \A u \in Writers \ {w} : Idles(u) /\ classSinceLock'[u] = classSinceLock[u]
  BY <1>0, ForgetKept DEF CommitOnGone
<1>8. LinksStay
  <2>1. \A e \in Docs : OwnLock(w, e)
    BY <1>0, <1>1, <1>2 DEF OwnLock, TypeOK, TablesOK
  <2> QED BY <1>2, <2>1, LinksStayed DEF LinkedTo
<1> QED BY <1>1, <1>2, <1>3, <1>5, <1>6, <1>7, <1>8 DEF Good, ActsAlone

\* A document that was never drawn before gets its rows and revision 1.
LEMMA InsertStep ==
  ASSUME Maintained, TypeOK', NEW d \in Docs, Fresh(d), NEW row \in Row, NEW twin \in Row \cup {NoRow},
         Insert(d, row, twin), UNCHANGED <<lockedBy, org>>
  PROVE  /\ \A e \in Docs : DocStep(e) /\ (~Fresh(e) => Untouched(e))
         /\ \A e \in Docs \ {d} : draft'[e] = draft[e] /\ live'[e] = live[e]
         /\ RowsGoTogether'
         /\ Exists(d)' /\ ~Fresh(d)' /\ Revision(d)' = 1 /\ draft'[d] = row
<1>0. TypeOK /\ RowsGoTogether
  BY DEF Maintained
<1>1. /\ draft' = [draft EXCEPT ![d] = row] /\ live' = [live EXCEPT ![d] = twin]
      /\ version' = [version EXCEPT ![d] = 1] /\ audit' = [audit EXCEPT ![d] = Append(@, 1)]
  BY DEF Insert, Record
<1>2. draft'[d] = row /\ live'[d] = twin /\ version'[d] = 1 /\ row # NoRow /\ NoRow # 1
  BY <1>0, <1>1, NullsAssumption DEF TypeOK, TablesOK
<1>3. Exists(d)' /\ ~Fresh(d)' /\ Revision(d)' = 1
  BY <1>2 DEF Exists, Fresh, Revision
<1>4. \A e \in Docs \ {d} : Untouched(e) /\ audit'[e] = audit[e]
  BY <1>0, <1>1 DEF TypeOK, TablesOK, Untouched
<1>5. DocStep(d)
  BY <1>3 DEF DocStep, Fresh, Exists
<1>6. \A e \in Docs : DocStep(e) /\ (~Fresh(e) => Untouched(e))
  BY <1>4, <1>5 DEF DocStep, Untouched, Fresh, Exists, Revision
<1>7. RowsGoTogether'
  BY <1>0, <1>2, <1>3, <1>4 DEF RowsGoTogether, Untouched, Exists, Fresh
<1> QED BY <1>2, <1>3, <1>4, <1>6, <1>7 DEF Untouched

\* Creating: the links of the new rows go to nothing that is being deleted.
LEMMA CreatingKept ==
  ASSUME Maintained, TypeOK', NEW w \in Writers, NEW d \in Docs, NEW row \in Row,
         NEW publishToo \in BOOLEAN, Create(w, d, row, publishToo)
  PROVE  Good(w)
<1>0. TypeOK /\ TokensVouch(w)
  BY DEF Maintained
<1> PICK twin \in {row, NoRow} : twin = IF publishToo THEN row ELSE NoRow
  OBVIOUS
<1>1. /\ pc[w] = "idle" /\ Fresh(d) /\ Insert(d, row, twin) /\ UNCHANGED <<lockedBy, org>>
      /\ UNCHANGED session \/ ShowForm(w, d, 1, row)
  BY DEF Create
<1>2. /\ \A e \in Docs : DocStep(e) /\ (~Fresh(e) => Untouched(e))
      /\ \A e \in Docs \ {d} : draft'[e] = draft[e] /\ live'[e] = live[e]
      /\ RowsGoTogether'
      /\ Exists(d)' /\ ~Fresh(d)' /\ Revision(d)' = 1 /\ draft'[d] = row
  BY <1>1, InsertStep
<1>3. Kept(w)' /\ \A u \in Writers \ {w} : Idles(u) /\ classSinceLock'[u] = classSinceLock[u]
  <2>1. CASE UNCHANGED session
    BY <1>0, <1>1, <2>1 DEF session, Idles, Kept, TokensVouch, LockHolds, Gated, InFlight, Holding
  <2>2. CASE ShowForm(w, d, 1, row)
    <3>1. TokenRead(1, d)'
      BY <1>2 DEF TokenRead
    <3> QED BY <1>0, <1>2, <2>2, <3>1, ShowFormKept
  <2> QED BY <1>1, <2>1, <2>2
<1>4. ASSUME NEW x \in Targets, refs[x] # NoDelete, NEW e \in Docs, e \in LinkedTo(x)'
      PROVE  e \in LinkedTo(x)
  <2>1. CASE e = d
    <3>1. draft'[d] = row /\ live'[d] = twin
      BY <1>0, <1>1 DEF Insert, TypeOK, TablesOK
    <3>2. x \in LinksOf(row)
      BY <1>4, <2>1, <3>1 DEF LinkedTo, LinksOf
    <3> QED BY <1>4, <3>2 DEF Create, Free
  <2>2. CASE e # d
    BY <1>2, <1>4, <2>2 DEF LinkedTo
  <2> QED BY <2>1, <2>2
<1>5. LinksStay
  BY <1>1, <1>4, LinksStayed DEF OwnLock
<1> QED BY <1>1, <1>2, <1>3, <1>5 DEF Good, ActsAlone, org

\* Commits and creates.
LEMMA WritingKept ==
  ASSUME Maintained, TypeOK', NEW w \in Writers, Writing(w)
  PROVE  Good(w)
BY CommitKept, CommitOnGoneKept, CreatingKept DEF Writing

-----------------------------------------------------------------------------
(***************************************************************************)
(* Departments, teams and accounts, and locks taken in vain.               *)
(***************************************************************************)

\* What a step has to show that no session takes.
GoodForAll ==
  /\ RowsGoTogether' /\ \A d \in Docs : DocStep(d)
  /\ \A u \in Writers : Kept(u)'
  /\ \A x \in Targets : LinksFound(x)'

\* What a session has that idles, on documents that move as they may, while
\* nobody touches the one it holds.
LEMMA OnlookerKept ==
  ASSUME Maintained, TypeOK', UNCHANGED session, \A d \in Docs : DocStep(d), NEW u \in Writers,
         pc[u] \in Holding =>
           /\ Untouched(doc[u])
           /\ HoldsClass(admittedAs[u], doc[u])' => HoldsClass(admittedAs[u], doc[u])
  PROVE  Kept(u)'
<1>1. /\ TypeOK /\ TokensVouch(u) /\ LockHolds(u)
      /\ Idles(u) /\ classSinceLock'[u] = classSinceLock[u]
  BY DEF Maintained, session, Idles
<1>2. TokensVouch(u)'
  BY <1>1, BystanderTokens
<1>3. LockHolds(u)'
  BY <1>1, BystanderLock
<1> QED BY <1>2, <1>3 DEF Kept

\* A step that changes nothing but who holds what, of the rows no session
\* holds, and who is whom.
LEMMA QuietForAll ==
  ASSUME Maintained, TypeOK', UNCHANGED <<database, teamDept, session>>,
         \A u \in Writers : pc[u] \in Holding => lockedBy'[doc[u]] = lockedBy[doc[u]]
  PROVE  /\ RowsGoTogether' /\ \A d \in Docs : DocStep(d)
         /\ \A u \in Writers : Kept(u)'
<1>1. \A d \in Docs : DocStep(d)
  BY DEF database, DocStep, Fresh, Exists, Revision
<1>2. RowsGoTogether'
  BY DEF Maintained, RowsGoTogether, database, Exists, Fresh
<1>3. ASSUME NEW u \in Writers
      PROVE  Kept(u)'
  <2>1. HoldsClass(admittedAs[u], doc[u])' <=> HoldsClass(admittedAs[u], doc[u])
    BY DEF database, session, HoldsClass, Exists, InScope
  <2>2. pc[u] \in Holding => Untouched(doc[u])
    BY DEF database, Untouched
  <2> QED BY <1>1, <2>1, <2>2, OnlookerKept
<1> QED BY <1>1, <1>2, <1>3

\* What a session holds nobody else does.
LEMMA HeldByOne ==
  ASSUME Maintained, NEW u \in Writers, pc[u] \in Holding
  PROVE  doc[u] \in Docs /\ lockedBy[doc[u]] = u /\ u \notin Targets \cup {NoWriter}
<1>1. TypeOK /\ LockHolds(u)
  BY DEF Maintained
<1> QED BY <1>1, TargetsAssumption, NullsAssumption DEF TypeOK, SessionsOK, LockHolds, Holding

\* A linked document was drawn.
LEMMA LinkedWasDrawn ==
  ASSUME NEW x \in Targets, NEW d \in LinkedTo(x)
  PROVE  d \in Docs /\ ~Fresh(d)
BY DEF LinkedTo, LinksOf, Fresh

\* A delete that begins finds every document that links its target.
LEMMA BeginDeleteKept ==
  ASSUME Maintained, TypeOK', NEW x \in Targets, BeginDelete(x)
  PROVE  GoodForAll
<1>1. TypeOK /\ \A y \in Targets : LinksFound(y)
  BY DEF Maintained
<1>2. UNCHANGED <<database, lockedBy, session>> /\ refs' = [refs EXCEPT ![x] = LinkedTo(x)]
  BY DEF BeginDelete
<1>3. RowsGoTogether' /\ (\A d \in Docs : DocStep(d)) /\ \A u \in Writers : Kept(u)'
  BY <1>2, QuietForAll DEF BeginDelete
<1>4. ASSUME NEW y \in Targets
      PROVE  LinksFound(y)'
  <2>1. LinkedTo(y)' = LinkedTo(y) /\ \A d \in Docs : Fresh(d)' <=> Fresh(d)
    BY <1>2 DEF database, LinkedTo, Fresh
  <2>2. CASE y = x
    <3>1. refs'[x] = LinkedTo(x) /\ LinkedTo(x) # NoDelete
      BY <1>1, <1>2, NullsAssumption DEF TypeOK, TablesOK, LinkedTo, NoDelete
    <3>2. \A d \in LinkedTo(x) : ~Fresh(d)
      BY LinkedWasDrawn
    <3> QED BY <1>1, <1>2, <2>1, <2>2, <3>1, <3>2 DEF LinksFound
  <2>3. CASE y # x
    <3>1. refs'[y] = refs[y]
      BY <1>1, <1>2, <2>3 DEF TypeOK, TablesOK
    <3> QED BY <1>1, <1>2, <2>1, <3>1 DEF LinksFound, NoDelete
  <2> QED BY <2>2, <2>3
<1> QED BY <1>3, <1>4 DEF GoodForAll

\* The next version row of a delete was nobody's.
LEMMA AdvanceNextKept ==
  ASSUME Maintained, TypeOK', NEW x \in Targets, NEW d \in Docs, AdvanceNext(x, d)
  PROVE  GoodForAll
<1>1. TypeOK /\ \A y \in Targets : LinksFound(y) /\ y # NoWriter
  BY NullsAssumption DEF Maintained
<1>2. /\ UNCHANGED <<database, teamDept, session>> /\ lockedBy[d] = NoWriter
      /\ refs[x] # NoDelete /\ d \in refs[x]
      /\ refs' = [refs EXCEPT ![x] = refs[x] \ {d}] /\ lockedBy' = [lockedBy EXCEPT ![d] = x]
  BY DEF AdvanceNext
<1>3. \A u \in Writers : pc[u] \in Holding => lockedBy'[doc[u]] = lockedBy[doc[u]]
  BY <1>1, <1>2, HeldByOne DEF TypeOK, TablesOK
<1>4. RowsGoTogether' /\ (\A e \in Docs : DocStep(e)) /\ \A u \in Writers : Kept(u)'
  BY <1>2, <1>3, QuietForAll
<1>5. ASSUME NEW y \in Targets
      PROVE  LinksFound(y)'
  <2>1. LinkedTo(y)' = LinkedTo(y) /\ LinkedTo(y) \subseteq Docs /\ \A e \in Docs : Fresh(e)' <=> Fresh(e)
    BY <1>2 DEF database, LinkedTo, Fresh
  <2>2. \A e \in Docs : lockedBy'[e] = IF e = d THEN x ELSE lockedBy[e]
    BY <1>1, <1>2 DEF TypeOK, TablesOK
  <2>3. CASE y = x
    <3>1. refs[x] \in SUBSET Docs
      BY <1>1, <1>2 DEF TypeOK, TablesOK
    <3>2. refs'[x] = refs[x] \ {d} /\ refs'[x] # NoDelete
      BY <1>1, <1>2, <3>1, NullsAssumption DEF TypeOK, TablesOK, NoDelete
    <3> QED BY <1>1, <1>2, <2>1, <2>2, <2>3, <3>2 DEF LinksFound
  <2>4. CASE y # x
    <3>1. refs'[y] = refs[y]
      BY <1>1, <1>2, <2>4 DEF TypeOK, TablesOK
    <3> QED BY <1>1, <1>2, <2>1, <2>2, <2>4, <3>1 DEF LinksFound, NoDelete
  <2> QED BY <2>3, <2>4
<1> QED BY <1>4, <1>5 DEF GoodForAll

\* A delete that ends, done or undone, holds nothing any more.
LEMMA EndDeleteFound ==
  ASSUME Maintained, NEW x \in Targets, EndDelete(x), \A d \in Docs : DocStep(d),
         \A y \in Targets : LinkedTo(y)' \subseteq LinkedTo(y)
  PROVE  \A y \in Targets : LinksFound(y)'
<1>1. TypeOK /\ \A y \in Targets : LinksFound(y) /\ y # NoWriter
  BY NullsAssumption DEF Maintained
<1>2. /\ \A d \in Docs : lockedBy'[d] = IF lockedBy[d] = x THEN NoWriter ELSE lockedBy[d]
      /\ refs'[x] = NoDelete /\ \A y \in Targets \ {x} : refs'[y] = refs[y]
  BY <1>1 DEF EndDelete, TypeOK, TablesOK
<1>3. \A d \in Docs : Fresh(d)' => Fresh(d)
  BY DEF DocStep
<1>4. ASSUME NEW y \in Targets
      PROVE  LinksFound(y)'
  <2>1. CASE y = x
    <3>1. \A d \in Docs : lockedBy'[d] # y /\ d \notin refs'[y]
      BY <1>1, <1>2, <2>1, NullsAssumption DEF NoDelete
    <3> QED BY <1>2, <2>1, <3>1 DEF LinksFound, NoDelete
  <2>2. CASE y # x
    <3>1. refs'[y] = refs[y] /\ \A d \in Docs : lockedBy'[d] = y <=> lockedBy[d] = y
      BY <1>1, <1>2, <2>2
    <3>2. LinkedTo(y)' \subseteq LinkedTo(y) /\ LinkedTo(y) \subseteq Docs
      BY DEF LinkedTo
    <3> QED BY <1>1, <1>3, <3>1, <3>2 DEF LinksFound, NoDelete
  <2> QED BY <2>1, <2>2
<1> QED BY <1>4

\* A delete that fails leaves everything as it was.
LEMMA FailDeleteKept ==
  ASSUME Maintained, TypeOK', NEW x \in Targets, FailDelete(x)
  PROVE  GoodForAll
<1>1. UNCHANGED <<database, teamDept, session>> /\ EndDelete(x)
  BY DEF FailDelete, EndDelete
<1>2. \A u \in Writers : pc[u] \in Holding => lockedBy'[doc[u]] = lockedBy[doc[u]]
  BY <1>1, HeldByOne DEF EndDelete
<1>3. RowsGoTogether' /\ (\A e \in Docs : DocStep(e)) /\ \A u \in Writers : Kept(u)'
  BY <1>1, <1>2, QuietForAll
<1>4. \A y \in Targets : LinkedTo(y)' \subseteq LinkedTo(y)
  BY <1>1 DEF database, LinkedTo
<1> QED BY <1>1, <1>3, <1>4, EndDeleteFound DEF GoodForAll

\* A cascade that holds every document it changes, and gives nobody a class,
\* is a step like any other to the sessions.
LEMMA CascadeKept ==
  ASSUME Maintained, TypeOK', NEW x \in Targets, AdvanceLocked(x),
         \A d \in Docs : draft'[d] = NoRow <=> draft[d] = NoRow,
         \A d \in Docs : live'[d] = NoRow <=> live[d] = NoRow,
         \A d \in Docs \ LinkedTo(x) : draft'[d] = draft[d] /\ live'[d] = live[d],
         \A y \in Targets : LinkedTo(y)' \subseteq LinkedTo(y),
         \A u \in Writers : pc[u] \in Holding /\ doc[u] \notin LinkedTo(x)
           => (HoldsClass(admittedAs[u], doc[u])' => HoldsClass(admittedAs[u], doc[u]))
  PROVE  GoodForAll
<1>0. TypeOK /\ RowsGoTogether /\ LinksFound(x)
  BY DEF Maintained
<1>1. /\ UNCHANGED <<audit, session>> /\ EndDelete(x) /\ refs[x] = {}
      /\ \A d \in Docs : version'[d] = IF lockedBy[d] = x THEN Revision(d) + 1 ELSE version[d]
  BY DEF AdvanceLocked, EndDelete
<1>2. \A d \in LinkedTo(x) : lockedBy[d] = x
  BY <1>0, <1>1 DEF LinksFound, NoDelete
<1>3. \A d \in Docs : Revision(d) \in Nat
  BY <1>0, RevisionType
<1>4. \A d \in Docs : lockedBy[d] = x => Revision(d)' = Revision(d) + 1 /\ ~Fresh(d)
  BY <1>0, <1>1, <1>3, NullsAssumption DEF Revision, LinksFound
<1>5. \A d \in Docs : lockedBy[d] # x =>
        /\ version'[d] = version[d] /\ draft'[d] = draft[d] /\ live'[d] = live[d]
        /\ Revision(d)' = Revision(d) /\ lockedBy'[d] = lockedBy[d]
  BY <1>1, <1>2 DEF Revision, EndDelete
<1>6. \A d \in Docs : (Exists(d)' <=> Exists(d)) /\ (Fresh(d)' <=> Fresh(d))
  BY <1>1 DEF Exists, Fresh
<1>7. \A d \in Docs : DocStep(d)
  BY <1>3, <1>4, <1>5, <1>6 DEF DocStep
<1>8. RowsGoTogether'
  BY <1>0, <1>4, <1>5, <1>6 DEF RowsGoTogether
<1>9. ASSUME NEW u \in Writers
      PROVE  Kept(u)'
  <2>1. ASSUME pc[u] \in Holding
        PROVE  /\ Untouched(doc[u])
               /\ HoldsClass(admittedAs[u], doc[u])' => HoldsClass(admittedAs[u], doc[u])
    <3>1. doc[u] \in Docs /\ lockedBy[doc[u]] # x /\ doc[u] \notin LinkedTo(x)
      BY <1>2, <2>1, HeldByOne
    <3> QED BY <1>5, <2>1, <3>1 DEF Untouched
  <2> QED BY <1>1, <1>7, <2>1, OnlookerKept
<1>10. \A y \in Targets : LinksFound(y)'
  BY <1>1, <1>7, EndDeleteFound
<1> QED BY <1>7, <1>8, <1>9, <1>10 DEF GoodForAll

\* A class that neither the rows nor the teams they target give up or gain.
LEMMA ClassStays ==
  ASSUME Maintained, UNCHANGED session, NEW u \in Writers, NEW S \in SUBSET Row,
         draft'[doc[u]] = draft[doc[u]], live'[doc[u]] = live[doc[u]],
         {draft[doc[u]], live[doc[u]]} \ {NoRow} \subseteq S,
         \A row \in S : admittedAs[u] \in Departments /\ InScope(row, admittedAs[u])'
                          => InScope(row, admittedAs[u])
  PROVE  HoldsClass(admittedAs[u], doc[u])' => HoldsClass(admittedAs[u], doc[u])
<1> SUFFICES ASSUME HoldsClass(admittedAs[u], doc[u])'
             PROVE  HoldsClass(admittedAs[u], doc[u])
  OBVIOUS
<1>1. doc'[u] = doc[u] /\ admittedAs'[u] = admittedAs[u]
  BY DEF session
<1>2. Exists(doc[u]) /\ admittedAs[u] # Nobody
  BY <1>1 DEF HoldsClass, Exists
<1>3. ASSUME admittedAs[u] \in Departments, NEW row \in {draft[doc[u]], live[doc[u]]} \ {NoRow}
      PROVE  InScope(row, admittedAs[u])
  <2>1. row \in {draft'[doc'[u]], live'[doc'[u]]} \ {NoRow}
    BY <1>1, <1>3
  <2> PICK r \in S : r = row
    BY <1>3
  <2>2. InScope(r, admittedAs[u])'
    BY <1>1, <1>3, <2>1 DEF HoldsClass, InScope
  <2> QED BY <1>3, <2>2
<1> QED BY <1>2, <1>3 DEF HoldsClass

\* Deleting a department.
LEMMA DeleteDepartmentKept ==
  ASSUME Maintained, TypeOK', NEW dept \in Departments, DeleteDepartment(dept)
  PROVE  GoodForAll
<1>0. TypeOK
  BY DEF Maintained
<1>1. /\ dept \in Targets /\ AdvanceLocked(dept) /\ UNCHANGED session
      /\ \A d \in Docs : draft'[d] = WithoutOwner(draft[d], dept) /\ live'[d] = WithoutOwner(live[d], dept)
      /\ \A t \in Teams : teamDept'[t] = IF teamDept[t] = dept THEN NoDept ELSE teamDept[t]
  BY DEF DeleteDepartment, AdvanceLocked, EndDelete, Targets
<1>2. \A row \in Row \cup {NoRow} : WithoutOwner(row, dept) = NoRow <=> row = NoRow
  BY NullsAssumption DEF WithoutOwner, Row
<1>3. \A d \in Docs : draft[d] \in Row \cup {NoRow} /\ live[d] \in Row \cup {NoRow}
  BY <1>0 DEF TypeOK, TablesOK
<1>4. \A row \in Row \cup {NoRow} :
        /\ dept \notin LinksOf(row) => WithoutOwner(row, dept) = row
        /\ LinksOf(WithoutOwner(row, dept)) \subseteq LinksOf(row)
  BY <1>1, NullsAssumption DEF LinksOf, WithoutOwner, Row
<1>5. \A d \in Docs \ LinkedTo(dept) : draft'[d] = draft[d] /\ live'[d] = live[d]
  BY <1>1, <1>3, <1>4 DEF LinkedTo
<1>6. \A y \in Targets : LinkedTo(y)' \subseteq LinkedTo(y)
  BY <1>1, <1>3, <1>4 DEF LinkedTo
<1>7. ASSUME NEW u \in Writers, pc[u] \in Holding, doc[u] \notin LinkedTo(dept)
      PROVE  HoldsClass(admittedAs[u], doc[u])' => HoldsClass(admittedAs[u], doc[u])
  <2>1. doc[u] \in Docs
    BY <1>7, HeldByOne
  <2>2. ASSUME NEW row \in Row, admittedAs[u] \in Departments, InScope(row, admittedAs[u])'
        PROVE  InScope(row, admittedAs[u])
    <3>1. admittedAs'[u] = admittedAs[u] /\ admittedAs[u] # NoDept
      BY <1>1, <2>2, NullsAssumption DEF session, Targets
    <3> QED BY <1>1, <2>2, <3>1 DEF InScope, Row
  <2> QED BY <1>1, <1>3, <1>5, <1>7, <2>1, <2>2, ClassStays
<1> QED BY <1>1, <1>2, <1>3, <1>5, <1>6, <1>7, CascadeKept

\* Deleting a team.
LEMMA DeleteTeamKept ==
  ASSUME Maintained, TypeOK', NEW team \in Teams, DeleteTeam(team)
  PROVE  GoodForAll
<1>0. TypeOK
  BY DEF Maintained
<1>1. /\ team \in Targets /\ AdvanceLocked(team) /\ UNCHANGED session
      /\ \A d \in Docs : draft'[d] = WithoutTeam(draft[d], team) /\ live'[d] = WithoutTeam(live[d], team)
      /\ teamDept' = [teamDept EXCEPT ![team] = NoTeam]
  BY DEF DeleteTeam, AdvanceLocked, EndDelete, Targets
<1>2. \A row \in Row \cup {NoRow} : WithoutTeam(row, team) = NoRow <=> row = NoRow
  BY NullsAssumption DEF WithoutTeam, Row
<1>3. \A d \in Docs : draft[d] \in Row \cup {NoRow} /\ live[d] \in Row \cup {NoRow}
  BY <1>0 DEF TypeOK, TablesOK
<1>4. \A row \in Row \cup {NoRow} :
        /\ team \notin LinksOf(row) => WithoutTeam(row, team) = row
        /\ LinksOf(WithoutTeam(row, team)) \subseteq LinksOf(row)
  BY <1>1, NullsAssumption DEF LinksOf, WithoutTeam, Row
<1>5. \A d \in Docs \ LinkedTo(team) : draft'[d] = draft[d] /\ live'[d] = live[d]
  BY <1>1, <1>3, <1>4 DEF LinkedTo
<1>6. \A y \in Targets : LinkedTo(y)' \subseteq LinkedTo(y)
  BY <1>1, <1>3, <1>4 DEF LinkedTo
<1>7. ASSUME NEW u \in Writers, pc[u] \in Holding, doc[u] \notin LinkedTo(team)
      PROVE  HoldsClass(admittedAs[u], doc[u])' => HoldsClass(admittedAs[u], doc[u])
  <2> DEFINE S == {row \in Row : team \notin LinksOf(row)}
  <2>1. doc[u] \in Docs
    BY <1>7, HeldByOne
  <2>2. {draft[doc[u]], live[doc[u]]} \ {NoRow} \subseteq S
    BY <1>3, <1>7, <2>1 DEF LinkedTo
  <2>3. \A row \in S : row.team # team
    BY <1>1, NullsAssumption DEF LinksOf, Row
  <2>4. ASSUME NEW row \in S, admittedAs[u] \in Departments, InScope(row, admittedAs[u])'
        PROVE  InScope(row, admittedAs[u])
    <3>1. admittedAs'[u] = admittedAs[u] /\ row.team # team /\ row \in Row
      BY <1>1, <2>3 DEF session
    <3> QED BY <1>0, <1>1, <2>4, <3>1 DEF InScope, Row, TypeOK, TablesOK
  <2> HIDE DEF S
  <2>5. S \subseteq Row
    BY DEF S
  <2> QED BY <1>1, <1>5, <1>7, <2>1, <2>2, <2>4, <2>5, ClassStays
<1> QED BY <1>1, <1>2, <1>3, <1>5, <1>6, <1>7, CascadeKept

\* Moving a team: no row changes, and a class it gives is remembered.
LEMMA MoveTeamKept ==
  ASSUME Maintained, TypeOK', NEW team \in Teams, NEW dept, MoveTeam(team, dept)
  PROVE  GoodForAll
<1>1. \A d \in Docs : DocStep(d) /\ Untouched(d)
  BY DEF MoveTeam, database, DocStep, Untouched, Fresh, Exists, Revision
<1>2. RowsGoTogether'
  BY DEF Maintained, RowsGoTogether, MoveTeam, database, Exists, Fresh
<1>3. ASSUME NEW u \in Writers
      PROVE  Kept(u)'
  <2>1. TypeOK /\ TokensVouch(u) /\ LockHolds(u) /\ Idles(u)
    BY DEF Maintained, MoveTeam, Idles
  <2>2. classSinceLock'[u] =
          (classSinceLock[u] \/ (pc[u] \in Holding /\ HoldsClass(admittedAs[u], doc[u])'))
    BY DEF MoveTeam
  <2>3. (classSinceLock[u] => classSinceLock'[u])
        /\ (pc[u] \in Holding => (HoldsClass(admittedAs[u], doc[u])' => classSinceLock'[u]))
    BY <2>2
  <2>4. TokensVouch(u)'
    BY <1>1, <2>1, BystanderTokens
  <2>5. LockHolds(u)'
    BY <1>1, <2>1, <2>3, BystanderLock
  <2> QED BY <2>4, <2>5 DEF Kept
<1>4. \A x \in Targets : LinksFound(x)'
  <2>1. LinksStay /\ UNCHANGED refs
    BY DEF MoveTeam, LinksStay, database, LinkedTo
  <2> QED BY <1>1, <2>1, FoundStays
<1> QED BY <1>1, <1>2, <1>3, <1>4 DEF GoodForAll

\* A change of an account: whoever was admitted stays admitted.
LEMMA ChangeAccountKept ==
  ASSUME Maintained, TypeOK', NEW w \in Writers, NEW class, ChangeAccount(w, class)
  PROVE  GoodForAll
<1>1. UNCHANGED <<database, lockedBy, teamDept, refs, session>>
  BY DEF ChangeAccount
<1>2. RowsGoTogether' /\ (\A e \in Docs : DocStep(e)) /\ \A u \in Writers : Kept(u)'
  BY <1>1, QuietForAll
<1>3. LinksStay
  BY <1>1 DEF LinksStay, database, LinkedTo
<1> QED BY <1>1, <1>2, <1>3, FoundStays DEF GoodForAll

\* Departments, teams and accounts change as they may.
LEMMA OrgChangeKept ==
  ASSUME Maintained, TypeOK', OrgChange
  PROVE  GoodForAll
<1>1. CASE \E x \in Deletable : BeginDelete(x)
  BY <1>1, BeginDeleteKept, BoundsAssumption
<1>2. CASE \E x \in Targets : Deleting(x)
  BY <1>2, AdvanceNextKept, DeleteDepartmentKept, DeleteTeamKept DEF Deleting
<1>3. CASE \E x \in Targets : FailDelete(x)
  BY <1>3, FailDeleteKept
<1>4. CASE \E team \in Teams, dept \in Departments \cup {NoDept} : MoveTeam(team, dept)
  BY <1>4, MoveTeamKept
<1>5. CASE \E w \in Writers, class \in NewClasses : ChangeAccount(w, class)
  BY <1>5, ChangeAccountKept
<1> QED BY <1>1, <1>2, <1>3, <1>4, <1>5 DEF OrgChange

\* A lock taken in vain leaves revision 0 where none was said.
LEMMA LockInVainKept ==
  ASSUME Maintained, TypeOK', NEW d \in Docs, LockInVain(d)
  PROVE  GoodForAll
<1>1. TypeOK /\ RowsGoTogether
  BY DEF Maintained
<1>2. /\ UNCHANGED <<draft, live, audit, lockedBy, org, session>>
      /\ ~Fresh(d) /\ version[d] = NoRow /\ lockedBy[d] = NoWriter
      /\ version' = [version EXCEPT ![d] = 0]
  BY DEF LockInVain
<1>3. /\ \A e \in Docs : Revision(e)' = Revision(e)
      /\ \A e \in Docs \ {d} : Untouched(e)
  BY <1>1, <1>2, NullsAssumption DEF Revision, Untouched, TypeOK, TablesOK
<1>4. \A e \in Docs : (Exists(e)' <=> Exists(e)) /\ (Fresh(e)' <=> Fresh(e))
  BY <1>2 DEF Exists, Fresh
<1>5. \A e \in Docs : DocStep(e)
  BY <1>2, <1>3, <1>4 DEF DocStep
<1>6. RowsGoTogether'
  BY <1>1, <1>2, <1>3, <1>4 DEF RowsGoTogether, Untouched
<1>7. ASSUME NEW u \in Writers
      PROVE  Kept(u)'
  <2>1. HoldsClass(admittedAs[u], doc[u])' <=> HoldsClass(admittedAs[u], doc[u])
    BY <1>2 DEF org, session, HoldsClass, Exists, InScope
  <2>2. pc[u] \in Holding => Untouched(doc[u])
    BY <1>2, <1>3, HeldByOne
  <2> QED BY <1>2, <1>5, <2>1, <2>2, OnlookerKept
<1>8. LinksStay /\ UNCHANGED refs
  BY <1>2 DEF LinksStay, LinkedTo, org
<1> QED BY <1>5, <1>6, <1>7, <1>8, FoundStays DEF GoodForAll

-----------------------------------------------------------------------------
(***************************************************************************)
(* The invariant.                                                          *)
(***************************************************************************)

\* The invariant holds before anybody does anything.
LEMMA MaintainedInit ==
  ASSUME Init
  PROVE  Maintained
<1>1. \A w \in Writers : TokensVouch(w) /\ LockHolds(w)
  BY DEF Init, TokensVouch, LockHolds, Gated, InFlight, Holding
<1>2. RowsGoTogether
  BY DEF Init, RowsGoTogether, Exists, Fresh
<1>3. \A x \in Targets : LinksFound(x)
  BY NullsAssumption DEF Init, LinksFound, NoDelete
<1> QED BY <1>1, <1>2, <1>3, TypeInit DEF Maintained

\* Every step of a session, and every change behind its back, keeps it.
LEMMA MaintainedStep ==
  ASSUME Maintained, [Next]_vars
  PROVE  Maintained'
<1>1. TypeOK'
  BY TypeStep DEF Maintained
<1>2. CASE UNCHANGED vars
  <2>1. RowsGoTogether' /\ (\A d \in Docs : DocStep(d)) /\ \A u \in Writers : Kept(u)'
    BY <1>1, <1>2, QuietForAll DEF vars, org
  <2>2. LinksStay /\ UNCHANGED refs
    BY <1>2 DEF vars, org, LinksStay, database, LinkedTo
  <2> QED BY <1>1, <2>1, <2>2, FoundStays DEF Maintained, Kept
<1>3. ASSUME NEW w \in Writers, Reading(w) \/ Requesting(w) \/ Judging(w) \/ Writing(w)
      PROVE  Maintained'
  <2>1. Good(w)
    BY <1>1, <1>3, ReadingKept, RequestingKept, JudgingKept, WritingKept
  <2>2. \A u \in Writers \ {w} : Kept(u)'
    BY <1>1, <2>1, Bystanders DEF Good
  <2>3. \A x \in Targets : LinksFound(x)'
    BY <2>1, FoundStays DEF Good, ActsAlone, org
  <2> QED BY <1>1, <2>1, <2>2, <2>3 DEF Good, Kept, Maintained
<1>4. CASE OrgChange \/ \E d \in Docs : LockInVain(d)
  BY <1>1, <1>4, OrgChangeKept, LockInVainKept DEF GoodForAll, Kept, Maintained
<1> QED BY <1>2, <1>3, <1>4 DEF Next

\* What the revision, the lock and the gate promise each session stays true.
THEOREM Maintenance == Spec => []Maintained
BY MaintainedInit, MaintainedStep, PTL DEF Spec

\* A form whose token still matches shows the draft that still is.
THEOREM FormsVouched == Spec => []TokenVouchesForForm
<1>1. Maintained => TokenVouchesForForm
  BY DEF Maintained, TokensVouch, TokenVouchesForForm
<1> QED BY <1>1, Maintenance, PTL

-----------------------------------------------------------------------------
(***************************************************************************)
(* What a commit may do.                                                   *)
(***************************************************************************)

\* Nobody moves another session's request.
LEMMA OnlyItself ==
  ASSUME Maintained, Next, NEW w \in Writers, pc'[w] # pc[w]
  PROVE  Reading(w) \/ Requesting(w) \/ Judging(w) \/ Writing(w)
<1>1. TypeOK'
  BY TypeStep DEF Maintained
<1>2. ASSUME NEW u \in Writers \ {w}, Reading(u) \/ Requesting(u) \/ Judging(u) \/ Writing(u)
      PROVE  FALSE
  <2>1. ActsAlone(u)
    BY <1>1, <1>2, ReadingKept, RequestingKept, JudgingKept, WritingKept DEF Good
  <2> QED BY <2>1 DEF ActsAlone, Idles
<1>3. ASSUME OrgChange \/ \E d \in Docs : LockInVain(d)
      PROVE  FALSE
  BY <1>3 DEF OrgChange, BeginDelete, Deleting, AdvanceNext, DeleteDepartment, DeleteTeam,
              AdvanceLocked, EndDelete, FailDelete, MoveTeam, ChangeAccount, LockInVain, session
<1> QED BY <1>2, <1>3 DEF Next

\* A write is a commit of a document that exists or of one that is gone.
LEMMA WritesCommit ==
  ASSUME Maintained, Next, NEW w \in Writers, Writes(w)
  PROVE  (\E row \in Payloads(w) : Commit(w, row)) \/ CommitOnGone(w)
<1>1. pc[w] = "accepted" /\ pc'[w] # pc[w] /\ audit' # audit
  BY DEF Writes
<1>2. ~Reading(w)
  BY <1>1 DEF Reading, LoadRevision, LoadRows, LoadRefused, AbandonForm, PredictToken
<1>3. ~Requesting(w)
  BY <1>1 DEF Requesting, GateRevision, GateAdmits, GateRefuses, RequestDelete, RequestUnscoped
<1>4. ~Judging(w)
  BY <1>1 DEF Judging, Lock, PrecheckDiscard, NeverPublished, Accept, RevisionStale, ClassLost,
              Rollback, database
<1>5. Writing(w)
  BY <1>1, <1>2, <1>3, <1>4, OnlyItself
<1> QED BY <1>1, <1>5 DEF Writing, Create

\* The revision is told to a session only by a comparison that failed.
LEMMA StaleMeansCompared ==
  ASSUME Maintained, Next, NEW w \in Writers, pc[w] \in Holding, pc'[w] = "stale"
  PROVE  RevisionStale(w)
<1>0. TypeOK /\ pc[w] \notin {"idle", "loading", "form", "gating", "stale", "waiting"}
  BY DEF Maintained, Holding
<1>1. ~Reading(w)
  BY <1>0 DEF Reading, LoadRevision, LoadRows, LoadRefused, AbandonForm, PredictToken
<1>2. ~Requesting(w)
  BY <1>0 DEF Requesting, GateRevision, GateAdmits, GateRefuses, RequestDelete, RequestUnscoped
<1>3. ASSUME Writing(w)
      PROVE  FALSE
  <2>1. \A d, n, row : ShowForm(w, d, n, row) => pc'[w] = "form"
    BY <1>0 DEF ShowForm, TypeOK, SessionsOK
  <2>2. Forget(w) => pc'[w] = "idle"
    BY <1>0 DEF Forget, TypeOK, SessionsOK
  <2> QED BY <1>0, <1>3, <2>1, <2>2 DEF Writing, Commit, CommitOnGone, Create
<1>4. Judging(w)
  BY <1>0, <1>1, <1>2, <1>3, OnlyItself DEF Holding
<1>5. \A place : Move(w, place) => pc'[w] = place
  BY <1>0 DEF Move, TypeOK, SessionsOK
<1>6. Forget(w) => pc'[w] = "idle"
  BY <1>0 DEF Forget, TypeOK, SessionsOK
<1> QED BY <1>0, <1>4, <1>5, <1>6
       DEF Judging, Lock, PrecheckDiscard, NeverPublished, Accept, ClassLost, Rollback

\* A web author's write replaces the draft their form showed.
THEOREM UpdatesNotLost == Spec => NoLostUpdate
<1>1. ASSUME Maintained, [Next]_vars, NEW w \in Writers, Writes(w), loaded[w] # NoRow, Exists(doc[w])
      PROVE  draft[doc[w]] = loaded[w]
  <2>1. TypeOK /\ TokensVouch(w) /\ LockHolds(w) /\ pc[w] = "accepted"
    BY <1>1 DEF Maintained, Writes
  <2>2. locked[w] = Revision(doc[w]) /\ expected[w] \in {NoToken, locked[w]}
    BY <2>1 DEF LockHolds, Holding, TokensMatch
  <2>3. expected[w] \in Nat
    BY <1>1, <2>1 DEF TokensVouch, TokenRead
  <2> QED BY <1>1, <2>1, <2>2, <2>3, NullsAssumption DEF TokensVouch
<1>2. Maintained /\ [Next]_vars =>
        [\A w \in Writers : Writes(w) /\ loaded[w] # NoRow /\ Exists(doc[w])
                             => draft[doc[w]] = loaded[w]]_vars
  BY <1>1
<1> QED BY <1>2, Maintenance, PTL DEF Spec, NoLostUpdate

\* A gated write replaces the rows its gate judged.
THEOREM WritesJudgedRows == Spec => WriteMatchesGate
<1>1. ASSUME Maintained, [Next]_vars, NEW w \in Writers, Writes(w), Gated(w)
      PROVE  seen[w] = <<draft[doc[w]], live[doc[w]]>>
  <2>1. TypeOK /\ TokensVouch(w) /\ LockHolds(w) /\ pc[w] = "accepted"
    BY <1>1 DEF Maintained, Writes
  <2>2. observed[w] = Revision(doc[w]) /\ Exists(doc[w])
    BY <1>1, <2>1 DEF LockHolds, Holding, TokensMatch, Gated
  <2> QED BY <1>1, <2>1, <2>2 DEF TokensVouch, InFlight
<1>2. Maintained /\ [Next]_vars =>
        [\A w \in Writers : Writes(w) /\ Gated(w) => seen[w] = <<draft[doc[w]], live[doc[w]]>>]_vars
  BY <1>1
<1> QED BY <1>2, Maintenance, PTL DEF Spec, WriteMatchesGate

\* Without a scope the lock found, nothing is changed and nothing is told.
THEOREM LostScopeSilenced == Spec => NothingAfterLosingScope
<1>1. ASSUME Maintained, Next, NEW w \in Writers, Gated(w),
             Writes(w) \/ (pc[w] \in Holding /\ pc'[w] = "stale")
      PROVE  classSinceLock[w]
  <2>1. LockHolds(w)
    BY <1>1 DEF Maintained
  <2>2. CASE Writes(w)
    BY <1>1, <2>1, <2>2 DEF LockHolds, Writes
  <2>3. CASE pc[w] \in Holding /\ pc'[w] = "stale"
    <3>1. RevisionStale(w)
      BY <1>1, <2>3, StaleMeansCompared
    <3> QED BY <1>1, <2>1, <2>3, <3>1 DEF RevisionStale, ClassKept, LockHolds
  <2> QED BY <1>1, <2>2, <2>3
<1>2. Maintained /\ [Next]_vars =>
        [\A w \in Writers :
           Gated(w) /\ (Writes(w) \/ (pc[w] \in Holding /\ pc'[w] = "stale")) => classSinceLock[w]]_vars
  BY <1>1
<1> QED BY <1>2, Maintenance, PTL DEF Spec, NothingAfterLosingScope

\* A department author's request removes no document.
THEOREM AuthorsKeepDocuments == Spec => AuthorsNeverDelete
<1>1. ASSUME Maintained, Next, NEW w \in Writers, Writes(w), admittedAs[w] \in Departments, Exists(doc[w])
      PROVE  draft'[doc[w]] # NoRow
  <2>1. PICK row \in Payloads(w) : Commit(w, row)
    BY <1>1, WritesCommit DEF CommitOnGone
  <2> PICK after : after = AfterAction(action[w], doc[w], row)
    OBVIOUS
  <2>2. after[1] # NoRow
    BY <1>1, Outcome DEF Writes
  <2>3. doc[w] \in Docs /\ draft' = [draft EXCEPT ![doc[w]] = after[1]]
    BY <1>1, <2>1 DEF Commit, Maintained, TypeOK, SessionsOK
  <2> QED BY <1>1, <2>2, <2>3 DEF Maintained, TypeOK, TablesOK
<1>2. Maintained /\ [Next]_vars =>
        [\A w \in Writers : Writes(w) /\ admittedAs[w] \in Departments /\ Exists(doc[w])
                             => draft'[doc[w]] # NoRow]_vars
  BY <1>1
<1> QED BY <1>2, Maintenance, PTL DEF Spec, AuthorsNeverDelete

-----------------------------------------------------------------------------
(***************************************************************************)
(* The revision and its trail.                                             *)
(***************************************************************************)

\* Every step moves every document as DocStep allows.
LEMMA EveryDocSteps ==
  ASSUME Maintained, [Next]_vars, NEW d \in Docs
  PROVE  DocStep(d)
<1>1. TypeOK'
  BY TypeStep DEF Maintained
<1>2. CASE UNCHANGED vars
  BY <1>2 DEF vars, database, DocStep, Fresh, Exists, Revision
<1>3. ASSUME NEW w \in Writers, Reading(w) \/ Requesting(w) \/ Judging(w) \/ Writing(w)
      PROVE  DocStep(d)
  BY <1>1, <1>3, ReadingKept, RequestingKept, JudgingKept, WritingKept DEF Good, ActsAlone
<1>4. CASE OrgChange \/ \E e \in Docs : LockInVain(e)
  BY <1>1, <1>4, OrgChangeKept, LockInVainKept DEF GoodForAll
<1> QED BY <1>2, <1>3, <1>4 DEF Next

\* A row never changes under a revision that stays.
THEOREM ChangesAdvance == Spec => EveryChangeAdvances
<1>1. ASSUME Maintained, [Next]_vars, NEW d \in Docs, Exists(d), draft'[d] # NoRow,
             <<draft[d], live[d]>>' # <<draft[d], live[d]>>
      PROVE  version'[d] # NoRow /\ version'[d] > Revision(d)
  <2>1. DocStep(d) /\ Exists(d)'
    BY <1>1, EveryDocSteps DEF Exists
  <2>2. Revision(d)' > Revision(d) /\ Revision(d) \in Nat
    BY <1>1, <2>1, RevisionType DEF DocStep, Maintained
  <2> QED BY <2>2 DEF Revision
<1>2. Maintained /\ [Next]_vars =>
        [\A d \in Docs :
           Exists(d) /\ draft'[d] # NoRow /\ <<draft[d], live[d]>>' # <<draft[d], live[d]>>
             => version'[d] # NoRow /\ version'[d] > Revision(d)]_vars
  BY <1>1
<1> QED BY <1>2, Maintenance, PTL DEF Spec, EveryChangeAdvances

\* A surviving document's trail stays, or gets the revision it reaches.
TrailStep(d) ==
  Exists(d)' =>
    \/ Exists(d) /\ audit'[d] = audit[d]
    \/ /\ Exists(d) \/ audit[d] = <<>>
       /\ Revision(d)' > Revision(d) /\ audit'[d] = Append(audit[d], Revision(d)')

\* A document drawn anew starts its trail, the others keep theirs.
LEMMA InsertTrail ==
  ASSUME TypeOK, NEW e \in Docs, Fresh(e), NEW row, NEW twin, row # NoRow, Insert(e, row, twin),
         RowsGoTogether, NEW d \in Docs
  PROVE  TrailStep(d)
<1>1. CASE d = e
  <2>1. version'[d] = 1 /\ audit'[d] = Append(audit[d], 1) /\ audit[d] = <<>>
    BY <1>1 DEF Insert, Record, Fresh, TypeOK, TablesOK
  <2>2. Revision(d)' = 1 /\ Revision(d) = 0
    BY <1>1, <2>1, NullsAssumption DEF Revision, RowsGoTogether, Fresh, Exists
  <2> QED BY <2>1, <2>2 DEF TrailStep
<1>2. CASE d # e
  BY <1>2 DEF TrailStep, Insert, Record, Exists, TypeOK, TablesOK
<1> QED BY <1>1, <1>2

\* Every step moves every trail as TrailStep allows.
LEMMA EveryTrailSteps ==
  ASSUME Maintained, [Next]_vars, NEW d \in Docs
  PROVE  TrailStep(d)
<1>0. TypeOK /\ RowsGoTogether /\ \A w \in Writers : LockHolds(w)
  BY DEF Maintained
<1>1. UNCHANGED database => TrailStep(d)
  BY DEF database, TrailStep, Exists
<1>2. ASSUME NEW w \in Writers, Reading(w) \/ Requesting(w) \/ Judging(w)
      PROVE  UNCHANGED database
  BY <1>2 DEF Reading, LoadRevision, LoadRows, LoadRefused, AbandonForm, PredictToken,
              Requesting, GateRevision, GateAdmits, GateRefuses, RequestDelete, RequestUnscoped,
              Judging, Lock, PrecheckDiscard, NeverPublished, Accept, RevisionStale, ClassLost,
              Rollback, database
<1>3. ASSUME NEW w \in Writers, NEW row \in Payloads(w), Commit(w, row)
      PROVE  TrailStep(d)
  <2>1. CASE d = doc[w]
    <3> PICK after : after = AfterAction(action[w], d, row)
      OBVIOUS
    <3>1. Exists(d) /\ locked[w] = Revision(d)
      BY <1>0, <1>3, <2>1 DEF Commit, LockHolds, Holding
    <3>2. Exists(d)' => after # <<NoRow, NoRow>>
      BY <1>0, <1>3, <2>1 DEF Commit, Exists, TypeOK, TablesOK
    <3>3. Exists(d)' => version'[d] = Revision(d) + 1
      BY <1>0, <1>3, <2>1, <3>2 DEF Commit, AdvanceOrRemove, TypeOK, TablesOK
    <3>4. Exists(d)' => Revision(d)' = Revision(d) + 1
      BY <1>0, <3>3, NullsAssumption, RevisionType DEF Revision
    <3>5. audit'[d] = Append(audit[d], Revision(d) + 1)
      BY <1>0, <1>3, <2>1, <3>1 DEF Commit, Record, TypeOK, TablesOK
    <3>6. Revision(d) \in Nat
      BY <1>0, RevisionType
    <3> QED BY <3>1, <3>4, <3>5, <3>6 DEF TrailStep
  <2>2. CASE d # doc[w]
    BY <1>0, <1>3, <2>2 DEF Commit, Record, TrailStep, Exists, TypeOK, TablesOK
  <2> QED BY <2>1, <2>2
<1>4. ASSUME NEW w \in Writers, CommitOnGone(w)
      PROVE  TrailStep(d)
  <2>1. d # doc[w] => audit'[d] = audit[d]
    BY <1>0, <1>4 DEF CommitOnGone, Record, TypeOK, TablesOK
  <2> QED BY <1>4, <2>1 DEF CommitOnGone, TrailStep, Exists
<1>5. ASSUME NEW w \in Writers, NEW e \in Docs, NEW row \in Row, NEW publishToo \in BOOLEAN,
             Create(w, e, row, publishToo)
      PROVE  TrailStep(d)
  BY <1>0, <1>5, InsertTrail, NullsAssumption DEF Create
<1>6. ASSUME OrgChange \/ \E e \in Docs : LockInVain(e)
      PROVE  TrailStep(d)
  <2>1. audit'[d] = audit[d]
    BY <1>6 DEF OrgChange, BeginDelete, Deleting, AdvanceNext, DeleteDepartment, DeleteTeam,
                AdvanceLocked, FailDelete, MoveTeam, ChangeAccount, LockInVain, database
  <2>2. CASE Exists(d) \/ ~Exists(d)'
    BY <2>1, <2>2 DEF TrailStep
  <2>3. CASE ~Exists(d) /\ Exists(d)'
    BY <1>0, <1>6, <2>3
       DEF OrgChange, BeginDelete, Deleting, AdvanceNext, DeleteDepartment, DeleteTeam, WithoutOwner,
           WithoutTeam, FailDelete, MoveTeam, ChangeAccount, LockInVain, database, Exists
  <2> QED BY <2>2, <2>3
<1>7. CASE UNCHANGED vars
  BY <1>1, <1>7 DEF vars
<1> QED BY <1>1, <1>2, <1>3, <1>4, <1>5, <1>6, <1>7 DEF Next, Writing

\* The trail of a document that exists is in order.
THEOREM TrailsInOrder == Spec => []TrailInOrder
<1>1. Init => TrailInOrder
  BY DEF Init, TrailInOrder
<1>2. ASSUME Maintained, Maintained', TrailInOrder, [Next]_vars
      PROVE  TrailInOrder'
  <2> SUFFICES ASSUME NEW d \in Docs, Exists(d)'
               PROVE  /\ \A i \in 1 .. Len(audit'[d]) : audit'[d][i] <= Revision(d)'
                      /\ \A i \in 1 .. Len(audit'[d]) - 1 : audit'[d][i] < audit'[d][i + 1]
    BY DEF TrailInOrder
  <2>1. /\ Revision(d) \in Nat /\ Revision(d)' \in Nat /\ audit[d] \in Seq(Nat)
        /\ DocStep(d) /\ TrailStep(d)
    BY <1>2, RevisionType, EveryDocSteps, EveryTrailSteps DEF Maintained, TypeOK, TablesOK, Revision
  <2>2. CASE Exists(d) /\ audit'[d] = audit[d]
    <3>1. Revision(d) <= Revision(d)'
      BY <2>1, <2>2 DEF DocStep
    <3>2. \A i \in 1 .. Len(audit[d]) : audit[d][i] \in Nat
      BY <2>1
    <3>3. /\ \A i \in 1 .. Len(audit[d]) : audit[d][i] <= Revision(d)
          /\ \A i \in 1 .. Len(audit[d]) - 1 : audit[d][i] < audit[d][i + 1]
      BY <1>2, <2>2 DEF TrailInOrder
    <3>4. \A i \in 1 .. Len(audit[d]) : audit[d][i] <= Revision(d)'
      BY <2>1, <3>1, <3>2, <3>3
    <3> QED BY <2>2, <3>3, <3>4
  <2>3. CASE /\ Exists(d) \/ audit[d] = <<>>
             /\ Revision(d)' > Revision(d) /\ audit'[d] = Append(audit[d], Revision(d)')
    <3>1. \A i \in 1 .. Len(audit[d]) : audit[d][i] \in Nat /\ audit[d][i] <= Revision(d)
      BY <1>2, <2>1, <2>3 DEF TrailInOrder
    <3>2. \A i \in 1 .. Len(audit[d]) - 1 : audit[d][i] < audit[d][i + 1]
      BY <1>2, <2>1, <2>3 DEF TrailInOrder
    <3>3. /\ Len(audit'[d]) = Len(audit[d]) + 1 /\ audit'[d][Len(audit[d]) + 1] = Revision(d)'
          /\ \A i \in 1 .. Len(audit[d]) : audit'[d][i] = audit[d][i]
          /\ Len(audit[d]) \in Nat
      BY <2>1, <2>3
    <3>4. ASSUME NEW i \in 1 .. Len(audit'[d])
          PROVE  audit'[d][i] <= Revision(d)'
      <4>1. CASE i \in 1 .. Len(audit[d])
        BY <2>1, <2>3, <3>1, <3>3, <4>1
      <4>2. CASE i = Len(audit[d]) + 1
        BY <2>1, <3>3, <4>2
      <4> QED BY <3>3, <4>1, <4>2
    <3>5. ASSUME NEW i \in 1 .. Len(audit'[d]) - 1
          PROVE  audit'[d][i] < audit'[d][i + 1]
      <4>1. CASE i \in 1 .. Len(audit[d]) - 1
        <5>1. i + 1 \in 1 .. Len(audit[d]) /\ i \in 1 .. Len(audit[d])
          BY <3>3, <4>1
        <5> QED BY <3>2, <3>3, <4>1, <5>1
      <4>2. CASE i = Len(audit[d]) /\ i \in 1 .. Len(audit[d])
        BY <2>1, <2>3, <3>1, <3>3, <4>2
      <4> QED BY <3>3, <4>1, <4>2
    <3> QED BY <3>4, <3>5
  <2> QED BY <2>1, <2>2, <2>3 DEF TrailStep
<1> QED BY <1>1, <1>2, Maintenance, PTL DEF Spec
=============================================================================
