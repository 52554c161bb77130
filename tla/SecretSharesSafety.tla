------------------------- MODULE SecretSharesSafety -------------------------
(***************************************************************************)
(* The inductive invariant of the secret shares and what follows from it:  *)
(* a text is read once, by the right person, and leaves nothing behind.    *)
(***************************************************************************)
EXTENDS SecretSharesProofs, FiniteSetTheorems

-----------------------------------------------------------------------------
(***************************************************************************)
(* Locks.                                                                  *)
(***************************************************************************)

Locks == OneDirectoryHolder /\ RowHeldOnce

\* A session's step leaves the other sessions where they are.
Alone(w) == \A v \in Sessions \ {w} : pc'[v] = pc[v] /\ request'[v] = request[v]

\* A session takes the directory only when it is free, and a share only when
\* it is free; the janitor lets its row go or keeps it.
LEMMA SessionLocks ==
  ASSUME Typed, Typed', Locks, NEW w \in Sessions, Alone(w), row' = row,
         HoldsDirectory(w)' => HoldsDirectory(w) \/ DirectoryFree,
         HoldsShare(w)' => request'[w].share = request[w].share
                           /\ (HoldsShare(w) \/ ShareFree(request[w].share))
  PROVE  Locks'
<1>1. \A v \in Sessions \ {w} : /\ HoldsDirectory(v)' <=> HoldsDirectory(v)
                                /\ HoldsShare(v)' <=> HoldsShare(v)
  BY DEF Alone, HoldsDirectory, HoldsShare
<1>2. OneDirectoryHolder'
  <2> SUFFICES ASSUME NEW u \in Sessions, NEW v \in Sessions,
                      HoldsDirectory(u)', HoldsDirectory(v)'
               PROVE  u = v
    BY DEF OneDirectoryHolder
  <2> QED BY <1>1 DEF Locks, OneDirectoryHolder, DirectoryFree
<1>3. RowHeldOnce'
  <2> SUFFICES ASSUME NEW v \in Sessions, HoldsShare(v)' PROVE request'[v].share # row'
    BY DEF RowHeldOnce
  <2> QED BY <1>1 DEF Locks, RowHeldOnce, ShareFree, Alone
<1> QED BY <1>2, <1>3 DEF Locks

\* Asking takes no lock, and a request takes them one by one.
LEMMA RequestLocks ==
  ASSUME Typed, Typed', Locks, NEW w \in Sessions, Asking(w) \/ Serving(w)
  PROVE  Locks'
<1>1. ASSUME NEW asked, Ask(w, asked) PROVE Locks'
  <2>1. Alone(w) /\ row' = row /\ pc'[w] = "directory"
    BY <1>1 DEF Ask, Alone, janitor, Typed, TypeOK
  <2> QED BY <2>1, SessionLocks DEF HoldsDirectory, HoldsShare
<1>2. CASE Asking(w)
  BY <1>1, <1>2 DEF Asking, AskCreate, AskReveal, AskRevoke
<1>3. CASE LockDirectory(w)
  <2>1. Alone(w) /\ row' = row /\ pc'[w] = "people"
    BY <1>3 DEF LockDirectory, Go, Alone, janitor, Typed, TypeOK
  <2> QED BY <1>3, <2>1, SessionLocks DEF LockDirectory, HoldsShare
<1>4. ASSUME NEW place \in {"caller", "share", "writing", "committed", "idle"}, Go(w, place),
             place # "committed" /\ place # "idle" => HoldsDirectory(w), row' = row, Alone(w),
             place = "writing" => /\ request'[w].share = request[w].share
                                  /\ request'[w].op = request[w].op
                                  /\ pc[w] = "reading" \/ request[w].op = "create"
      PROVE  Locks'
  <2>1. pc'[w] = place
    BY <1>4 DEF Go, Typed, TypeOK
  <2>2. HoldsDirectory(w)' => HoldsDirectory(w)
    BY <1>4, <2>1 DEF HoldsDirectory
  <2>3. HoldsShare(w)' => request'[w].share = request[w].share /\ HoldsShare(w)
    BY <1>4, <2>1 DEF HoldsShare
  <2> QED BY <1>4, <2>2, <2>3, SessionLocks
<1>5. CASE LockPeople(w)
  <2>1. Go(w, "caller") /\ HoldsDirectory(w)
    BY <1>5 DEF LockPeople, HoldsDirectory
  <2>2. Alone(w) /\ row' = row
    BY <1>5 DEF LockPeople, Go, Alone, janitor, Typed, TypeOK
  <2> QED BY <1>4, <2>1, <2>2
<1>6. CASE JudgeCreate(w)
  <2>1. Go(w, "writing") /\ HoldsDirectory(w) /\ request[w].op = "create"
    BY <1>6 DEF JudgeCreate, HoldsDirectory
  <2>2. Alone(w) /\ row' = row
    BY <1>6 DEF JudgeCreate, Go, Alone, janitor, Typed, TypeOK
  <2>3. request[w] \in Request
    BY <1>6, RequestType DEF JudgeCreate
  <2>4. request'[w].share = request[w].share /\ request'[w].op = request[w].op
    BY <1>6, <2>3 DEF JudgeCreate, Typed, TypeOK, Request
  <2> QED BY <1>4, <2>1, <2>2, <2>4
<1>7. CASE JudgeCaller(w)
  <2>1. Go(w, "share") /\ HoldsDirectory(w)
    BY <1>7 DEF JudgeCaller, HoldsDirectory
  <2>2. Alone(w) /\ row' = row
    BY <1>7 DEF JudgeCaller, Go, Alone, janitor, Typed, TypeOK
  <2> QED BY <1>4, <2>1, <2>2
<1>8. CASE LockShare(w)
  <2>1. Alone(w) /\ row' = row /\ pc'[w] = "reading" /\ request'[w] = request[w]
    BY <1>8 DEF LockShare, Go, Alone, janitor, Typed, TypeOK
  <2> QED BY <1>8, <2>1, SessionLocks DEF LockShare, HoldsDirectory
<1>9. ASSUME NEW verdict, Decide(w, verdict), pc[w] = "reading" PROVE Locks'
  <2>1. Go(w, "writing") /\ HoldsDirectory(w)
    BY <1>9 DEF Decide, HoldsDirectory
  <2>2. Alone(w) /\ row' = row
    BY <1>9 DEF Decide, Go, Alone, janitor, Typed, TypeOK
  <2>3. request[w] \in Request
    BY <1>9, RequestType
  <2>4. request'[w].share = request[w].share /\ request'[w].op = request[w].op
    BY <1>9, <2>3 DEF Decide, Typed, TypeOK, Request
  <2> QED BY <1>4, <1>9, <2>1, <2>2, <2>4
<1>10. CASE JudgeReveal(w) \/ JudgeRevoke(w)
  BY <1>9, <1>10 DEF JudgeReveal, JudgeRevoke
<1>11. CASE (\E s \in Shares : CommitCreate(w, s)) \/ CommitEnd(w)
  <2>1. Go(w, "committed") /\ row' = row /\ request' = request
    BY <1>11 DEF CommitCreate, CommitEnd, janitor
  <2>2. Alone(w)
    BY <2>1 DEF Go, Alone, Typed, TypeOK
  <2> QED BY <1>4, <2>1, <2>2
<1>12. CASE Rollback(w) \/ Answer(w) \/ AnswerBusy(w)
  <2>1. Go(w, "idle") /\ row' = row /\ request' = [request EXCEPT ![w] = NoRequest]
    BY <1>12 DEF Rollback, Answer, AnswerBusy, janitor
  <2>2. Alone(w)
    BY <2>1 DEF Go, Alone, Typed, TypeOK
  <2> QED BY <1>4, <2>1, <2>2
<1> QED
  BY <1>2, <1>3, <1>5, <1>6, <1>7, <1>8, <1>10, <1>11, <1>12 DEF Serving

\* What the janitor holds is a row that was free, and it stands in the way of
\* no request afterwards.
LEMMA CleaningLocks ==
  ASSUME Typed, Locks, Cleaning
  PROVE  Locks'
<1>1. pc' = pc /\ request' = request
  BY DEF Cleaning, RunJanitor, NextStep, Start, JanitorJudge, JanitorDelete, JanitorFails,
         RunFails, JanitorLock, JanitorEnd
<1>2. OneDirectoryHolder'
  BY <1>1 DEF Locks, OneDirectoryHolder, HoldsDirectory
<1>3. ASSUME NEW w \in Sessions, HoldsShare(w) PROVE request[w].share # NoShare
  BY <1>3, IdsAssumption DEF HoldsShare, Typed, RequestsMatch, NamesItsShare
<1>4. row' \in {row, NoShare} \/ (row' # NoShare /\ ShareFree(row'))
  BY DEF Cleaning, RunJanitor, NextStep, Start, JanitorJudge, JanitorDelete, JanitorFails,
         RunFails, JanitorLock, JanitorEnd, ShareFree
<1>5. RowHeldOnce'
  BY <1>1, <1>3, <1>4 DEF Locks, RowHeldOnce, HoldsShare, ShareFree
<1> QED BY <1>2, <1>5 DEF Locks

\* Nothing around takes a lock for longer than its step.
LEMMA AroundLocks ==
  ASSUME Typed, Locks, Around
  PROVE  Locks'
<1>1. CASE pc' = pc /\ request' = request /\ row' = row
  BY <1>1 DEF Locks, OneDirectoryHolder, HoldsDirectory, RowHeldOnce, HoldsShare
<1>2. ASSUME NEW k \in Keys, Restart(k) PROVE Locks'
  BY <1>2 DEF Restart, Locks, OneDirectoryHolder, HoldsDirectory, RowHeldOnce, HoldsShare
<1>3. CASE \E k \in Keys : Restart(k)
  BY <1>2, <1>3
<1> QED
  BY <1>1, <1>3 DEF Around, ChangeAccount, DeleteAccount, Anonymise, DropNotice, Tick, janitor

\* No step breaks the locks.
LEMMA NextLocks == Typed /\ Typed' /\ Locks /\ [Next]_vars => Locks'
<1> SUFFICES ASSUME Typed, Typed', Locks, [Next]_vars PROVE Locks'
  OBVIOUS
<1>1. CASE UNCHANGED vars
  BY <1>1 DEF vars, janitor, Locks, OneDirectoryHolder, HoldsDirectory, RowHeldOnce, HoldsShare
<1> QED
  BY <1>1, RequestLocks, CleaningLocks, AroundLocks DEF Next

-----------------------------------------------------------------------------
(***************************************************************************)
(* What was judged stays so.                                               *)
(***************************************************************************)

AccountKept(p) == people'[p] = people[p]

\* A session that stays where it is keeps its judgement while others leave
\* alone what it holds: its people, and the share it is about to end.
LEMMA JudgedKept ==
  ASSUME NEW v \in Sessions, Judged(v), pc'[v] = pc[v], request'[v] = request[v],
         HoldsPeople(v) => AccountKept(request[v].caller) /\ AccountKept(request[v].peer),
         pc[v] = "writing" /\ request[v].op # "create"
           => shares'[request[v].share] = shares[request[v].share]
  PROVE  Judged(v)'
<1>1. CASE HoldsPeople(v)
  <2>1. FreshCaller(v)' <=> FreshCaller(v)
    BY <1>1 DEF FreshCaller, Eligible, AccountKept
  <2>2. CanReceive(request[v].caller)' <=> CanReceive(request[v].caller)
    BY <1>1 DEF CanReceive, Eligible, AccountKept
  <2>3. /\ CanSend(request[v].caller)' <=> CanSend(request[v].caller)
        /\ CanReceive(request[v].peer)' <=> CanReceive(request[v].peer)
        /\ Eligible(request[v].peer)' <=> Eligible(request[v].peer)
    BY <1>1 DEF CanReceive, CanSend, Eligible, AccountKept
  <2>4. pc[v] = "writing" /\ request[v].op # "create"
          => (Pending(request[v].share)' <=> Pending(request[v].share))
    BY DEF Pending, IsRow
  <2> QED BY <2>1, <2>2, <2>3, <2>4 DEF Judged
<1>2. CASE ~HoldsPeople(v)
  BY <1>2 DEF HoldsPeople, Judged
<1> QED BY <1>1, <1>2

\* A request that leaves accounts and shares alone keeps everybody's
\* judgement but its own.
LEMMA OthersJudged ==
  ASSUME StillJudged, NEW w \in Sessions, Alone(w), people' = people, shares' = shares,
         Judged(w)'
  PROVE  StillJudged'
<1>1. ASSUME NEW v \in Sessions \ {w} PROVE Judged(v)'
  BY JudgedKept DEF StillJudged, Alone, AccountKept
<1> QED BY <1>1 DEF StillJudged

\* Before it judges, and once it is done, a request has nothing to keep.
LEMMA NothingToJudge ==
  ASSUME NEW w \in Sessions, pc'[w] \notin {"share", "reading", "writing"}
  PROVE  Judged(w)'
BY DEF Judged

\* The steps of a request that do not write.
LEMMA RequestJudged ==
  ASSUME Typed, StillJudged, NEW w \in Sessions,
         \/ Asking(w) \/ LockDirectory(w) \/ LockPeople(w) \/ JudgeCreate(w) \/ JudgeCaller(w)
         \/ LockShare(w) \/ JudgeReveal(w) \/ JudgeRevoke(w) \/ Rollback(w) \/ Answer(w)
         \/ AnswerBusy(w)
  PROVE  StillJudged'
<1>1. people' = people /\ shares' = shares
  BY DEF Asking, AskCreate, AskReveal, AskRevoke, Ask, LockDirectory, LockPeople, JudgeCreate,
         JudgeCaller, LockShare, JudgeReveal, JudgeRevoke, Decide, Rollback, Answer, AnswerBusy,
         table
<1>2. Judged(w)
  BY DEF StillJudged
<1>3. CASE Asking(w) \/ LockDirectory(w) \/ LockPeople(w) \/ Rollback(w) \/ Answer(w)
           \/ AnswerBusy(w)
  <2>1. pc'[w] \in {"directory", "people", "caller", "idle"} /\ Alone(w)
    BY <1>3 DEF Asking, AskCreate, AskReveal, AskRevoke, Ask, LockDirectory, LockPeople,
         Rollback, Answer, AnswerBusy, Go, Alone, Typed, TypeOK
  <2> QED BY <1>1, <2>1, OthersJudged, NothingToJudge
<1>4. CASE JudgeCaller(w)
  <2>1. pc'[w] = "share" /\ request' = request /\ Alone(w)
    BY <1>4 DEF JudgeCaller, Go, Alone, Typed, TypeOK
  <2>2. FreshCaller(w)' /\ (request[w].op = "reveal" => CanReceive(request[w].caller)')
    BY <1>1, <1>4, <2>1 DEF JudgeCaller, FreshCaller, CanReceive, Eligible
  <2>3. Judged(w)'
    BY <2>1, <2>2 DEF Judged
  <2> QED BY <1>1, <2>1, <2>3, OthersJudged
<1>5. CASE LockShare(w)
  <2>1. pc[w] = "share" /\ pc'[w] = "reading" /\ request' = request /\ Alone(w)
    BY <1>5 DEF LockShare, Go, Alone, Typed, TypeOK
  <2>2. /\ FreshCaller(w)' <=> FreshCaller(w)
        /\ CanReceive(request[w].caller)' <=> CanReceive(request[w].caller)
    BY <1>1, <2>1 DEF FreshCaller, CanReceive, Eligible
  <2>3. Judged(w)'
    BY <1>2, <2>1, <2>2 DEF Judged
  <2> QED BY <1>1, <2>1, <2>3, OthersJudged
<1>6. ASSUME Go(w, "writing"), pc[w] # "idle",
             \/ request' = [request EXCEPT ![w].at = clock]
             \/ \E verdict : request' = [request EXCEPT ![w].at = clock, ![w].verdict = verdict],
             FreshCaller(w),
             request[w].op = "reveal"
               => CanReceive(request[w].caller) /\ Eligible(request[w].peer),
             request[w].op = "create"
               => CanSend(request[w].caller) /\ CanReceive(request[w].peer),
             request[w].op # "create" => Pending(request[w].share)
      PROVE  StillJudged'
  <2>1. request[w] \in Request
    BY <1>6, RequestType
  <2>2. /\ request'[w].op = request[w].op /\ request'[w].caller = request[w].caller
        /\ request'[w].peer = request[w].peer /\ request'[w].share = request[w].share
        /\ request'[w].version = request[w].version
    BY <1>6, <2>1 DEF Request, Typed, TypeOK
  <2>3. pc'[w] = "writing" /\ Alone(w)
    BY <1>6 DEF Go, Alone, Typed, TypeOK
  <2>4. FreshCaller(w)'
    BY <1>1, <1>6, <2>2 DEF FreshCaller, Eligible
  <2>5. /\ CanReceive(request[w].caller)' <=> CanReceive(request[w].caller)
        /\ CanSend(request[w].caller)' <=> CanSend(request[w].caller)
    BY <1>1, <2>2 DEF CanReceive, CanSend, Eligible
  <2>6. /\ CanReceive(request[w].peer)' <=> CanReceive(request[w].peer)
        /\ Eligible(request[w].peer)' <=> Eligible(request[w].peer)
    BY <1>1, <2>2 DEF CanReceive, Eligible
  <2>7. Pending(request[w].share)' <=> Pending(request[w].share)
    BY <1>1, <2>2 DEF Pending, IsRow
  <2>8. Judged(w)'
    BY <1>6, <2>2, <2>3, <2>4, <2>5, <2>6, <2>7 DEF Judged
  <2> QED BY <1>1, <2>3, <2>8, OthersJudged
<1>7. CASE JudgeCreate(w)
  BY <1>6, <1>7 DEF JudgeCreate
<1>8. CASE JudgeRevoke(w)
  <2>1. FreshCaller(w) /\ pc[w] = "reading" /\ request[w].op = "revoke"
    BY <1>2, <1>8 DEF JudgeRevoke, Judged
  <2> QED BY <1>6, <1>8, <2>1 DEF JudgeRevoke, Decide
<1>9. CASE JudgeReveal(w)
  <2>1. /\ FreshCaller(w) /\ CanReceive(request[w].caller)
        /\ pc[w] = "reading" /\ request[w].op = "reveal"
    BY <1>2, <1>9 DEF JudgeReveal, Judged
  <2>2. shares[request[w].share].from = request[w].peer
    BY <1>9, <2>1 DEF JudgeReveal, Pending, Typed, RequestsMatch, NamesItsShare
  <2> QED BY <1>6, <1>9, <2>1, <2>2 DEF JudgeReveal, Decide
<1> QED BY <1>3, <1>4, <1>5, <1>7, <1>8, <1>9

\* The two COMMITs: the writer is alone behind the directory lock.
LEMMA CommitJudged ==
  ASSUME Typed, Locks, StillJudged, NEW w \in Sessions,
         (\E s \in Shares : CommitCreate(w, s)) \/ CommitEnd(w)
  PROVE  StillJudged'
<1>1. /\ pc[w] = "writing" /\ Go(w, "committed")
      /\ people' = people /\ request' = request
  BY DEF CommitCreate, CommitEnd
<1>2. Alone(w) /\ pc'[w] = "committed"
  BY <1>1 DEF Go, Alone, Typed, TypeOK
<1>3. ASSUME NEW v \in Sessions \ {w} PROVE ~HoldsDirectory(v)
  BY <1>1 DEF Locks, OneDirectoryHolder, HoldsDirectory
<1>4. ASSUME NEW v \in Sessions \ {w} PROVE Judged(v)'
  <2>1. pc[v] \notin {"caller", "share", "reading", "writing"}
    BY <1>3 DEF HoldsDirectory
  <2>2. pc'[v] = pc[v]
    BY <1>2 DEF Alone
  <2> QED BY <2>1, <2>2, NothingToJudge
<1> QED BY <1>2, <1>4, NothingToJudge DEF StillJudged

\* The janitor writes rows nobody else holds.
LEMMA CleaningJudged ==
  ASSUME Typed, Locks, StillJudged, Cleaning
  PROVE  StillJudged'
<1>1. pc' = pc /\ request' = request /\ people' = people
  BY DEF Cleaning, RunJanitor, NextStep, Start, JanitorJudge, JanitorDelete, JanitorFails,
         RunFails, JanitorLock, JanitorEnd
<1>2. ASSUME NEW v \in Sessions, pc[v] = "writing", request[v].op # "create"
      PROVE  shares'[request[v].share] = shares[request[v].share]
  <2>1. HoldsShare(v) /\ request[v].share \in Shares /\ request[v].share # row
    BY <1>2 DEF HoldsShare, Typed, RequestsMatch, NamesItsShare, Locks, RowHeldOnce
  <2>2. CASE shares' = shares
    BY <2>2
  <2>3. CASE \E s \in Shares : JanitorEnd(s)
    BY <2>1, <2>3 DEF JanitorEnd, EndShare, Typed, TypeOK
  <2>4. CASE JanitorDelete
    BY <2>1, <2>4 DEF JanitorDelete, DeleteShares, ShareFree
  <2> QED
    BY <2>2, <2>3, <2>4 DEF Cleaning, RunJanitor, NextStep, Start, JanitorJudge, JanitorFails,
         RunFails, JanitorLock, table
<1> QED BY <1>1, <1>2, JudgedKept DEF StillJudged, AccountKept

\* An account changes under its row lock, and an anonymisation takes the
\* rows it deletes as well.
LEMMA AroundJudged ==
  ASSUME Typed, StillJudged, Around
  PROVE  StillJudged'
<1>1. ASSUME pc' = pc, request' = request, NEW p \in People, PersonFree(p),
             \A q \in People : q # p => AccountKept(q),
             \A v \in Sessions : pc[v] = "writing" /\ request[v].op # "create"
               => shares'[request[v].share] = shares[request[v].share]
      PROVE  StillJudged'
  <2>1. ASSUME NEW v \in Sessions, HoldsPeople(v)
        PROVE  AccountKept(request[v].caller) /\ AccountKept(request[v].peer)
    <3>1. request[v] \in Request
      BY <2>1, RequestType DEF HoldsPeople
    <3>2. p \notin {request[v].caller, request[v].peer}
      BY <1>1, <2>1 DEF PersonFree, Parties
    <3> QED BY <1>1, <3>1, <3>2 DEF Request
  <2> QED BY <1>1, <2>1, JudgedKept DEF StillJudged
<1>2. ASSUME NEW p \in Volatile, NEW account \in Accounts, ChangeAccount(p, account)
      PROVE  StillJudged'
  BY <1>1, <1>2, PeopleAssumption DEF ChangeAccount, AccountKept, Typed, TypeOK, table
<1>3. ASSUME NEW p \in Volatile, DeleteAccount(p)
      PROVE  StillJudged'
  BY <1>1, <1>3, PeopleAssumption DEF DeleteAccount, AccountKept, Typed, TypeOK, table
<1>4. ASSUME NEW p \in Volatile, Anonymise(p)
      PROVE  StillJudged'
  <2>1. \A q \in People : q # p => AccountKept(q)
    BY <1>4 DEF Anonymise, AccountKept, Typed, TypeOK
  <2>2. ASSUME NEW v \in Sessions, pc[v] = "writing", request[v].op # "create"
        PROVE  shares'[request[v].share] = shares[request[v].share]
    <3>1. HoldsShare(v) /\ request[v].share \in Shares
      BY <2>2 DEF HoldsShare, Typed, RequestsMatch, NamesItsShare
    <3> QED BY <1>4, <3>1 DEF Anonymise, DeleteShares, ShareFree
  <2> QED BY <1>1, <1>4, <2>1, <2>2, PeopleAssumption DEF Anonymise
<1>5. CASE pc' = pc /\ request' = request /\ people' = people /\ shares' = shares
  BY <1>5, JudgedKept DEF StillJudged, AccountKept
<1>6. ASSUME NEW k \in Keys, Restart(k) PROVE StillJudged'
  BY <1>6 DEF Restart, StillJudged, Judged
<1>7. CASE \E s \in Shares : DropNotice(s)
  BY <1>5, <1>7 DEF DropNotice, Tick, table
<1>8. CASE Tick
  BY <1>5, <1>8 DEF Tick, table
<1> QED BY <1>2, <1>3, <1>4, <1>6, <1>7, <1>8 DEF Around

\* No step makes a judgement stale.
LEMMA NextJudged == Typed /\ Locks /\ StillJudged /\ [Next]_vars => StillJudged'
<1> SUFFICES ASSUME Typed, Locks, StillJudged, [Next]_vars PROVE StillJudged'
  OBVIOUS
<1>1. CASE UNCHANGED vars
  BY <1>1, JudgedKept DEF vars, table, StillJudged, AccountKept
<1>2. ASSUME NEW w \in Sessions, Asking(w) \/ Serving(w) PROVE StillJudged'
  BY <1>2, RequestJudged, CommitJudged DEF Serving
<1> QED
  BY <1>1, <1>2, CleaningJudged, AroundJudged DEF Next

-----------------------------------------------------------------------------
(***************************************************************************)
(* Every text that was taken is on record.                                 *)
(***************************************************************************)

\* A share on record stays there: it was not pending.
RecordKept == \A s \in Shares : OnRecord(s) => OnRecord(s)'

LEMMA EndShareRecord ==
  ASSUME TypeOK, NEW s \in Shares, NEW to \in Ends, NEW at \in Nat, EndShare(s, to, at)
  PROVE  RecordKept
<1>1. ~OnRecord(s)
  BY DEF EndShare, Pending, IsRow, OnRecord
<1>2. ASSUME NEW t \in Shares, t # s PROVE shares'[t] = shares[t]
  BY <1>2 DEF EndShare, TypeOK
<1> QED BY <1>1, <1>2 DEF RecordKept, OnRecord, IsRow

LEMMA DeleteSharesRecord ==
  ASSUME NEW gone \in SUBSET Shares, DeleteShares(gone)
  PROVE  RecordKept
<1>1. ASSUME NEW s \in Shares PROVE shares'[s] \in {shares[s], Deleted}
  BY DEF DeleteShares
<1> QED BY <1>1 DEF RecordKept, OnRecord, IsRow

\* Who has a text in hand has asked for a share that exists.
LEMMA TookShare ==
  ASSUME Typed, NEW w \in Sessions, Took(w)
  PROVE  request[w].share \in Shares
BY DEF Typed, RequestsMatch, Took, NamesItsShare

\* Steps that hand nothing out, take nothing and leave the record.
LEMMA TakenKept ==
  ASSUME Typed, TakenOnRecord, reads' = reads, RecordKept,
         \A w \in Sessions : Took(w)' => Took(w) /\ request'[w].share = request[w].share
  PROVE  TakenOnRecord'
<1>1. \A s \in Shares : reads'[s] \in {0, 1} /\ (reads'[s] = 1 => OnRecord(s)')
  BY DEF TakenOnRecord, RecordKept
<1>2. ASSUME NEW w \in Sessions, Took(w)'
      PROVE  OnRecord(request[w].share)' /\ reads'[request'[w].share] = 0
  <2>1. Took(w) /\ request'[w].share = request[w].share /\ request[w].share \in Shares
    BY <1>2, TookShare
  <2>2. OnRecord(request[w].share) /\ reads[request[w].share] = 0
    BY <2>1 DEF TakenOnRecord
  <2> QED BY <2>1, <2>2 DEF RecordKept, OnRecord, IsRow
<1>3. \A v, w \in Sessions :
        Took(v)' /\ Took(w)' /\ request'[v].share = request'[w].share => v = w
  BY DEF TakenOnRecord
<1> QED BY <1>1, <1>2, <1>3 DEF TakenOnRecord

\* A reveal that commits takes a text that nobody took before.
LEMMA CommitEndTaken ==
  ASSUME Typed, StillJudged, TakenOnRecord, NEW w \in Sessions, CommitEnd(w)
  PROVE  TakenOnRecord'
<1> DEFINE s == request[w].share
<1>1. /\ pc[w] = "writing" /\ request[w].op # "create"
      /\ request' = request /\ reads' = reads /\ s \in Shares
      /\ request[w].verdict \in Ends
  BY DEF CommitEnd, Typed, RequestsMatch, NamesItsShare
<1>2. pc'[w] = "committed" /\ \A v \in Sessions \ {w} : pc'[v] = pc[v]
  BY DEF CommitEnd, Go, Typed, TypeOK
<1>3. request[w].at \in Nat
  BY <1>1, RequestType DEF Request
<1>4. EndShare(s, request[w].verdict, request[w].at)
  BY DEF CommitEnd
<1>5. RecordKept
  BY <1>1, <1>3, <1>4, EndShareRecord DEF Typed
<1>6. \A v \in Sessions \ {w} : Took(v)' <=> Took(v)
  BY <1>1, <1>2 DEF Took
<1>7. CASE request[w].verdict # "retrieved"
  <2>1. ~Took(w)'
    BY <1>1, <1>7 DEF Took
  <2> QED BY <1>1, <1>5, <1>6, <2>1, TakenKept
<1>8. CASE request[w].verdict = "retrieved"
  <2>1. ~OnRecord(s)
    BY <1>4 DEF EndShare, Pending, IsRow, OnRecord
  <2>2. shares[s] \in Share
    BY <1>1, <1>4, RowType DEF EndShare, Pending, Typed
  <2>3. /\ shares'[s] = [shares[s] EXCEPT !.state = "retrieved", !.envelope = NoEnvelope,
                                          !.ended = request[w].at]
    BY <1>1, <1>4, <1>8 DEF EndShare, Typed, TypeOK
  <2>4. shares'[s] \in Share /\ shares'[s].state = "retrieved"
    BY <1>3, <2>2, <2>3 DEF Share, States, Ends
  <2>5. OnRecord(s)'
    BY <1>1, <2>4, SecretNullsAssumption DEF OnRecord, IsRow
  <2>6. reads[s] = 0 /\ \A v \in Sessions : Took(v) => request[v].share # s
    BY <1>1, <2>1 DEF TakenOnRecord
  <2>7. \A t \in Shares : reads'[t] \in {0, 1} /\ (reads'[t] = 1 => OnRecord(t)')
    BY <1>1, <1>5 DEF TakenOnRecord, RecordKept
  <2>8. ASSUME NEW v \in Sessions, Took(v)'
        PROVE  OnRecord(request[v].share)' /\ reads'[request'[v].share] = 0
    <3>1. CASE v = w
      BY <1>1, <2>5, <2>6, <3>1 DEF OnRecord, IsRow
    <3>2. CASE v # w
      <4>1. Took(v) /\ request[v].share \in Shares
        BY <1>6, <2>8, <3>2, TookShare
      <4>2. OnRecord(request[v].share) /\ reads[request[v].share] = 0
        BY <4>1 DEF TakenOnRecord
      <4> QED BY <1>1, <1>5, <4>1, <4>2 DEF RecordKept, OnRecord, IsRow
    <3> QED BY <3>1, <3>2
  <2>9. \A u, v \in Sessions :
          Took(u)' /\ Took(v)' /\ request'[u].share = request'[v].share => u = v
    BY <1>1, <1>6, <2>6 DEF TakenOnRecord
  <2> QED BY <2>7, <2>8, <2>9 DEF TakenOnRecord
<1> QED BY <1>7, <1>8

\* The answer hands out what was in hand.
LEMMA AnswerTaken ==
  ASSUME Typed, TakenOnRecord, NEW w \in Sessions, Answer(w)
  PROVE  TakenOnRecord'
<1>1. shares' = shares /\ pc[w] = "committed" /\ pc'[w] = "idle"
  BY DEF Answer, Confirmed, table, Go, Typed, TypeOK
<1>2. RecordKept
  BY <1>1 DEF RecordKept, OnRecord, IsRow
<1>3. ~Took(w)' /\ \A v \in Sessions \ {w} : /\ Took(v)' <=> Took(v)
                                             /\ request'[v] = request[v]
  BY <1>1 DEF Answer, Go, Typed, TypeOK, Took
<1>4. CASE request[w].verdict # "retrieved"
  <2>1. reads' = reads
    BY <1>4 DEF Answer
  <2> QED BY <1>2, <1>3, <2>1, TakenKept
<1>5. CASE request[w].verdict = "retrieved"
  <2> DEFINE s == request[w].share
  <2>1. Took(w) /\ s \in Shares
    BY <1>1, <1>5, TookShare DEF Took
  <2>2. OnRecord(s) /\ reads[s] = 0
    BY <2>1 DEF TakenOnRecord
  <2>3. reads'[s] = 1 /\ \A t \in Shares \ {s} : reads'[t] = reads[t]
    BY <1>5, <2>1, <2>2 DEF Answer, Typed, TypeOK
  <2>4. \A t \in Shares : reads'[t] \in {0, 1} /\ (reads'[t] = 1 => OnRecord(t)')
    BY <1>2, <2>1, <2>2, <2>3 DEF TakenOnRecord, RecordKept
  <2>5. ASSUME NEW v \in Sessions, Took(v)'
        PROVE  OnRecord(request[v].share)' /\ reads'[request'[v].share] = 0
    <3>1. v # w /\ Took(v) /\ request'[v] = request[v] /\ request[v].share \in Shares
      BY <1>3, <2>5, TookShare
    <3>2. request[v].share # s
      BY <2>1, <3>1 DEF TakenOnRecord
    <3>3. OnRecord(request[v].share) /\ reads[request[v].share] = 0
      BY <3>1 DEF TakenOnRecord
    <3> QED BY <1>1, <2>3, <3>1, <3>2, <3>3 DEF OnRecord, IsRow
  <2>6. \A u, v \in Sessions :
          Took(u)' /\ Took(v)' /\ request'[u].share = request'[v].share => u = v
    BY <1>3 DEF TakenOnRecord
  <2> QED BY <2>4, <2>5, <2>6 DEF TakenOnRecord
<1> QED BY <1>4, <1>5

\* No step hands a text out twice, or loses it from the record.
LEMMA NextTaken == Typed /\ StillJudged /\ TakenOnRecord /\ [Next]_vars => TakenOnRecord'
<1> SUFFICES ASSUME Typed, StillJudged, TakenOnRecord, [Next]_vars PROVE TakenOnRecord'
  OBVIOUS
<1>1. ASSUME shares' = shares, reads' = reads,
             \A w \in Sessions : Took(w)' => Took(w) /\ request'[w].share = request[w].share
      PROVE  TakenOnRecord'
  BY <1>1, TakenKept DEF RecordKept, OnRecord, IsRow
<1>2. ASSUME NEW w \in Sessions, shares' = shares, reads' = reads, Alone(w),
             pc'[w] # "committed"
      PROVE  TakenOnRecord'
  BY <1>1, <1>2 DEF Took, Alone
<1>3. ASSUME NEW w \in Sessions, Asking(w) PROVE TakenOnRecord'
  <2>1. PICK asked : Ask(w, asked)
    BY <1>3 DEF Asking, AskCreate, AskReveal, AskRevoke
  <2>2. shares' = shares /\ reads' = reads /\ Alone(w) /\ pc'[w] = "directory"
    BY <2>1 DEF Ask, table, Alone, Typed, TypeOK
  <2> QED BY <1>2, <2>2
<1>4. ASSUME NEW w \in Sessions,
             \/ LockDirectory(w) \/ LockPeople(w) \/ JudgeCreate(w) \/ JudgeCaller(w)
             \/ LockShare(w) \/ JudgeReveal(w) \/ JudgeRevoke(w) \/ Rollback(w) \/ AnswerBusy(w)
      PROVE  TakenOnRecord'
  <2>1. shares' = shares /\ reads' = reads
    BY <1>4 DEF LockDirectory, LockPeople, JudgeCreate, JudgeCaller, LockShare, JudgeReveal,
         JudgeRevoke, Decide, Rollback, AnswerBusy, table
  <2>2. Alone(w) /\ pc'[w] # "committed"
    BY <1>4 DEF LockDirectory, LockPeople, JudgeCreate, JudgeCaller, LockShare, JudgeReveal,
         JudgeRevoke, Decide, Rollback, AnswerBusy, Go, Alone, Typed, TypeOK
  <2> QED BY <1>2, <2>1, <2>2
<1>5. ASSUME NEW w \in Sessions, NEW s \in Shares, CommitCreate(w, s) PROVE TakenOnRecord'
  <2>1. reads' = reads /\ request' = request /\ request[w].verdict # "retrieved"
    BY <1>5 DEF CommitCreate, Typed, RequestsMatch
  <2>2. \A v \in Sessions : Took(v)' => Took(v)
    BY <1>5, <2>1 DEF CommitCreate, Go, Took, Typed, TypeOK
  <2>3. ~OnRecord(s) /\ \A t \in Shares \ {s} : shares'[t] = shares[t]
    BY <1>5, SecretNullsAssumption DEF CommitCreate, OnRecord, IsRow, Typed, TypeOK
  <2>4. RecordKept
    BY <2>3 DEF RecordKept, OnRecord, IsRow
  <2> QED BY <2>1, <2>2, <2>4, TakenKept
<1>6. ASSUME Cleaning PROVE TakenOnRecord'
  <2>1. pc' = pc /\ request' = request /\ reads' = reads
    BY <1>6 DEF Cleaning, RunJanitor, NextStep, Start, JanitorJudge, JanitorDelete,
         JanitorFails, RunFails, JanitorLock, JanitorEnd
  <2>2. CASE shares' = shares
    BY <1>1, <2>1, <2>2 DEF Took
  <2>3. ASSUME NEW s \in Shares, JanitorEnd(s) PROVE TakenOnRecord'
    <3>1. PICK at \in due : EndShare(s, phase, at)
      BY <2>3 DEF JanitorEnd
    <3>2. at \in Nat /\ phase \in Ends
      BY <2>3, IdsAssumption DEF JanitorEnd, Typed, TypeOK, JanitorInPlace, Ends
    <3>3. RecordKept
      BY <3>1, <3>2, EndShareRecord DEF Typed
    <3> QED BY <2>1, <3>3, TakenKept DEF Took
  <2>4. CASE JanitorDelete
    <3>1. RecordKept
      BY <2>4, DeleteSharesRecord DEF JanitorDelete, Typed, TypeOK
    <3> QED BY <2>1, <3>1, TakenKept DEF Took
  <2> QED
    BY <1>6, <2>2, <2>3, <2>4 DEF Cleaning, RunJanitor, NextStep, Start, JanitorJudge,
         JanitorFails, RunFails, JanitorLock, table
<1>7. ASSUME Around PROVE TakenOnRecord'
  <2>1. ASSUME NEW p \in Volatile, Anonymise(p) PROVE TakenOnRecord'
    <3>1. pc' = pc /\ request' = request /\ reads' = reads
      BY <2>1 DEF Anonymise
    <3>2. RecordKept
      BY <2>1, DeleteSharesRecord DEF Anonymise, SharesOf, Rows
    <3> QED BY <3>1, <3>2, TakenKept DEF Took
  <2>2. CASE pc' = pc /\ request' = request /\ reads' = reads /\ shares' = shares
    BY <1>1, <2>2 DEF Took
  <2>3. ASSUME NEW k \in Keys, Restart(k) PROVE TakenOnRecord'
    BY <1>1, <2>3 DEF Restart, table, Took
  <2> QED
    BY <1>7, <2>1, <2>2, <2>3 DEF Around, ChangeAccount, DeleteAccount, DropNotice, Tick,
         table
<1>8. CASE UNCHANGED vars
  BY <1>1, <1>8 DEF vars, table, Took
<1> QED
  BY <1>3, <1>4, <1>5, <1>6, <1>7, <1>8, CommitEndTaken, AnswerTaken DEF Next, Serving

-----------------------------------------------------------------------------
(***************************************************************************)
(* Nothing is left behind.                                                 *)
(***************************************************************************)

Clean == NothingOutlivesPending /\ ErasedBlocked /\ ErasedLeaveNothing

\* No row more, with no other people in them.
LEMMA RowsClean ==
  ASSUME ErasedLeaveNothing, PartiesKept, Rows' \subseteq Rows, people' = people
  PROVE  ErasedLeaveNothing'
<1> SUFFICES ASSUME NEW s \in Rows', NEW p \in {shares'[s].from, shares'[s].to},
                    people'[p] # NoPerson
             PROVE  ~people'[p].erased
  BY DEF ErasedLeaveNothing
<1>1. s \in Rows /\ shares'[s].from = shares[s].from /\ shares'[s].to = shares[s].to
  BY DEF Rows, IsRow, PartiesKept
<1> QED BY <1>1 DEF ErasedLeaveNothing

\* The ways the table changes, one COMMIT at a time.
LEMMA EndShareClean ==
  ASSUME TypeOK, Clean, NEW s \in Shares, NEW to \in Ends, NEW at \in Nat,
         EndShare(s, to, at), people' = people
  PROVE  Clean'
<1>1. TableType' /\ PartiesKept
  BY EndShareTyped
<1>2. NothingOutlivesPending'
  <2>1. shares[s] \in Share
    BY RowType DEF EndShare, Pending
  <2>2. shares'[s] = [shares[s] EXCEPT !.state = to, !.envelope = NoEnvelope, !.ended = at]
    BY DEF EndShare, TypeOK
  <2>3. shares'[s].envelope = NoEnvelope
    BY <2>1, <2>2 DEF Share
  <2>4. \A t \in Shares \ {s} : shares'[t] = shares[t]
    BY DEF EndShare, TypeOK
  <2>5. notices' = notices \ {s}
    BY DEF EndShare
  <2> QED BY <2>3, <2>4, <2>5 DEF Clean, NothingOutlivesPending, Pending, IsRow
<1>3. Rows' \subseteq Rows
  BY DEF Rows, IsRow, EndShare, Pending, TypeOK
<1>4. ErasedLeaveNothing'
  BY <1>1, <1>3, RowsClean DEF Clean
<1> QED BY <1>2, <1>4 DEF Clean, ErasedBlocked

\* A deleted share is no row.
LEMMA FewerRows ==
  ASSUME NEW gone \in SUBSET Shares, DeleteShares(gone)
  PROVE  Rows' \subseteq Rows
BY DEF DeleteShares, Rows, IsRow

LEMMA DeleteSharesClean ==
  ASSUME NothingOutlivesPending, NEW gone \in SUBSET Shares, DeleteShares(gone)
  PROVE  NothingOutlivesPending'
<1>1. ASSUME NEW s \in gone PROVE s \notin notices' /\ ~IsRow(s)'
  BY <1>1 DEF DeleteShares, IsRow
<1>2. ASSUME NEW s \in Shares \ gone
      PROVE  shares'[s] = shares[s] /\ (s \in notices' <=> s \in notices)
  BY <1>2 DEF DeleteShares
<1> QED BY <1>1, <1>2 DEF NothingOutlivesPending, Pending, IsRow

\* A new share is between people who may have it, so neither is anonymised.
LEMMA CommitCreateClean ==
  ASSUME Typed, StillJudged, Clean, NEW w \in Sessions, NEW s \in Shares, CommitCreate(w, s)
  PROVE  Clean'
<1>1. /\ pc[w] = "writing" /\ request[w].op = "create" /\ people' = people
      /\ notices' = notices \cup {s} /\ shares[s] = Unborn
  BY DEF CommitCreate
<1>2. request[w] \in Request
  BY <1>1, RequestType
<1>3. /\ shares'[s] = [from |-> request[w].caller, to |-> request[w].peer,
                       created |-> request[w].at, expires |-> request[w].at + request[w].life,
                       state |-> "pending", envelope |-> key, ended |-> 0]
      /\ \A t \in Shares \ {s} : shares'[t] = shares[t]
  BY DEF CommitCreate, Typed, TypeOK
<1>4. TableType'
  BY CommitCreateTyped
<1>5. /\ shares'[s].from = request[w].caller /\ shares'[s].to = request[w].peer
      /\ shares'[s].state = "pending" /\ IsRow(s)'
  <2>1. shares'[s] \in Share
    BY <1>2, <1>3 DEF Request, Share, States, Typed, TypeOK
  <2> QED BY <1>3, <2>1, SecretNullsAssumption DEF IsRow
<1>6. NothingOutlivesPending'
  BY <1>1, <1>3, <1>5 DEF Clean, NothingOutlivesPending, Pending, IsRow
<1>7. ~people[request[w].caller].blocked /\ ~people[request[w].peer].blocked
  BY <1>1 DEF StillJudged, Judged, CanSend, CanReceive, Eligible
<1>8. \A p \in {request[w].caller, request[w].peer} : people[p] # NoPerson => ~people[p].erased
  BY <1>2, <1>7 DEF Clean, ErasedBlocked, Request
<1>9. ErasedLeaveNothing'
  BY <1>1, <1>3, <1>5, <1>8 DEF Clean, ErasedLeaveNothing, Rows, IsRow
<1> QED BY <1>1, <1>6, <1>9 DEF Clean, ErasedBlocked

\* Who is anonymised was blocked, and is in no share any more.
LEMMA AnonymiseClean ==
  ASSUME Typed, Clean, NEW p \in Volatile, Anonymise(p)
  PROVE  Clean'
<1>1. people[p] \in Person /\ p \in People /\ people[p].blocked
  BY AccountType, PeopleAssumption DEF Anonymise, Typed
<1>2. people' = [people EXCEPT ![p] = [people[p] EXCEPT !.erased = TRUE]]
  BY DEF Anonymise
<1>3. people'[p] = [people[p] EXCEPT !.erased = TRUE]
  BY <1>1, <1>2 DEF Typed, TypeOK
<1>4. people'[p].blocked = people[p].blocked
  <2>1. people[p] = [blocked |-> people[p].blocked, role |-> people[p].role,
                     version |-> people[p].version, erased |-> people[p].erased]
    BY <1>1, Zenon DEF Person
  <2> QED BY <1>3, <2>1, Zenon
<1>5. \A q \in People \ {p} : people'[q] = people[q]
  BY <1>2 DEF Typed, TypeOK
<1>6. ErasedBlocked'
  BY <1>1, <1>4, <1>5 DEF Clean, ErasedBlocked
<1>7. SharesOf(p) \subseteq Shares /\ SharesOf(p) \subseteq Rows
  BY DEF SharesOf, Rows
<1>8. NothingOutlivesPending'
  BY <1>7, DeleteSharesClean DEF Anonymise, Clean
<1>9. PartiesKept
  BY <1>7, DeleteSharesTyped DEF Anonymise, Typed
<1>10. ErasedLeaveNothing'
  <2> SUFFICES ASSUME NEW s \in Rows', NEW q \in {shares'[s].from, shares'[s].to},
                      people'[q] # NoPerson
               PROVE  ~people'[q].erased
    BY DEF ErasedLeaveNothing
  <2>1. s \in Rows /\ q \in {shares[s].from, shares[s].to} /\ shares[s] \in Share
    <3>1. s \in Rows
      BY <1>7, FewerRows DEF Anonymise
    <3>2. shares'[s].from = shares[s].from /\ shares'[s].to = shares[s].to
      BY <1>9, <3>1 DEF Rows, IsRow, PartiesKept
    <3> QED BY <3>1, <3>2, RowType DEF Rows, Typed
  <2>2. s \notin SharesOf(p)
    BY DEF Anonymise, DeleteShares, Rows, IsRow
  <2>3. q \in People /\ q # p
    BY <2>1, <2>2 DEF SharesOf, Share
  <2> QED BY <1>5, <2>1, <2>3 DEF Clean, ErasedLeaveNothing
<1> QED BY <1>6, <1>8, <1>10 DEF Clean

\* An account that changes otherwise does not become an erased one.
LEMMA AccountClean ==
  ASSUME Typed, Clean, NEW p \in Volatile,
         DeleteAccount(p) \/ \E account \in Accounts : ChangeAccount(p, account)
  PROVE  Clean'
<1>1. shares' = shares /\ notices' = notices /\ p \in People
  BY PeopleAssumption DEF DeleteAccount, ChangeAccount, table
<1>2. \A q \in People \ {p} : people'[q] = people[q]
  BY DEF DeleteAccount, ChangeAccount, Typed, TypeOK
<1>3. people'[p] # NoPerson => ~people'[p].erased
  BY <1>1 DEF DeleteAccount, ChangeAccount, Typed, TypeOK
<1>4. NothingOutlivesPending'
  BY <1>1 DEF Clean, NothingOutlivesPending, Pending, IsRow
<1>5. ErasedBlocked'
  BY <1>2, <1>3 DEF Clean, ErasedBlocked
<1>6. ErasedLeaveNothing'
  <2> SUFFICES ASSUME NEW s \in Rows', NEW q \in {shares'[s].from, shares'[s].to},
                      people'[q] # NoPerson
               PROVE  ~people'[q].erased
    BY DEF ErasedLeaveNothing
  <2>1. s \in Rows /\ q \in {shares[s].from, shares[s].to} /\ shares[s] \in Share
    BY <1>1, RowType DEF Rows, IsRow, Typed
  <2>2. q \in People
    BY <2>1 DEF Share
  <2> QED BY <1>2, <1>3, <2>1, <2>2 DEF Clean, ErasedLeaveNothing
<1> QED BY <1>4, <1>5, <1>6 DEF Clean

\* Steps that leave accounts and rows alone, and add no notification.
LEMMA CleanKept ==
  ASSUME Clean, people' = people, shares' = shares, notices' \subseteq notices
  PROVE  Clean'
<1>1. NothingOutlivesPending'
  BY DEF Clean, NothingOutlivesPending, Pending, IsRow
<1>2. ErasedBlocked' /\ ErasedLeaveNothing'
  BY DEF Clean, ErasedBlocked, ErasedLeaveNothing, Rows, IsRow
<1> QED BY <1>1, <1>2 DEF Clean

\* No step leaves anything behind.
LEMMA NextClean == Typed /\ StillJudged /\ Clean /\ [Next]_vars => Clean'
<1> SUFFICES ASSUME Typed, StillJudged, Clean, [Next]_vars PROVE Clean'
  OBVIOUS
<1>1. ASSUME NEW w \in Sessions,
             \/ Asking(w) \/ LockDirectory(w) \/ LockPeople(w) \/ JudgeCreate(w)
             \/ JudgeCaller(w) \/ LockShare(w) \/ JudgeReveal(w) \/ JudgeRevoke(w)
             \/ Rollback(w) \/ Answer(w) \/ AnswerBusy(w)
      PROVE  Clean'
  <2>1. people' = people /\ shares' = shares /\ notices' = notices
    BY <1>1 DEF Asking, AskCreate, AskReveal, AskRevoke, Ask, LockDirectory, LockPeople,
         JudgeCreate, JudgeCaller, LockShare, JudgeReveal, JudgeRevoke, Decide, Rollback,
         Answer, AnswerBusy, table
  <2> QED BY <2>1, CleanKept
<1>2. ASSUME NEW w \in Sessions, CommitEnd(w) PROVE Clean'
  <2>1. /\ EndShare(request[w].share, request[w].verdict, request[w].at) /\ people' = people
        /\ pc[w] = "writing" /\ request[w].op # "create"
    BY <1>2 DEF CommitEnd
  <2>2. request[w].share \in Shares /\ request[w].verdict \in Ends /\ request[w] \in Request
    BY <2>1, RequestType DEF Typed, RequestsMatch, NamesItsShare
  <2>3. request[w].at \in Nat
    BY <2>2 DEF Request
  <2> QED BY <2>1, <2>2, <2>3, EndShareClean DEF Typed
<1>3. ASSUME Cleaning PROVE Clean'
  <2>1. people' = people
    BY <1>3 DEF Cleaning, RunJanitor, NextStep, Start, JanitorJudge, JanitorDelete,
         JanitorFails, RunFails, JanitorLock, JanitorEnd
  <2>2. ASSUME NEW s \in Shares, JanitorEnd(s) PROVE Clean'
    <3>1. PICK at \in due : EndShare(s, phase, at)
      BY <2>2 DEF JanitorEnd
    <3>2. at \in Nat /\ phase \in Ends
      BY <2>2, IdsAssumption DEF JanitorEnd, Typed, TypeOK, JanitorInPlace, Ends
    <3> QED BY <2>1, <3>1, <3>2, EndShareClean DEF Typed
  <2>3. CASE JanitorDelete
    <3> DEFINE gone == {s \in todo : IsRow(s)}
    <3>1. gone \in SUBSET Shares /\ gone \subseteq Rows /\ DeleteShares(gone)
      BY <2>3 DEF JanitorDelete, Typed, TypeOK, Rows
    <3>2. NothingOutlivesPending'
      BY <3>1, DeleteSharesClean DEF Clean
    <3>3. PartiesKept
      BY <3>1, DeleteSharesTyped DEF Typed
    <3>4. ErasedLeaveNothing'
      BY <2>1, <3>1, <3>3, FewerRows, RowsClean DEF Clean
    <3> QED BY <2>1, <3>2, <3>4 DEF Clean, ErasedBlocked
  <2>4. CASE UNCHANGED table
    BY <2>1, <2>4, CleanKept DEF table
  <2> QED
    BY <1>3, <2>2, <2>3, <2>4 DEF Cleaning, RunJanitor, NextStep, Start, JanitorJudge,
         JanitorFails, RunFails, JanitorLock
<1>4. ASSUME Around PROVE Clean'
  <2>1. CASE people' = people /\ shares' = shares /\ notices' \subseteq notices
    BY <2>1, CleanKept
  <2> QED
    BY <1>4, <2>1, AnonymiseClean, AccountClean DEF Around, DropNotice, Tick, Restart, table
<1>5. CASE UNCHANGED vars
  BY <1>5, CleanKept DEF vars, table
<1> QED
  BY <1>1, <1>2, <1>3, <1>4, <1>5, CommitCreateClean DEF Next, Serving

-----------------------------------------------------------------------------
(***************************************************************************)
(* What was selected, or judged to be in time, stays so.                   *)
(***************************************************************************)

Timely == CandidatesDue /\ RequestsInTime

\* Every step that changes the table does so in one of these four ways.
LEMMA TableSteps ==
  ASSUME Typed, [Next]_vars
  PROVE  \/ UNCHANGED shares
         \/ \E w \in Sessions, s \in Shares : CommitCreate(w, s)
         \/ \E w \in Sessions : CommitEnd(w)
         \/ \E s \in Shares : JanitorEnd(s)
         \/ \E gone \in SUBSET Rows : DeleteShares(gone)
<1>1. ASSUME NEW w \in Sessions,
             \/ Asking(w) \/ LockDirectory(w) \/ LockPeople(w) \/ JudgeCreate(w)
             \/ JudgeCaller(w) \/ LockShare(w) \/ JudgeReveal(w) \/ JudgeRevoke(w)
             \/ Rollback(w) \/ Answer(w) \/ AnswerBusy(w)
      PROVE  UNCHANGED shares
  BY <1>1 DEF Asking, AskCreate, AskReveal, AskRevoke, Ask, LockDirectory, LockPeople,
         JudgeCreate, JudgeCaller, LockShare, JudgeReveal, JudgeRevoke, Decide, Rollback,
         Answer, AnswerBusy, table
<1>2. ASSUME JanitorDelete PROVE \E gone \in SUBSET Rows : DeleteShares(gone)
  <2>1. {s \in todo : IsRow(s)} \in SUBSET Rows
    BY DEF Typed, TypeOK, Rows
  <2> QED BY <1>2, <2>1 DEF JanitorDelete
<1>3. ASSUME NEW p \in Volatile, Anonymise(p) PROVE \E gone \in SUBSET Rows : DeleteShares(gone)
  BY <1>3 DEF Anonymise, SharesOf
<1>4. CASE Cleaning
  BY <1>2, <1>4 DEF Cleaning, RunJanitor, NextStep, Start, JanitorJudge, JanitorFails, RunFails,
         JanitorLock, table
<1>5. CASE Around
  BY <1>3, <1>5 DEF Around, ChangeAccount, DeleteAccount, DropNotice, Tick, Restart, table
<1>6. CASE UNCHANGED vars
  BY <1>6 DEF vars, table
<1> QED BY <1>1, <1>4, <1>5, <1>6 DEF Next, Serving

\* The clock never goes back.
LEMMA ClockRuns ==
  ASSUME Typed, [Next]_vars
  PROVE  clock' \in Nat /\ clock <= clock'
<1>1. CASE clock' = clock \/ clock' = clock + 1
  BY <1>1 DEF Typed, TypeOK
<1>2. ASSUME NEW w \in Sessions, Asking(w) \/ Serving(w) PROVE clock' = clock
  BY <1>2 DEF Asking, AskCreate, AskReveal, AskRevoke, Ask, Serving, LockDirectory, LockPeople,
     JudgeCreate, JudgeCaller, LockShare, JudgeReveal, JudgeRevoke, Decide, CommitCreate,
     CommitEnd, Rollback, Answer, AnswerBusy
<1>3. CASE Cleaning
  BY <1>1, <1>3 DEF Cleaning, RunJanitor, NextStep, Start, JanitorJudge, JanitorDelete,
     JanitorFails, RunFails, JanitorLock, JanitorEnd
<1>4. CASE Around
  BY <1>1, <1>4 DEF Around, ChangeAccount, DeleteAccount, Anonymise, DropNotice, Tick, Restart
<1> QED BY <1>1, <1>2, <1>3, <1>4 DEF Next, vars

\* What no step does: make a row of a share that is gone, change the people
\* of a row or its expiry, or anything of a row that ended.
RowsStay ==
  \A s \in Shares :
    shares[s] # Unborn =>
      /\ shares'[s] # Unborn
      /\ IsRow(s)' => /\ IsRow(s)
                      /\ shares'[s].from = shares[s].from /\ shares'[s].to = shares[s].to
                      /\ shares'[s].expires = shares[s].expires
                      /\ ~Pending(s) => shares'[s] = shares[s]

\* An ending writes three columns of one pending row.
LEMMA EndShareStays ==
  ASSUME TypeOK, NEW s \in Shares, NEW to \in Ends, NEW at \in Nat, EndShare(s, to, at)
  PROVE  /\ RowsStay
         /\ shares'[s].state = to /\ shares'[s].ended = at
         /\ \A t \in Shares \ {s} : shares'[t] = shares[t]
<1>1. shares[s] \in Share /\ IsRow(s) /\ Pending(s)
  BY RowType DEF EndShare, Pending
<1>2. shares'[s] = [shares[s] EXCEPT !.state = to, !.envelope = NoEnvelope, !.ended = at]
  BY DEF EndShare, TypeOK
<1>3. /\ shares'[s] \in Share /\ shares'[s].state = to /\ shares'[s].ended = at
      /\ shares'[s].from = shares[s].from /\ shares'[s].to = shares[s].to
      /\ shares'[s].expires = shares[s].expires
  BY <1>1, <1>2 DEF Share, States
<1>4. shares'[s] # Unborn
  BY <1>3, SecretNullsAssumption
<1>5. \A t \in Shares \ {s} : shares'[t] = shares[t]
  BY DEF EndShare, TypeOK
<1>6. RowsStay
  BY <1>1, <1>3, <1>4, <1>5 DEF RowsStay, IsRow
<1> QED BY <1>3, <1>5, <1>6

\* No step does more to the rows.
LEMMA NextRowsStay ==
  ASSUME Typed, [Next]_vars
  PROVE  RowsStay
<1>1. CASE UNCHANGED shares
  BY <1>1 DEF RowsStay, IsRow
<1>2. ASSUME NEW w \in Sessions, NEW s \in Shares, CommitCreate(w, s) PROVE RowsStay
  <2>1. shares[s] = Unborn /\ \A t \in Shares \ {s} : shares'[t] = shares[t]
    BY <1>2 DEF CommitCreate, Typed, TypeOK
  <2> QED BY <2>1 DEF RowsStay, IsRow
<1>3. ASSUME NEW w \in Sessions, CommitEnd(w) PROVE RowsStay
  <2>1. pc[w] = "writing" /\ request[w].op # "create"
    BY <1>3 DEF CommitEnd
  <2>2. request[w].share \in Shares /\ request[w].verdict \in Ends /\ request[w] \in Request
    BY <2>1, RequestType DEF Typed, RequestsMatch, NamesItsShare
  <2>3. request[w].at \in Nat
    BY <2>2 DEF Request
  <2> QED BY <1>3, <2>2, <2>3, EndShareStays DEF CommitEnd, Typed
<1>4. ASSUME NEW s \in Shares, JanitorEnd(s) PROVE RowsStay
  <2>1. PICK at \in due : EndShare(s, phase, at)
    BY <1>4 DEF JanitorEnd
  <2>2. at \in Nat /\ phase \in Ends
    BY <1>4, IdsAssumption DEF JanitorEnd, Typed, TypeOK, JanitorInPlace, Ends
  <2> QED BY <2>1, <2>2, EndShareStays DEF Typed
<1>5. ASSUME NEW gone \in SUBSET Rows, DeleteShares(gone) PROVE RowsStay
  BY <1>5, SecretNullsAssumption DEF DeleteShares, RowsStay, Rows, IsRow
<1> QED BY <1>1, <1>2, <1>3, <1>4, <1>5, TableSteps

\* An account that is gone does not come back.
LEMMA NobodyReturns ==
  ASSUME Typed, [Next]_vars, NEW p, people[p] = NoPerson
  PROVE  people'[p] = NoPerson
<1>1. CASE people' = people
  BY <1>1
<1>2. ASSUME NEW q \in Volatile,
             \/ \E account \in Accounts : ChangeAccount(q, account)
             \/ DeleteAccount(q) \/ Anonymise(q)
      PROVE  people'[p] = NoPerson
  <2>1. \E to : people' = [people EXCEPT ![q] = to]
    BY <1>2 DEF ChangeAccount, DeleteAccount, Anonymise
  <2>2. people[q] # NoPerson
    BY <1>2 DEF ChangeAccount, DeleteAccount, Anonymise
  <2> QED BY <2>1, <2>2, PeopleAssumption DEF Typed, TypeOK
<1>3. ASSUME NEW w \in Sessions, Asking(w) \/ Serving(w) PROVE people' = people
  BY <1>3 DEF Asking, AskCreate, AskReveal, AskRevoke, Ask, Serving, LockDirectory, LockPeople,
     JudgeCreate, JudgeCaller, LockShare, JudgeReveal, JudgeRevoke, Decide, CommitCreate,
     CommitEnd, Rollback, Answer, AnswerBusy
<1>4. CASE Cleaning
  BY <1>1, <1>4 DEF Cleaning, RunJanitor, NextStep, Start, JanitorJudge, JanitorDelete,
     JanitorFails, RunFails, JanitorLock, JanitorEnd
<1>5. CASE Around
  BY <1>1, <1>2, <1>5 DEF Around, DropNotice, Tick, Restart
<1> QED BY <1>1, <1>3, <1>4, <1>5 DEF Next, vars

\* So an orphan is one until its row goes, and a share past its retention
\* stays past it.
LEMMA SelectedStay ==
  ASSUME Typed, [Next]_vars, NEW s \in Shares, shares[s] # Unborn, IsRow(s)'
  PROVE  /\ s \in Orphans => s \in Orphans'
         /\ now' = now /\ s \in Ended => s \in Ended'
<1>1. /\ IsRow(s) /\ shares'[s].from = shares[s].from /\ shares'[s].to = shares[s].to
      /\ ~Pending(s) => shares'[s] = shares[s]
  BY NextRowsStay DEF RowsStay
<1>2. ASSUME s \in Orphans PROVE s \in Orphans'
  <2>1. \/ people[shares[s].from] = NoPerson
        \/ people[shares[s].to] = NoPerson
    BY <1>2 DEF Orphans
  <2>2. \/ people'[shares[s].from] = NoPerson
        \/ people'[shares[s].to] = NoPerson
    BY <2>1, NobodyReturns
  <2>3. \/ people'[shares'[s].from] = NoPerson
        \/ people'[shares'[s].to] = NoPerson
    BY <1>1, <2>2
  <2> QED BY <2>3 DEF Orphans, Rows
<1>3. ASSUME now' = now, s \in Ended PROVE s \in Ended'
  <2>1. shares'[s] = shares[s] /\ ~Pending(s) /\ shares[s].ended + Retention < now
    BY <1>1, <1>3 DEF Ended
  <2> QED BY <1>3, <2>1 DEF Ended, Rows, Pending, IsRow
<1> QED BY <1>2, <1>3

\* Steps of others leave the janitor's selection and its judgement true.
LEMMA CandidatesKept ==
  ASSUME Typed, CandidatesDue, [Next]_vars,
         todo' \in SUBSET todo, phase' = phase, now' = now, due' \in SUBSET due,
         due' # {} => row' = row
  PROVE  CandidatesDue'
<1>1. now' <= clock'
  BY ClockRuns DEF CandidatesDue, Typed, TypeOK
<1>2. ASSUME NEW s \in todo'
      PROVE  /\ shares'[s] # Unborn
             /\ phase' = "orphans" /\ IsRow(s)' => s \in Orphans'
             /\ phase' = "ended" /\ IsRow(s)' => s \in Ended'
  <2>1. /\ s \in Shares /\ shares[s] # Unborn
        /\ phase = "orphans" /\ IsRow(s) => s \in Orphans
        /\ phase = "ended" /\ IsRow(s) => s \in Ended
    BY <1>2 DEF CandidatesDue, Typed, TypeOK
  <2>2. shares'[s] # Unborn /\ (IsRow(s)' => IsRow(s))
    BY <2>1, NextRowsStay DEF RowsStay
  <2> QED BY <2>1, <2>2, SelectedStay
<1>3. ASSUME NEW s \in Shares, NEW at \in due', s = row'
      PROVE  /\ shares'[s] # Unborn
             /\ phase' = "expired" /\ IsRow(s)' => shares'[s].expires <= at
  <2>1. /\ s = row /\ shares[s] # Unborn
        /\ phase = "expired" /\ IsRow(s) => shares[s].expires <= at
    BY <1>3 DEF CandidatesDue
  <2>2. /\ shares'[s] # Unborn
        /\ IsRow(s)' => IsRow(s) /\ shares'[s].expires = shares[s].expires
    BY <2>1, NextRowsStay DEF RowsStay
  <2> QED BY <2>1, <2>2
<1>4. due' # {} => row' # NoShare
  BY DEF CandidatesDue
<1> QED BY <1>1, <1>2, <1>3, <1>4 DEF CandidatesDue

\* A selection takes what the rule of its step says.
LEMMA StartDue ==
  ASSUME Typed, due = {}, NEW step, NEW ids \in SUBSET Rows, Start(step, ids),
         step = "orphans" => ids = Orphans,
         step = "ended" => ids = Ended /\ now' = now,
         now' <= clock
  PROVE  CandidatesDue'
<1>1. /\ phase' = step /\ todo' \subseteq ids /\ due' = {} /\ clock' = clock
      /\ shares' = shares /\ people' = people
  BY DEF Start, FirstOf, table
<1>2. ASSUME NEW s \in todo'
      PROVE  /\ shares'[s] # Unborn
             /\ phase' = "orphans" /\ IsRow(s)' => s \in Orphans'
             /\ phase' = "ended" /\ IsRow(s)' => s \in Ended'
  <2>1. s \in ids /\ shares[s] # Unborn
    BY <1>1, <1>2 DEF Rows, IsRow
  <2>2. Rows' = Rows /\ (Pending(s)' <=> Pending(s))
    BY <1>1 DEF Rows, IsRow, Pending
  <2>3. step = "orphans" => s \in Orphans'
    BY <1>1, <2>1, <2>2 DEF Orphans
  <2>4. step = "ended" => s \in Ended'
    BY <1>1, <2>1, <2>2 DEF Ended
  <2> QED BY <1>1, <2>1, <2>3, <2>4
<1> QED BY <1>1, <1>2 DEF CandidatesDue

\* The janitor's own steps.
LEMMA CleaningDue ==
  ASSUME Typed, CandidatesDue, Cleaning
  PROVE  CandidatesDue'
<1>1. [Next]_vars
  BY DEF Next
<1>2. row = NoShare => due = {}
  BY DEF CandidatesDue
<1>3. Expired \in SUBSET Rows /\ Ineligible \in SUBSET Rows /\ Orphans \in SUBSET Rows
      /\ Ended \in SUBSET Rows /\ {} \in SUBSET Rows
  BY DEF Expired, Ineligible, Orphans, Ended
<1>4. CASE RunJanitor
  <2>1. due = {} /\ now' = clock /\ Start("expired", Expired)
    BY <1>2, <1>4 DEF RunJanitor, Typed, JanitorInPlace
  <2>2. now' <= clock
    BY <2>1 DEF Typed, TypeOK
  <2> QED BY <1>3, <2>1, <2>2, StartDue
<1>5. CASE NextStep
  <2>1. due = {} /\ now <= clock /\ 0 <= clock
    BY <1>2, <1>5 DEF NextStep, CandidatesDue, Typed, TypeOK
  <2>2. CASE Start("cancelled", Ineligible) /\ UNCHANGED now
    BY <1>3, <2>1, <2>2, StartDue
  <2>3. CASE Start("orphans", Orphans) /\ UNCHANGED now
    BY <1>3, <2>1, <2>3, StartDue
  <2>4. CASE Start("ended", Ended) /\ UNCHANGED now
    BY <1>3, <2>1, <2>4, StartDue
  <2>5. CASE Start("idle", {}) /\ now' = 0
    BY <1>3, <2>1, <2>5, StartDue
  <2> QED BY <1>5, <2>2, <2>3, <2>4, <2>5 DEF NextStep
<1>6. CASE JanitorJudge
  <2>1. CASE StillDue(row) /\ due' = {clock} /\ UNCHANGED row
    <3>1. /\ row # NoShare /\ shares[row] # Unborn
          /\ phase = "expired" => shares[row].expires <= clock
      BY <1>6, <2>1 DEF JanitorJudge, StillDue, Pending, IsRow
    <3>2. UNCHANGED <<people, shares, clock, phase, now, todo, row>>
      BY <1>6, <2>1 DEF JanitorJudge, table
    <3>3. Orphans' = Orphans /\ Ended' = Ended
      BY <3>2 DEF Orphans, Ended, Rows, IsRow, Pending
    <3> QED BY <2>1, <3>1, <3>2, <3>3 DEF CandidatesDue, IsRow
  <2>2. CASE row' = NoShare /\ UNCHANGED due
    <3>1. due' = {} /\ todo' = todo /\ phase' = phase /\ now' = now
      BY <1>6, <2>2 DEF JanitorJudge
    <3> QED BY <1>1, <3>1, CandidatesKept
  <2> QED BY <1>6, <2>1, <2>2 DEF JanitorJudge
<1>7. CASE \E s \in Shares : JanitorLock(s)
  <2>1. todo' \in SUBSET todo /\ phase' = phase /\ now' = now /\ due' = {}
    BY <1>2, <1>7 DEF JanitorLock
  <2> QED BY <1>1, <2>1, CandidatesKept
<1>8. CASE \/ \E s \in Shares : JanitorEnd(s)
           \/ JanitorDelete \/ JanitorFails
  <2>1. /\ todo' \in SUBSET todo /\ phase' = phase /\ now' = now
        /\ due' = {} \/ (due' = due /\ row' = row)
    BY <1>8 DEF JanitorEnd, JanitorDelete, JanitorFails
  <2> QED BY <1>1, <2>1, CandidatesKept
<1>9. CASE RunFails
  <2>1. todo' = {} /\ due' = {} /\ now' = 0 /\ clock' = clock
    BY <1>2, <1>9 DEF RunFails
  <2> QED BY <2>1 DEF CandidatesDue, Typed, TypeOK
<1> QED
  BY <1>4, <1>5, <1>6, <1>7, <1>8, <1>9 DEF Cleaning

\* Candidates stay due, whoever moves.
LEMMA NextCandidates ==
  ASSUME Typed, CandidatesDue, [Next]_vars
  PROVE  CandidatesDue'
<1>1. CASE UNCHANGED janitor
  BY <1>1, CandidatesKept DEF janitor
<1>2. ASSUME NEW w \in Sessions, Asking(w) \/ Serving(w) PROVE UNCHANGED janitor
  BY <1>2 DEF Asking, AskCreate, AskReveal, AskRevoke, Ask, Serving, LockDirectory, LockPeople,
     JudgeCreate, JudgeCaller, LockShare, JudgeReveal, JudgeRevoke, Decide, CommitCreate,
     CommitEnd, Rollback, Answer, AnswerBusy
<1>3. ASSUME NEW k \in Keys, Restart(k) PROVE CandidatesDue'
  BY <1>3 DEF Restart, CandidatesDue, Typed, TypeOK
<1>4. CASE Around
  BY <1>1, <1>3, <1>4 DEF Around, ChangeAccount, DeleteAccount, Anonymise, DropNotice, Tick
<1> QED BY <1>1, <1>2, <1>4, CleaningDue DEF Next, vars

\* A session with a request had it before, has just asked, or was judged.
LEMMA RequestMoves ==
  ASSUME Typed, [Next]_vars, NEW w \in Sessions, pc'[w] # "idle"
  PROVE  \/ pc[w] # "idle" /\ request'[w] = request[w]
         \/ Asking(w) \/ JudgeCreate(w) \/ JudgeReveal(w) \/ JudgeRevoke(w)
<1>1. ASSUME NEW v \in Sessions, v # w, Asking(v) \/ Serving(v)
      PROVE  pc'[w] = pc[w] /\ request'[w] = request[w]
  <2>1. /\ \E place : pc' = [pc EXCEPT ![v] = place]
        /\ request' = request \/ \E asked : request' = [request EXCEPT ![v] = asked]
    BY <1>1 DEF Asking, AskCreate, AskReveal, AskRevoke, Ask, Serving, LockDirectory, LockPeople,
       JudgeCreate, JudgeCaller, LockShare, JudgeReveal, JudgeRevoke, Decide, CommitCreate,
       CommitEnd, Rollback, Answer, AnswerBusy, Go
  <2> QED BY <1>1, <2>1 DEF Typed, TypeOK
<1>2. ASSUME \/ LockDirectory(w) \/ LockPeople(w) \/ JudgeCaller(w) \/ LockShare(w)
             \/ (\E s \in Shares : CommitCreate(w, s)) \/ CommitEnd(w)
      PROVE  pc[w] # "idle" /\ request'[w] = request[w]
  BY <1>2 DEF LockDirectory, LockPeople, JudgeCaller, LockShare, CommitCreate, CommitEnd
<1>3. ASSUME Rollback(w) \/ Answer(w) \/ AnswerBusy(w) PROVE FALSE
  BY <1>3 DEF Rollback, Answer, AnswerBusy, Go, Typed, TypeOK
<1>4. CASE Cleaning
  BY <1>4 DEF Cleaning, RunJanitor, NextStep, Start, JanitorJudge, JanitorDelete, JanitorFails,
     RunFails, JanitorLock, JanitorEnd
<1>5. CASE Around
  BY <1>5 DEF Around, ChangeAccount, DeleteAccount, Anonymise, DropNotice, Tick, Restart
<1>6. CASE UNCHANGED vars
  BY <1>6 DEF vars
<1> QED BY <1>1, <1>2, <1>3, <1>4, <1>5, <1>6 DEF Next, Serving

\* A reveal that is judged in time stays so: the expiry does not move.
LEMMA NextInTime ==
  ASSUME Typed, RequestsInTime, [Next]_vars
  PROVE  RequestsInTime'
<1> DEFINE InTime(w, s) ==
      /\ request[w].verdict # "expired"
      /\ request[w].verdict = "retrieved" /\ IsRow(s) => request[w].at < shares[s].expires
<1> SUFFICES ASSUME NEW w \in Sessions, pc'[w] # "idle", NEW s, s = request'[w].share
             PROVE  InTime(w, s)'
  BY DEF RequestsInTime
<1>1. CASE pc[w] # "idle" /\ request'[w] = request[w]
  <2>1. InTime(w, s)
    BY <1>1 DEF RequestsInTime
  <2>2. request[w].verdict = "retrieved" => s \in Shares /\ shares[s] # Unborn
    BY <1>1 DEF Typed, RequestsMatch, NamesItsShare
  <2>3. request[w].verdict = "retrieved" /\ IsRow(s)'
          => IsRow(s) /\ shares'[s].expires = shares[s].expires
    BY <2>2, NextRowsStay DEF RowsStay
  <2> QED BY <1>1, <2>1, <2>3
<1>2. ASSUME request'[w].verdict \notin {"expired", "retrieved"} PROVE InTime(w, s)'
  BY <1>2
<1>3. CASE Asking(w)
  <2>1. request'[w].verdict = "none"
    BY <1>3 DEF Asking, AskCreate, AskReveal, AskRevoke, Ask, Typed, TypeOK
  <2> QED BY <1>2, <2>1
<1>4. CASE JudgeCreate(w)
  <2>1. /\ pc[w] = "caller" /\ request[w] \in Request
        /\ request' = [request EXCEPT ![w].at = clock]
    BY <1>4, RequestType DEF JudgeCreate
  <2>2. request'[w].verdict = request[w].verdict
    BY <2>1 DEF Request, Typed, TypeOK
  <2> QED BY <1>2, <2>1, <2>2 DEF Typed, RequestsMatch, RequestsInTime
<1>5. CASE JudgeRevoke(w)
  <2>1. /\ request[w] \in Request
        /\ request' = [request EXCEPT ![w].at = clock, ![w].verdict = "revoked"]
    BY <1>5, RequestType DEF JudgeRevoke, Decide
  <2>2. request'[w].verdict = "revoked"
    BY <2>1 DEF Request, Typed, TypeOK
  <2> QED BY <1>2, <2>2
<1>6. CASE JudgeReveal(w)
  <2> DEFINE t == request[w].share
  <2>1. /\ pc[w] = "reading" /\ request[w] \in Request
        /\ shares[t].expires > clock /\ IsRow(t) /\ shares' = shares
    BY <1>6, RequestType DEF JudgeReveal, Decide, Pending, table
  <2>2. PICK verdict \in {"retrieved", "cancelled"} :
          request' = [request EXCEPT ![w].at = clock, ![w].verdict = verdict]
    BY <1>6 DEF JudgeReveal, Decide
  <2>3. /\ request'[w].at = clock /\ request'[w].share = t
        /\ request'[w].verdict = verdict
    BY <2>1, <2>2 DEF Request, Typed, TypeOK
  <2>4. t \in Shares
    BY <2>1 DEF Typed, RequestsMatch, NamesItsShare
  <2>5. shares[t].expires \in Nat /\ clock \in Nat
    BY <2>1, <2>4, RowType DEF Share, Typed, TypeOK
  <2> QED BY <2>1, <2>3, <2>5
<1> QED BY <1>1, <1>3, <1>4, <1>5, <1>6, RequestMoves

-----------------------------------------------------------------------------

\* The inductive invariant holds in the first state ...
LEMMA InitGuarded == Init => Guarded
<1> SUFFICES ASSUME Init PROVE Guarded
  OBVIOUS
<1>1. OneDirectoryHolder /\ RowHeldOnce /\ StillJudged
  BY DEF Init, OneDirectoryHolder, HoldsDirectory, RowHeldOnce, HoldsShare, StillJudged, Judged
<1>2. TakenOnRecord
  BY DEF Init, TakenOnRecord, Took
<1>3. ErasedBlocked
  BY DEF Init, ErasedBlocked
<1>4. NothingOutlivesPending /\ ErasedLeaveNothing
  BY DEF Init, NothingOutlivesPending, ErasedLeaveNothing, Rows, IsRow
<1>6. CandidatesDue /\ RequestsInTime
  BY DEF Init, CandidatesDue, RequestsInTime
<1>5. TypeOK /\ RequestsMatch /\ JanitorInPlace
  BY InitTyped DEF Typed
<1> QED BY <1>1, <1>2, <1>3, <1>4, <1>5, <1>6 DEF Guarded

\* ... and every step keeps it.
LEMMA NextGuarded == Typed /\ Guarded /\ [Next]_vars => Guarded'
<1> SUFFICES ASSUME Typed, Guarded, [Next]_vars PROVE Guarded'
  OBVIOUS
<1>1. Typed'
  BY NextTyped
<1>2. Locks' /\ StillJudged'
  BY <1>1, NextLocks, NextJudged DEF Guarded, Locks
<1>3. TakenOnRecord' /\ Clean'
  BY NextTaken, NextClean DEF Guarded, Clean
<1>4. Timely'
  BY NextCandidates, NextInTime DEF Guarded, Timely
<1> QED BY <1>1, <1>2, <1>3, <1>4 DEF Guarded, Typed, Locks, Clean, Timely

\* What the requests, the janitor and the account changes hold to between
\* their steps, whatever is interleaved, lost or restarted.
THEOREM SecretsGuarded == Spec => []Guarded
<1>1. Spec => [](Typed /\ Guarded)
  BY InitTyped, NextTyped, InitGuarded, NextGuarded, PTL DEF Spec
<1> QED BY <1>1, PTL

\* revealShare: a text is handed out at most once, and then the share is on
\* record as retrieved, or its row is gone.
THEOREM SecretsReadOnce == Spec => []ReadOnce
<1>1. Guarded => ReadOnce
  BY DEF Guarded, TakenOnRecord, OnRecord, ReadOnce
<1> QED BY <1>1, SecretsGuarded, PTL

\* endShare and deleteShares: the sealed text and the notification go with
\* the pending state.
THEOREM NothingLeftBehind == Spec => []NothingOutlivesPending
<1>1. Guarded => NothingOutlivesPending
  BY DEF Guarded
<1> QED BY <1>1, SecretsGuarded, PTL

\* Anonymisation: no row is left of an erased person, and none comes into
\* being, whatever requests were under way.
THEOREM ErasedAreGone == Spec => []ErasedLeaveNothing
<1>1. Guarded => ErasedLeaveNothing
  BY DEF Guarded
<1> QED BY <1>1, SecretsGuarded, PTL

-----------------------------------------------------------------------------
(***************************************************************************)
(* Who may open a share may do so at the COMMIT.                           *)
(***************************************************************************)

\* A share begins with the COMMIT of a request that was judged.
LEMMA BornJudged ==
  ASSUME Typed, StillJudged, [Next]_vars, NEW s \in Shares, shares[s] = Unborn,
         shares'[s] # Unborn
  PROVE  CanSend(shares'[s].from) /\ CanReceive(shares'[s].to)
<1>1. PICK w \in Sessions, t \in Shares : CommitCreate(w, t)
  <2>1. ASSUME NEW t \in Shares, NEW to, NEW at, EndShare(t, to, at) PROVE FALSE
    BY <2>1 DEF EndShare, Pending, IsRow, Typed, TypeOK
  <2>2. ASSUME NEW w \in Sessions, CommitEnd(w) PROVE FALSE
    <3>1. request[w].share \in Shares
      BY <2>2 DEF CommitEnd, Typed, RequestsMatch, NamesItsShare
    <3> QED BY <2>1, <2>2, <3>1 DEF CommitEnd
  <2>3. ASSUME NEW t \in Shares, JanitorEnd(t) PROVE FALSE
    BY <2>1, <2>3 DEF JanitorEnd
  <2>4. ASSUME NEW gone \in SUBSET Rows, DeleteShares(gone) PROVE FALSE
    BY <2>4 DEF DeleteShares, Rows, IsRow
  <2> QED BY <2>2, <2>3, <2>4, TableSteps
<1>2. t = s
  BY <1>1 DEF CommitCreate, Typed, TypeOK
<1>3. shares'[s].from = request[w].caller /\ shares'[s].to = request[w].peer
  BY <1>1, <1>2 DEF CommitCreate, Typed, TypeOK
<1>4. CanSend(request[w].caller) /\ CanReceive(request[w].peer)
  BY <1>1 DEF CommitCreate, StillJudged, Judged
<1> QED BY <1>3, <1>4

\* A share becomes a retrieved one by the COMMIT of a reveal that was judged.
LEMMA RetrievedJudged ==
  ASSUME Typed, StillJudged, [Next]_vars, NEW s \in Shares, Pending(s), IsRow(s)',
         shares'[s].state = "retrieved"
  PROVE  Eligible(shares[s].from) /\ CanReceive(shares[s].to)
<1>1. shares[s] \in Share /\ shares[s].state = "pending"
  BY RowType DEF Pending, Typed
<1>2. shares'[s] # shares[s]
  BY <1>1
<1>3. ASSUME NEW t \in Shares, NEW to, NEW at, EndShare(t, to, at)
      PROVE  t = s /\ to = "retrieved"
  <2>1. t = s
    BY <1>2, <1>3 DEF EndShare, Typed, TypeOK
  <2>2. shares'[s] = [shares[s] EXCEPT !.state = to, !.envelope = NoEnvelope, !.ended = at]
    BY <1>3, <2>1 DEF EndShare, Typed, TypeOK
  <2>3. shares'[s].state = to
    BY <1>1, <2>2 DEF Share
  <2> QED BY <2>1, <2>3
<1>4. PICK w \in Sessions : CommitEnd(w)
  <2>1. ASSUME NEW v \in Sessions, NEW t \in Shares, CommitCreate(v, t) PROVE FALSE
    BY <1>1, <1>2, <2>1 DEF CommitCreate, Pending, IsRow, Typed, TypeOK
  <2>2. ASSUME NEW t \in Shares, JanitorEnd(t) PROVE FALSE
    <3>1. t \in Shares /\ phase \in {"expired", "cancelled"}
      BY <2>2, IdsAssumption DEF JanitorEnd, Typed, TypeOK, JanitorInPlace
    <3> QED BY <1>3, <2>2, <3>1 DEF JanitorEnd
  <2>3. ASSUME NEW gone \in SUBSET Rows, DeleteShares(gone) PROVE FALSE
    BY <1>2, <2>3 DEF DeleteShares, IsRow
  <2> QED BY <1>2, <2>1, <2>2, <2>3, TableSteps
<1>5. /\ pc[w] = "writing" /\ request[w].op # "create" /\ request[w].share \in Shares
      /\ EndShare(request[w].share, request[w].verdict, request[w].at)
  BY <1>4 DEF CommitEnd, Typed, RequestsMatch, NamesItsShare
<1>6. request[w].share = s /\ request[w].verdict = "retrieved"
  BY <1>3, <1>5
<1>7. request[w].op = "reveal"
  BY <1>5, <1>6 DEF Typed, RequestsMatch
<1>8. CanReceive(request[w].caller) /\ Eligible(request[w].peer)
  BY <1>5, <1>7 DEF StillJudged, Judged
<1>9. shares[s].to = request[w].caller /\ shares[s].from = request[w].peer
  BY <1>5, <1>6, <1>7 DEF Typed, RequestsMatch, NamesItsShare, Pending
<1> QED BY <1>8, <1>9

\* assertFreshCaller and the eligibility rules: what a request judged holds
\* in the very state its COMMIT takes effect in.
THEOREM PeopleStillMayCommit == Spec => PeopleStillMay
<1> DEFINE Fresh == \A w \in Sessions :
                      (pc[w] = "writing" /\ pc'[w] = "committed") => FreshCaller(w)
<1>1. StillJudged => Fresh
  BY DEF StillJudged, Judged
<1>2. Typed /\ Guarded /\ [Next]_vars =>
        /\ \A s \in Shares :
             (shares[s] = Unborn /\ shares'[s] # Unborn)
               => CanSend(shares'[s].from) /\ CanReceive(shares'[s].to)
        /\ \A s \in Shares :
             (Pending(s) /\ IsRow(s)' /\ shares'[s].state = "retrieved")
               => Eligible(shares[s].from) /\ CanReceive(shares[s].to)
        /\ Fresh
  BY <1>1, BornJudged, RetrievedJudged DEF Guarded
<1>3. Spec => [](Typed /\ Guarded)
  BY InitTyped, NextTyped, InitGuarded, NextGuarded, PTL DEF Spec
<1> QED BY <1>2, <1>3, PTL DEF Spec, PeopleStillMay

-----------------------------------------------------------------------------
(***************************************************************************)
(* A share ends, and its row goes, when it is due.                         *)
(***************************************************************************)

\* A text is taken before its expiry, and a share expires after it.
LEMMA EndsDue ==
  ASSUME Typed, Timely, [Next]_vars, NEW s \in Shares, Pending(s), IsRow(s)'
  PROVE  /\ shares'[s].state = "retrieved" => shares'[s].ended < shares[s].expires
         /\ shares'[s].state = "expired" => shares[s].expires <= shares'[s].ended
<1>1. IsRow(s) /\ shares[s].state = "pending"
  BY DEF Pending
<1>2. CASE shares'[s] = shares[s]
  BY <1>1, <1>2
<1>3. ASSUME NEW w \in Sessions, NEW t \in Shares, CommitCreate(w, t)
      PROVE  shares'[s] = shares[s]
  BY <1>1, <1>3 DEF CommitCreate, IsRow, Typed, TypeOK
<1>4. ASSUME NEW w \in Sessions, CommitEnd(w), shares'[s] # shares[s]
      PROVE  /\ shares'[s].state = "retrieved" => shares'[s].ended < shares[s].expires
             /\ shares'[s].state # "expired"
  <2>1. pc[w] = "writing" /\ request[w].op # "create"
        /\ EndShare(request[w].share, request[w].verdict, request[w].at)
    BY <1>4 DEF CommitEnd
  <2>2. request[w].share \in Shares /\ request[w].verdict \in Ends /\ request[w].at \in Nat
    BY <2>1, RequestType DEF Typed, RequestsMatch, NamesItsShare, Request
  <2>3. /\ request[w].share = s
        /\ shares'[s].state = request[w].verdict /\ shares'[s].ended = request[w].at
    BY <1>4, <2>1, <2>2, EndShareStays DEF Typed
  <2> QED BY <1>1, <2>1, <2>3 DEF Timely, RequestsInTime
<1>5. ASSUME NEW t \in Shares, JanitorEnd(t), shares'[s] # shares[s]
      PROVE  /\ shares'[s].state # "retrieved"
             /\ shares'[s].state = "expired" => shares[s].expires <= shares'[s].ended
  <2>1. PICK at \in due : EndShare(t, phase, at)
    BY <1>5 DEF JanitorEnd
  <2>2. at \in Nat /\ phase \in {"expired", "cancelled"} /\ row = t
    BY <1>5, IdsAssumption DEF JanitorEnd, Typed, TypeOK, JanitorInPlace
  <2>3. t = s /\ shares'[s].state = phase /\ shares'[s].ended = at
    BY <1>5, <2>1, <2>2, EndShareStays DEF Typed, Ends
  <2>4. phase = "expired" => shares[s].expires <= at
    BY <1>1, <2>2, <2>3 DEF Timely, CandidatesDue
  <2> QED BY <2>2, <2>3, <2>4
<1>6. ASSUME NEW gone \in SUBSET Rows, DeleteShares(gone)
      PROVE  shares'[s] = shares[s]
  BY <1>6 DEF DeleteShares, IsRow
<1> QED BY <1>2, <1>3, <1>4, <1>5, <1>6, TableSteps

\* Who deletes rows: the janitor in its last two steps, and an anonymisation.
LEMMA DeletesDue ==
  ASSUME Typed, Timely, [Next]_vars, NEW s \in Rows, shares'[s] = Deleted
  PROVE  \/ NoPerson \in {people[shares[s].from], people[shares[s].to]}
         \/ ~Pending(s) /\ shares[s].ended + Retention < clock
         \/ \E p \in {shares[s].from, shares[s].to} :
              people'[p] # NoPerson /\ people'[p].erased
<1>1. s \in Shares /\ IsRow(s) /\ shares[s] \in Share /\ shares'[s] # shares[s]
  BY RowType DEF Rows, IsRow, Typed
<1>2. CASE JanitorDelete
  <2>1. s \in todo /\ phase \in {"orphans", "ended"}
    BY <1>1, <1>2 DEF JanitorDelete, DeleteShares
  <2>2. s \in Orphans \/ s \in Ended
    BY <1>1, <2>1 DEF Timely, CandidatesDue
  <2>3. s \in Ended => ~Pending(s) /\ shares[s].ended + Retention < clock
    BY <1>1, NumbersAssumption DEF Ended, Timely, CandidatesDue, Share, Typed, TypeOK
  <2> QED BY <2>2, <2>3 DEF Orphans
<1>3. ASSUME NEW p \in Volatile, Anonymise(p)
      PROVE  \E q \in {shares[s].from, shares[s].to} :
               people'[q] # NoPerson /\ people'[q].erased
  <2>1. s \in SharesOf(p)
    BY <1>1, <1>3 DEF Anonymise, DeleteShares
  <2>2. people[p] \in Person
    BY <1>3, AccountType, PeopleAssumption DEF Anonymise, Typed
  <2>3. people'[p] = [people[p] EXCEPT !.erased = TRUE]
    BY <1>3, PeopleAssumption DEF Anonymise, Typed, TypeOK
  <2>4. people'[p] \in Person /\ people'[p].erased
    BY <2>2, <2>3 DEF Person
  <2> QED BY <2>1, <2>4, SecretNullsAssumption DEF SharesOf
<1>4. ASSUME NEW w \in Sessions, NEW t \in Shares, CommitCreate(w, t) PROVE FALSE
  BY <1>1, <1>4 DEF CommitCreate, IsRow, Typed, TypeOK
<1>5. ASSUME NEW t \in Shares, NEW to \in Ends, NEW at \in Nat, EndShare(t, to, at) PROVE FALSE
  <2>1. TableType' /\ RowsStay
    BY <1>5, EndShareTyped, EndShareStays DEF Typed
  <2>2. t = s
    BY <1>1, <1>5, EndShareStays DEF Typed
  <2>3. shares'[s] = [shares[s] EXCEPT !.state = to, !.envelope = NoEnvelope, !.ended = at]
    BY <1>1, <1>5, <2>2 DEF EndShare, Typed, TypeOK
  <2>4. shares'[s] \in Share
    BY <1>1, <2>3 DEF Share, States
  <2> QED BY <2>4, SecretNullsAssumption
<1>6. ASSUME NEW w \in Sessions, CommitEnd(w) PROVE FALSE
  <2>1. pc[w] = "writing" /\ request[w].op # "create"
    BY <1>6 DEF CommitEnd
  <2>2. request[w].share \in Shares /\ request[w].verdict \in Ends /\ request[w].at \in Nat
    BY <2>1, RequestType DEF Typed, RequestsMatch, NamesItsShare, Request
  <2> QED BY <1>5, <1>6, <2>2 DEF CommitEnd
<1>7. ASSUME NEW t \in Shares, JanitorEnd(t) PROVE FALSE
  <2>1. PICK at \in due : EndShare(t, phase, at)
    BY <1>7 DEF JanitorEnd
  <2>2. at \in Nat /\ phase \in Ends
    BY <1>7, IdsAssumption DEF JanitorEnd, Typed, TypeOK, JanitorInPlace, Ends
  <2> QED BY <1>5, <2>1, <2>2
<1>8. JanitorDelete \/ \E p \in Volatile : Anonymise(p)
  <2>1. ~UNCHANGED shares
    BY <1>1
  <2>2. ASSUME NEW w \in Sessions, Asking(w) \/ Serving(w) PROVE FALSE
    BY <1>4, <1>6, <2>1, <2>2 DEF Asking, AskCreate, AskReveal, AskRevoke, Ask, Serving,
       LockDirectory, LockPeople, JudgeCreate, JudgeCaller, LockShare, JudgeReveal, JudgeRevoke,
       Decide, Rollback, Answer, AnswerBusy, table
  <2>3. CASE Cleaning
    BY <1>7, <2>1, <2>3 DEF Cleaning, RunJanitor, NextStep, Start, JanitorJudge, JanitorFails,
       RunFails, JanitorLock, table
  <2>4. CASE Around
    BY <2>1, <2>4 DEF Around, ChangeAccount, DeleteAccount, DropNotice, Tick, Restart, table
  <2> QED BY <2>1, <2>2, <2>3, <2>4 DEF Next, vars, table
<1> QED BY <1>2, <1>3, <1>8

\* The times a share's end tells are right, and the janitor deletes no row
\* that is not due, although it selects and deletes in two steps.
THEOREM SharesEndWhenDue == Spec => EndsAndDeletionsDue
<1>1. Typed /\ Guarded /\ [Next]_vars =>
        /\ \A s \in Shares :
             Pending(s) /\ IsRow(s)' =>
               /\ shares'[s].state = "retrieved" => shares'[s].ended < shares[s].expires
               /\ shares'[s].state = "expired" => shares[s].expires <= shares'[s].ended
        /\ \A s \in Rows :
             shares'[s] = Deleted =>
               \/ NoPerson \in {people[shares[s].from], people[shares[s].to]}
               \/ ~Pending(s) /\ shares[s].ended + Retention < clock
               \/ \E p \in {shares[s].from, shares[s].to} :
                    people'[p] # NoPerson /\ people'[p].erased
  BY EndsDue, DeletesDue DEF Guarded, Timely
<1>2. Spec => [](Typed /\ Guarded)
  BY InitTyped, NextTyped, InitGuarded, NextGuarded, PTL DEF Spec
<1> QED BY <1>1, <1>2, PTL DEF Spec, EndsAndDeletionsDue

-----------------------------------------------------------------------------
(***************************************************************************)
(* The secret shares implement a secret that is read once.                 *)
(***************************************************************************)

Good == Typed /\ Guarded

\* The fate of a share, by the one thing that decides it.
Fated ==
  \A s \in Shares :
    /\ shares[s] = Unborn => Fate(s) = "unborn"
    /\ Pending(s) => Fate(s) = "held" /\ reads[s] = 0 /\ ~InHand(s)
    /\ InHand(s) => Fate(s) = "taken" /\ reads[s] = 0 /\ ~Pending(s) /\ shares[s] # Unborn
    /\ reads[s] = 1 => Fate(s) = "read" /\ ~InHand(s) /\ ~Pending(s) /\ shares[s] # Unborn
    /\ (shares[s] # Unborn /\ ~Pending(s) /\ ~InHand(s) /\ reads[s] # 1) => Fate(s) = "gone"

LEMMA FateIs == Good => Fated
<1> SUFFICES ASSUME Good PROVE Fated
  OBVIOUS
<1> SUFFICES ASSUME NEW s \in Shares
             PROVE  /\ shares[s] = Unborn => Fate(s) = "unborn"
                    /\ Pending(s) => Fate(s) = "held" /\ reads[s] = 0 /\ ~InHand(s)
                    /\ InHand(s) => /\ Fate(s) = "taken" /\ reads[s] = 0
                                    /\ ~Pending(s) /\ shares[s] # Unborn
                    /\ reads[s] = 1 => /\ Fate(s) = "read" /\ ~InHand(s)
                                       /\ ~Pending(s) /\ shares[s] # Unborn
                    /\ (shares[s] # Unborn /\ ~Pending(s) /\ ~InHand(s) /\ reads[s] # 1)
                         => Fate(s) = "gone"
  BY DEF Fated
<1>1. reads[s] \in {0, 1} /\ (reads[s] = 1 => OnRecord(s))
  BY DEF Good, Guarded, TakenOnRecord
<1>2. InHand(s) => OnRecord(s) /\ reads[s] = 0
  BY DEF Good, Guarded, TakenOnRecord, InHand
<1>3. OnRecord(s) => ~Pending(s) /\ shares[s] # Unborn
  BY SecretNullsAssumption DEF OnRecord, Pending, IsRow
<1>4. Pending(s) => shares[s] # Unborn
  BY DEF Pending, IsRow
<1> QED BY <1>1, <1>2, <1>3, <1>4 DEF Fate

\* And so after a step.
LEMMA FateBecomes == Good' => Fated'
BY FateIs, PTL

\* A step that moves one secret on.
LEMMA Becomes ==
  ASSUME NEW s \in Shares, NEW a, NEW b, Fate(s) = a, Fate(s)' = b,
         \A t \in Shares \ {s} : Fate(t)' = Fate(t)
  PROVE  Secret!Become(s, a, b)
<1> DEFINE Fates == [t \in Shares |-> Fate(t)]
<1>1. Fates[s] = a
  OBVIOUS
<1>2. Fates' = [Fates EXCEPT ![s] = b]
  OBVIOUS
<1> QED BY <1>1, <1>2 DEF Secret!Become

\* A step that loses some, or does nothing to any.
LEMMA Loses ==
  ASSUME \A s \in Shares :
           Fate(s)' = Fate(s) \/ (Fate(s) \in {"held", "taken"} /\ Fate(s)' = "gone")
  PROVE  Secret!Next \/ UNCHANGED [s \in Shares |-> Fate(s)]
<1> DEFINE Fates == [t \in Shares |-> Fate(t)]
           lost == {s \in Shares : Fate(s)' # Fate(s)}
<1>1. CASE lost = {}
  BY <1>1
<1>2. CASE lost # {}
  <2>1. \A s \in lost : Fates[s] \in {"held", "taken"}
    OBVIOUS
  <2>2. Fates' = [s \in Shares |-> IF s \in lost THEN "gone" ELSE Fates[s]]
    OBVIOUS
  <2>3. Secret!Lose(lost)
    BY <2>1, <2>2 DEF Secret!Lose
  <2>4. lost \in (SUBSET Shares) \ {{}}
    BY <1>2
  <2> QED BY <2>3, <2>4 DEF Secret!Next
<1> QED BY <1>1, <1>2

\* No new hand, no text handed out, and rows only end: some are lost.
LEMMA RowsEnd ==
  ASSUME Good, Good', reads' = reads, \A s \in Shares : InHand(s)' => InHand(s),
         \A s \in Shares : shares'[s] = shares[s]
                           \/ (IsRow(s) /\ shares'[s] # Unborn /\ ~Pending(s)')
  PROVE  Secret!Next \/ UNCHANGED [s \in Shares |-> Fate(s)]
<1>1. ASSUME NEW s \in Shares
      PROVE  Fate(s)' = Fate(s) \/ (Fate(s) \in {"held", "taken"} /\ Fate(s)' = "gone")
  <2>1. /\ shares'[s] = Unborn => Fate(s)' = "unborn"
        /\ Pending(s)' => Fate(s)' = "held"
        /\ InHand(s)' => Fate(s)' = "taken"
        /\ reads'[s] = 1 => Fate(s)' = "read"
        /\ (shares'[s] # Unborn /\ ~Pending(s)' /\ ~InHand(s)' /\ reads'[s] # 1)
             => Fate(s)' = "gone"
    BY FateBecomes DEF Fated
  <2>2. shares'[s] = shares[s] => (Pending(s)' <=> Pending(s))
    BY DEF Pending, IsRow
  <2>3. IsRow(s) => shares[s] # Unborn
    BY DEF IsRow
  <2> QED BY <2>1, <2>2, <2>3, FateIs DEF Fated
<1> QED BY <1>1, Loses

\* A share that ends is still a row, and not a pending one.
LEMMA EndsRow ==
  ASSUME TypeOK, NEW s \in Shares, NEW to \in Ends, NEW at \in Nat,
         EndShare(s, to, at)
  PROVE  IsRow(s) /\ shares'[s] # Unborn /\ ~Pending(s)'
<1>1. shares[s] \in Share /\ IsRow(s)
  BY RowType DEF EndShare, Pending
<1>2. shares'[s] = [shares[s] EXCEPT !.state = to, !.envelope = NoEnvelope, !.ended = at]
  BY DEF EndShare, TypeOK
<1>3. shares'[s].state = to
  BY <1>1, <1>2 DEF Share
<1>4. ~Pending(s)'
  BY <1>3 DEF Ends, Pending
<1>5. PartiesKept
  BY EndShareTyped
<1> QED BY <1>1, <1>4, <1>5 DEF PartiesKept, IsRow

\* Only the COMMIT of a reveal puts a text in somebody's hand.
LEMMA HandsKept ==
  ASSUME \A w \in Sessions : Took(w)' => Took(w) /\ request'[w].share = request[w].share
  PROVE  \A s \in Shares : InHand(s)' => InHand(s)
BY DEF InHand

\* The COMMIT of a create holds a secret.
LEMMA CommitCreateHolds ==
  ASSUME Good, Good', NEW w \in Sessions, NEW s \in Shares, CommitCreate(w, s)
  PROVE  Secret!Next
<1>1. /\ shares[s] = Unborn /\ Pending(s)'
      /\ \A t \in Shares \ {s} : shares'[t] = shares[t]
  <2> DEFINE new == [from |-> request[w].caller, to |-> request[w].peer,
                     created |-> request[w].at, expires |-> request[w].at + request[w].life,
                     state |-> "pending", envelope |-> key, ended |-> 0]
  <2>1. shares[s] = Unborn /\ shares' = [shares EXCEPT ![s] = new]
    BY DEF CommitCreate
  <2>2. request[w] \in Request
    BY RequestType DEF CommitCreate, Good
  <2>3. new \in Share
    BY <2>2 DEF Request, Share, States, Good, Typed, TypeOK
  <2>4. new \notin {Unborn, Deleted} /\ new.state = "pending"
    BY <2>3, SecretNullsAssumption
  <2> HIDE DEF new
  <2> QED BY <2>1, <2>4 DEF Pending, IsRow, Good, Typed, TypeOK
<1>2. reads' = reads /\ request' = request /\ request[w].verdict # "retrieved"
  BY DEF CommitCreate, Good, Typed, RequestsMatch
<1>3. \A v \in Sessions : Took(v)' <=> Took(v)
  BY <1>2 DEF CommitCreate, Go, Took, Good, Typed, TypeOK
<1>4. \A t \in Shares : InHand(t)' <=> InHand(t)
  BY <1>2, <1>3 DEF InHand
<1>5. \A t \in Shares \ {s} : Fate(t)' = Fate(t)
  BY <1>1, <1>2, <1>4 DEF Fate, Pending, IsRow
<1>6. Fate(s) = "unborn" /\ Fate(s)' = "held"
  BY <1>1, FateIs, FateBecomes DEF Fated
<1>7. Secret!Hold(s)
  BY <1>5, <1>6, Becomes DEF Secret!Hold
<1> QED BY <1>7 DEF Secret!Next

\* The COMMIT of a reveal takes one, any other end of a share loses it.
LEMMA CommitEndTakes ==
  ASSUME Good, Good', NEW w \in Sessions, CommitEnd(w)
  PROVE  Secret!Next \/ UNCHANGED [s \in Shares |-> Fate(s)]
<1> DEFINE s == request[w].share
<1>1. /\ pc[w] = "writing" /\ s \in Shares /\ request' = request /\ reads' = reads
      /\ request[w].verdict \in Ends
      /\ EndShare(s, request[w].verdict, request[w].at)
  BY DEF CommitEnd, Good, Typed, RequestsMatch, NamesItsShare
<1>2. pc'[w] = "committed" /\ \A v \in Sessions \ {w} : pc'[v] = pc[v]
  BY DEF CommitEnd, Go, Good, Typed, TypeOK
<1>3. Pending(s) /\ \A t \in Shares \ {s} : shares'[t] = shares[t]
  BY <1>1 DEF EndShare, Good, Typed, TypeOK
<1>4. IsRow(s) /\ shares'[s] # Unborn /\ ~Pending(s)'
  <2>1. request[w].at \in Nat
    BY <1>1, RequestType DEF Request, Good
  <2> QED BY <1>1, <2>1, EndsRow DEF Good, Typed
<1>5. CASE request[w].verdict # "retrieved"
  <2>1. \A v \in Sessions : Took(v)' => Took(v)
    BY <1>1, <1>2, <1>5 DEF Took
  <2>2. \A t \in Shares : InHand(t)' => InHand(t)
    BY <1>1, <2>1, HandsKept
  <2> QED BY <1>1, <1>3, <1>4, <2>2, RowsEnd
<1>6. CASE request[w].verdict = "retrieved"
  <2>1. Took(w)' /\ ~Took(w) /\ \A v \in Sessions \ {w} : Took(v)' <=> Took(v)
    BY <1>1, <1>2, <1>6 DEF Took
  <2>2. InHand(s)' /\ \A t \in Shares \ {s} : InHand(t)' <=> InHand(t)
    BY <1>1, <2>1 DEF InHand
  <2>3. \A t \in Shares \ {s} : Fate(t)' = Fate(t)
    BY <1>1, <1>3, <2>2 DEF Fate, Pending, IsRow
  <2>4. Fate(s) = "held" /\ Fate(s)' = "taken"
    BY <1>1, <1>3, <2>2, FateIs, FateBecomes DEF Fated
  <2>5. Secret!Take(s)
    BY <1>1, <2>3, <2>4, Becomes DEF Secret!Take
  <2> QED BY <1>1, <2>5 DEF Secret!Next
<1> QED BY <1>5, <1>6

\* An answer with a text reads the one in hand.
LEMMA AnswerReads ==
  ASSUME Good, Good', NEW w \in Sessions, Answer(w)
  PROVE  Secret!Next \/ UNCHANGED [s \in Shares |-> Fate(s)]
<1>1. shares' = shares /\ pc[w] = "committed" /\ pc'[w] = "idle"
  BY DEF Answer, Confirmed, table, Go, Good, Typed, TypeOK
<1>2. ~Took(w)' /\ \A v \in Sessions \ {w} : /\ Took(v)' <=> Took(v)
                                             /\ request'[v] = request[v]
  BY <1>1 DEF Answer, Go, Good, Typed, TypeOK, Took
<1>3. CASE request[w].verdict # "retrieved"
  <2>1. reads' = reads
    BY <1>3 DEF Answer
  <2> QED BY <1>1, <1>2, <2>1, HandsKept, RowsEnd
<1>4. CASE request[w].verdict = "retrieved"
  <2> PICK s \in Shares : s = request[w].share
    BY <1>1, <1>4, TookShare DEF Took, Good
  <2>1. Took(w)
    BY <1>1, <1>4 DEF Took
  <2>2. InHand(s) /\ \A v \in Sessions \ {w} : Took(v) => request[v].share # s
    BY <2>1 DEF InHand, Good, Guarded, TakenOnRecord
  <2>3. reads[s] = 0
    BY <2>1, <2>2, FateIs DEF Fated
  <2>4. reads'[s] = 1 /\ \A t \in Shares \ {s} : reads'[t] = reads[t]
    BY <1>4, <2>1, <2>3 DEF Answer, Good, Typed, TypeOK
  <2>5. \A t \in Shares \ {s} : InHand(t)' <=> InHand(t)
    BY <1>2, <2>1 DEF InHand
  <2>6. \A t \in Shares \ {s} : Fate(t)' = Fate(t)
    BY <1>1, <2>4, <2>5 DEF Fate, Pending, IsRow
  <2>7. Fate(s) = "taken" /\ Fate(s)' = "read"
    BY <2>1, <2>2, <2>4, FateIs, FateBecomes DEF Fated
  <2>8. Secret!Read(s)
    BY <2>1, <2>6, <2>7, Becomes DEF Secret!Read
  <2> QED BY <2>1, <2>8 DEF Secret!Next
<1> QED BY <1>3, <1>4

\* Every step is a step of the secret, or none.
LEMMA NextRefines ==
  ASSUME Good, Good', [Next]_vars
  PROVE  Secret!Next \/ UNCHANGED [s \in Shares |-> Fate(s)]
<1>1. CASE \E w \in Sessions, s \in Shares : CommitCreate(w, s)
  BY <1>1, CommitCreateHolds
<1>2. CASE \E w \in Sessions : CommitEnd(w) \/ Answer(w)
  BY <1>2, CommitEndTakes, AnswerReads
<1>3. CASE /\ ~\E w \in Sessions, s \in Shares : CommitCreate(w, s)
           /\ ~\E w \in Sessions : CommitEnd(w) \/ Answer(w)
  <2>1. reads' = reads
    BY <1>3 DEF Next, Asking, AskCreate, AskReveal, AskRevoke, Ask, Serving, LockDirectory,
         LockPeople, JudgeCreate, JudgeCaller, LockShare, JudgeReveal, JudgeRevoke, Decide,
         Rollback, AnswerBusy, Cleaning, RunJanitor, NextStep, Start, JanitorJudge,
         JanitorDelete, JanitorFails, RunFails, JanitorLock, JanitorEnd, Around,
         ChangeAccount, DeleteAccount, Anonymise, DropNotice, Tick, Restart, vars
  <2>2. ASSUME NEW w \in Sessions, Asking(w) \/ Serving(w)
        PROVE  Alone(w) /\ pc'[w] # "committed"
    <3>1. CASE Asking(w)
      <4>1. PICK asked : Ask(w, asked)
        BY <3>1 DEF Asking, AskCreate, AskReveal, AskRevoke
      <4> QED BY <4>1 DEF Ask, Alone, Good, Typed, TypeOK
    <3>2. CASE Serving(w)
      BY <1>3, <3>2 DEF Serving, LockDirectory, LockPeople, JudgeCreate, JudgeCaller,
         LockShare, JudgeReveal, JudgeRevoke, Decide, Rollback, AnswerBusy, Go, Alone,
         Good, Typed, TypeOK
    <3> QED BY <2>2, <3>1, <3>2
  <2>3. \A v \in Sessions : Took(v)' => Took(v) /\ request'[v].share = request[v].share
    <3>1. CASE \E w \in Sessions : Asking(w) \/ Serving(w)
      BY <2>2, <3>1 DEF Took, Alone
    <3>2. CASE pc' = pc /\ request' = request
      BY <3>2 DEF Took
    <3>3. CASE \E k \in Keys : Restart(k)
      BY <3>3 DEF Restart, Took
    <3> QED
      BY <3>1, <3>2, <3>3 DEF Next, Cleaning, RunJanitor, NextStep, Start, JanitorJudge,
         JanitorDelete, JanitorFails, RunFails, JanitorLock, JanitorEnd, Around,
         ChangeAccount, DeleteAccount, Anonymise, DropNotice, Tick, vars
  <2>4. CASE \E s \in Shares : JanitorEnd(s)
    <3> PICK s \in Shares : JanitorEnd(s)
      BY <2>4
    <3>1. PICK at \in due : EndShare(s, phase, at)
      BY DEF JanitorEnd
    <3>2. at \in Nat /\ phase \in Ends
      BY IdsAssumption DEF JanitorEnd, Good, Typed, TypeOK, JanitorInPlace, Ends
    <3>3. IsRow(s) /\ shares'[s] # Unborn /\ ~Pending(s)'
      BY <3>1, <3>2, EndsRow DEF Good, Typed
    <3>4. \A t \in Shares \ {s} : shares'[t] = shares[t]
      BY <3>1 DEF EndShare, Good, Typed, TypeOK
    <3> QED BY <2>1, <2>3, <3>3, <3>4, HandsKept, RowsEnd
  <2>5. CASE \E gone \in SUBSET Rows : DeleteShares(gone)
    <3> PICK gone \in SUBSET Rows : DeleteShares(gone)
      BY <2>5
    <3>1. ASSUME NEW s \in Shares
          PROVE  shares'[s] = shares[s] \/ (IsRow(s) /\ shares'[s] # Unborn /\ ~Pending(s)')
      BY SecretNullsAssumption DEF DeleteShares, Rows, Pending, IsRow
    <3> QED BY <2>1, <2>3, <3>1, HandsKept, RowsEnd
  <2>6. CASE UNCHANGED shares
    BY <2>1, <2>3, <2>6, HandsKept, RowsEnd
  <2> QED BY <1>3, <2>4, <2>5, <2>6, TableSteps DEF Good
<1> QED BY <1>1, <1>2, <1>3

\* The table, the locks and the confirmed COMMIT of the secret shares
\* implement ReadOnceSecret.
THEOREM SecretsImplement == Spec => SecretIsReadOnce
<1>1. Init => Secret!Init
  <2> SUFFICES ASSUME Init PROVE Secret!Init
    OBVIOUS
  <2>1. \A s \in Shares : Fate(s) = "unborn"
    BY InitTyped, InitGuarded, FateIs DEF Good, Fated, Init
  <2> QED BY <2>1 DEF Secret!Init
<1>2. Good /\ Good' /\ [Next]_vars => [Secret!Next]_[s \in Shares |-> Fate(s)]
  BY NextRefines
<1>3. Spec => []Good
  BY InitTyped, NextTyped, InitGuarded, NextGuarded, PTL DEF Spec, Good
<1> QED BY <1>1, <1>2, <1>3, PTL DEF Spec, SecretIsReadOnce, Secret!Spec

-----------------------------------------------------------------------------
(***************************************************************************)
(* The pending limits.                                                     *)
(***************************************************************************)

SentOpen(p) == {s \in Rows : Open(s) /\ shares[s].from = p}

ReceivedOpen(p) == {s \in Rows : Open(s) /\ shares[s].to = p}

HasRoom(p, q) ==
  /\ Cardinality(SentOpen(p)) < PendingPerSender
  /\ Cardinality(ReceivedOpen(q)) < PendingPerRecipient

\* A create that was judged keeps the room it was judged by until its COMMIT.
RoomKept ==
  \A w \in Sessions :
    pc[w] = "writing" /\ request[w].op = "create"
      => HasRoom(request[w].caller, request[w].peer)

Counted == Typed /\ Guarded /\ QuotaHeld /\ RoomKept

\* The rows, and so the open shares of a person, are finitely many.
LEMMA SubsetSize ==
  ASSUME NEW S \in SUBSET Shares, NEW T \in SUBSET S
  PROVE  /\ IsFiniteSet(S) /\ Cardinality(S) \in Nat
         /\ Cardinality(T) \in Nat /\ Cardinality(T) <= Cardinality(S)
<1>1. IsFiniteSet(S)
  BY IdsAssumption, FS_Subset
<1>2. IsFiniteSet(T) /\ Cardinality(T) <= Cardinality(S)
  BY <1>1, FS_Subset
<1> QED BY <1>1, <1>2, FS_CardinalityType

\* A create about to commit was so before, or has just been judged.
LEMMA CreatesJudged ==
  ASSUME Typed, [Next]_vars, NEW w \in Sessions, pc'[w] = "writing", request'[w].op = "create"
  PROVE  \/ pc[w] = "writing" /\ request'[w] = request[w]
         \/ JudgeCreate(w)
<1>1. ASSUME NEW v \in Sessions, Asking(v)
      PROVE  pc[w] = "writing" /\ request'[w] = request[w]
  <2>1. PICK asked : Ask(v, asked)
    BY <1>1 DEF Asking, AskCreate, AskReveal, AskRevoke
  <2> QED BY <2>1 DEF Ask, Typed, TypeOK
<1>2. ASSUME NEW v \in Sessions, v # w, Serving(v)
      PROVE  pc[w] = "writing" /\ request'[w] = request[w]
  BY <1>2 DEF Serving, LockDirectory, LockPeople, JudgeCreate, JudgeCaller, LockShare,
     JudgeReveal, JudgeRevoke, Decide, CommitCreate, CommitEnd, Rollback, Answer, AnswerBusy,
     Go, Typed, TypeOK
<1>3. ASSUME NEW verdict, Decide(w, verdict), pc[w] = "reading" PROVE FALSE
  <2>1. request[w] \in Request /\ request[w].op # "create"
    BY <1>3, RequestType DEF Typed, RequestsMatch
  <2>2. request'[w].op = request[w].op
    BY <1>3, <2>1 DEF Decide, Request, Typed, TypeOK
  <2> QED BY <2>1, <2>2
<1>4. CASE Serving(w)
  <2>1. CASE JudgeReveal(w) \/ JudgeRevoke(w)
    BY <1>3, <2>1 DEF JudgeReveal, JudgeRevoke
  <2> QED
    BY <1>4, <2>1 DEF Serving, LockDirectory, LockPeople, JudgeCaller, LockShare,
       CommitCreate, CommitEnd, Rollback, Answer, AnswerBusy, Go, Typed, TypeOK
<1>5. CASE pc' = pc /\ request' = request
  BY <1>5
<1>6. CASE \E k \in Keys : Restart(k)
  BY <1>6 DEF Restart
<1> QED
  BY <1>1, <1>2, <1>4, <1>5, <1>6 DEF Next, Cleaning, RunJanitor, NextStep, Start, JanitorJudge,
     JanitorDelete, JanitorFails, RunFails, JanitorLock, JanitorEnd, Around, ChangeAccount,
     DeleteAccount, Anonymise, DropNotice, Tick, vars

\* Where no row becomes open, nobody has more open shares than before.
LEMMA NoneOpened ==
  ASSUME Typed, Typed', clock <= clock',
         \A s \in Shares : shares'[s] = shares[s] \/ ~Pending(s)',
         NEW p
  PROVE  /\ Cardinality(SentOpen(p)) \in Nat /\ Cardinality(SentOpen(p))' \in Nat
         /\ Cardinality(SentOpen(p))' <= Cardinality(SentOpen(p))
         /\ Cardinality(ReceivedOpen(p)) \in Nat /\ Cardinality(ReceivedOpen(p))' \in Nat
         /\ Cardinality(ReceivedOpen(p))' <= Cardinality(ReceivedOpen(p))
<1>1. ASSUME NEW s \in Shares, IsRow(s)', Open(s)'
      PROVE  IsRow(s) /\ Open(s) /\ shares'[s] = shares[s]
  <2>1. shares'[s] = shares[s] /\ IsRow(s) /\ Pending(s)
    BY <1>1 DEF Open, Pending, IsRow
  <2>2. shares[s].expires \in Nat
    BY <2>1, RowType DEF Typed, Share
  <2>3. shares'[s].expires > clock'
    BY <1>1 DEF Open
  <2> QED BY <2>1, <2>2, <2>3 DEF Open, Typed, TypeOK
<1>2. SentOpen(p)' \subseteq SentOpen(p) /\ ReceivedOpen(p)' \subseteq ReceivedOpen(p)
  BY <1>1 DEF SentOpen, ReceivedOpen, Rows
<1>3. SentOpen(p) \subseteq Shares /\ ReceivedOpen(p) \subseteq Shares
  BY DEF SentOpen, ReceivedOpen, Rows
<1> QED BY <1>2, <1>3, SubsetSize

\* A new row is one share more, for its sender and for its recipient.
LEMMA OneOpened ==
  ASSUME Typed, Typed', clock' = clock, NEW s \in Shares, shares[s] = Unborn,
         \A t \in Shares \ {s} : shares'[t] = shares[t],
         NEW p
  PROVE  /\ Cardinality(SentOpen(p)) \in Nat /\ Cardinality(ReceivedOpen(p)) \in Nat
         /\ Cardinality(SentOpen(p))'
              <= Cardinality(SentOpen(p)) + (IF shares'[s].from = p THEN 1 ELSE 0)
         /\ Cardinality(ReceivedOpen(p))'
              <= Cardinality(ReceivedOpen(p)) + (IF shares'[s].to = p THEN 1 ELSE 0)
<1>1. \A t \in Shares : (t \in Rows' /\ Open(t)' /\ t # s)
                          => t \in Rows /\ Open(t) /\ shares'[t] = shares[t]
  BY DEF Rows, IsRow, Open, Pending
<1>2. /\ SentOpen(p) \subseteq Shares /\ SentOpen(p)' \subseteq Shares
      /\ ReceivedOpen(p) \subseteq Shares /\ ReceivedOpen(p)' \subseteq Shares
  BY DEF SentOpen, ReceivedOpen, Rows
<1>3. SentOpen(p)' \subseteq SentOpen(p) \cup (IF shares'[s].from = p THEN {s} ELSE {})
  BY <1>1 DEF SentOpen, Rows
<1>4. ReceivedOpen(p)' \subseteq ReceivedOpen(p) \cup (IF shares'[s].to = p THEN {s} ELSE {})
  BY <1>1 DEF ReceivedOpen, Rows
<1>5. ASSUME NEW S \in SUBSET Shares, NEW T \in SUBSET Shares, NEW one \in BOOLEAN,
             T \subseteq S \cup (IF one THEN {s} ELSE {})
      PROVE  Cardinality(S) \in Nat /\ Cardinality(T) <= Cardinality(S) + (IF one THEN 1 ELSE 0)
  <2>1. IsFiniteSet(S) /\ Cardinality(S) \in Nat
    BY SubsetSize
  <2>2. CASE one
    <3>0. Cardinality(S \cup {s}) = IF s \in S THEN Cardinality(S) ELSE Cardinality(S) + 1
      BY <2>1, FS_AddElement, Zenon
    <3>1. Cardinality(S \cup {s}) <= Cardinality(S) + 1
      <4> DEFINE m == Cardinality(S)  n == Cardinality(S \cup {s})
      <4>1. m \in Nat /\ (n = m \/ n = m + 1)
        BY <2>1, <3>0
      <4> HIDE DEF m, n
      <4>2. n <= m + 1
        BY <4>1
      <4> QED BY <4>2 DEF m, n
    <3>2. S \cup {s} \in SUBSET Shares /\ T \in SUBSET (S \cup {s})
      BY <1>5, <2>2
    <3>3. /\ Cardinality(T) \in Nat /\ Cardinality(S \cup {s}) \in Nat
          /\ Cardinality(T) <= Cardinality(S \cup {s})
      BY <3>2, SubsetSize
    <3> QED BY <2>1, <2>2, <3>1, <3>3
  <2>3. CASE ~one
    <3>1. Cardinality(T) \in Nat /\ Cardinality(T) <= Cardinality(S)
      BY <1>5, <2>3, SubsetSize
    <3> QED BY <2>1, <2>3, <3>1
  <2> QED BY <2>2, <2>3
<1> QED BY <1>2, <1>3, <1>4, <1>5

\* A step that opens no share keeps the limits, and the room of who writes.
LEMMA NoneOpenedCounted ==
  ASSUME Counted, Typed', [Next]_vars,
         \A s \in Shares : shares'[s] = shares[s] \/ ~Pending(s)'
  PROVE  QuotaHeld' /\ RoomKept'
<1> USE DEF Counted
<1>1. clock <= clock'
  BY ClockRuns
<1>2. QuotaHeld'
  <2> SUFFICES ASSUME NEW p \in People
               PROVE  /\ Cardinality(SentOpen(p))' <= PendingPerSender
                      /\ Cardinality(ReceivedOpen(p))' <= PendingPerRecipient
    BY DEF QuotaHeld, SentOpen, ReceivedOpen
  <2>1. /\ Cardinality(SentOpen(p)) <= PendingPerSender
        /\ Cardinality(ReceivedOpen(p)) <= PendingPerRecipient
    BY DEF QuotaHeld, SentOpen, ReceivedOpen
  <2> QED BY <1>1, <2>1, NoneOpened, NumbersAssumption
<1>3. RoomKept'
  <2> SUFFICES ASSUME NEW w \in Sessions, pc'[w] = "writing", request'[w].op = "create",
                      NEW p, NEW q, p = request'[w].caller, q = request'[w].peer
               PROVE  /\ Cardinality(SentOpen(p))' < PendingPerSender
                      /\ Cardinality(ReceivedOpen(q))' < PendingPerRecipient
    BY DEF RoomKept, HasRoom
  <2>1. /\ Cardinality(SentOpen(p)) < PendingPerSender
        /\ Cardinality(ReceivedOpen(q)) < PendingPerRecipient
    <3>1. CASE pc[w] = "writing" /\ request'[w] = request[w]
      BY <3>1 DEF RoomKept, HasRoom
    <3>2. CASE JudgeCreate(w)
      <4>1. request[w] \in Request
        BY <3>2, RequestType DEF JudgeCreate
      <4>2. p = request[w].caller /\ q = request[w].peer
        BY <3>2, <4>1 DEF JudgeCreate, Request, Typed, TypeOK
      <4> QED BY <3>2, <4>2 DEF JudgeCreate, WithinQuota, SentOpen, ReceivedOpen
    <3> QED BY <3>1, <3>2, CreatesJudged
  <2> QED BY <1>1, <2>1, NoneOpened, NumbersAssumption
<1> QED BY <1>2, <1>3

\* The COMMIT of a create uses the room, and nobody else was counting on it.
LEMMA CreateCounted ==
  ASSUME Counted, Typed', NEW w \in Sessions, NEW s \in Shares, CommitCreate(w, s)
  PROVE  QuotaHeld' /\ RoomKept'
<1> USE DEF Counted
<1>1. /\ shares[s] = Unborn /\ clock' = clock /\ request' = request
      /\ \A t \in Shares \ {s} : shares'[t] = shares[t]
      /\ shares'[s].from = request[w].caller /\ shares'[s].to = request[w].peer
  BY DEF CommitCreate, Typed, TypeOK
<1>2. HasRoom(request[w].caller, request[w].peer)
  BY DEF RoomKept, CommitCreate
<1>3. QuotaHeld'
  <2> SUFFICES ASSUME NEW p \in People
               PROVE  /\ Cardinality(SentOpen(p))' <= PendingPerSender
                      /\ Cardinality(ReceivedOpen(p))' <= PendingPerRecipient
    BY DEF QuotaHeld, SentOpen, ReceivedOpen
  <2>1. /\ Cardinality(SentOpen(p)) <= PendingPerSender
        /\ Cardinality(ReceivedOpen(p)) <= PendingPerRecipient
    BY DEF QuotaHeld, SentOpen, ReceivedOpen
  <2>2. /\ request[w].caller = p => Cardinality(SentOpen(p)) < PendingPerSender
        /\ request[w].peer = p => Cardinality(ReceivedOpen(p)) < PendingPerRecipient
    BY <1>2 DEF HasRoom
  <2>3. /\ Cardinality(SentOpen(p)) \in Nat /\ Cardinality(ReceivedOpen(p)) \in Nat
        /\ Cardinality(SentOpen(p))'
             <= Cardinality(SentOpen(p)) + (IF request[w].caller = p THEN 1 ELSE 0)
        /\ Cardinality(ReceivedOpen(p))'
             <= Cardinality(ReceivedOpen(p)) + (IF request[w].peer = p THEN 1 ELSE 0)
    BY <1>1, OneOpened
  <2>4. /\ Cardinality(SentOpen(p))' \in Nat /\ Cardinality(ReceivedOpen(p))' \in Nat
    <3>1. SentOpen(p)' \subseteq Shares /\ ReceivedOpen(p)' \subseteq Shares
      BY DEF SentOpen, ReceivedOpen, Rows
    <3> QED BY <3>1, SubsetSize
  <2> QED BY <2>1, <2>2, <2>3, <2>4, NumbersAssumption
<1>4. RoomKept'
  <2> SUFFICES ASSUME NEW v \in Sessions, pc'[v] = "writing" PROVE FALSE
    BY DEF RoomKept
  <2>1. v # w /\ pc[v] = "writing" /\ pc[w] = "writing"
    BY DEF CommitCreate, Go, Typed, TypeOK
  <2> QED BY <2>1 DEF Guarded, OneDirectoryHolder, HoldsDirectory
<1> QED BY <1>3, <1>4

\* Every step keeps the limits.
LEMMA NextCounted == Counted /\ [Next]_vars => Counted'
<1> SUFFICES ASSUME Counted, [Next]_vars PROVE Counted'
  OBVIOUS
<1>1. Typed' /\ Guarded'
  BY NextTyped, NextGuarded DEF Counted
<1>2. ASSUME \A s \in Shares : shares'[s] = shares[s] \/ ~Pending(s)' PROVE Counted'
  BY <1>1, <1>2, NoneOpenedCounted DEF Counted
<1>3. CASE \E w \in Sessions, s \in Shares : CommitCreate(w, s)
  BY <1>1, <1>3, CreateCounted DEF Counted
<1>4. ASSUME NEW s \in Shares, NEW to \in Ends, NEW at \in Nat, EndShare(s, to, at)
      PROVE  Counted'
  <2>1. ~Pending(s)'
    BY <1>4, EndsRow DEF Counted, Typed
  <2>2. \A t \in Shares \ {s} : shares'[t] = shares[t]
    BY <1>4 DEF EndShare, Counted, Typed, TypeOK
  <2> QED BY <1>2, <2>1, <2>2
<1>5. CASE \E w \in Sessions : CommitEnd(w)
  <2> PICK w \in Sessions : CommitEnd(w)
    BY <1>5
  <2>1. /\ EndShare(request[w].share, request[w].verdict, request[w].at)
        /\ pc[w] = "writing" /\ request[w].op # "create"
    BY DEF CommitEnd
  <2>2. request[w].share \in Shares /\ request[w].verdict \in Ends /\ request[w] \in Request
    BY <2>1, RequestType DEF Counted, Typed, RequestsMatch, NamesItsShare
  <2>3. request[w].at \in Nat
    BY <2>2 DEF Request
  <2> QED BY <1>4, <2>1, <2>2, <2>3
<1>6. CASE \E s \in Shares : JanitorEnd(s)
  <2> PICK s \in Shares : JanitorEnd(s)
    BY <1>6
  <2>1. PICK at \in due : EndShare(s, phase, at)
    BY DEF JanitorEnd
  <2>2. at \in Nat /\ phase \in Ends
    BY IdsAssumption DEF JanitorEnd, Counted, Typed, TypeOK, JanitorInPlace, Ends
  <2> QED BY <1>4, <2>1, <2>2
<1>7. CASE \E gone \in SUBSET Rows : DeleteShares(gone)
  <2> PICK gone \in SUBSET Rows : DeleteShares(gone)
    BY <1>7
  <2>1. \A s \in Shares : shares'[s] = shares[s] \/ ~Pending(s)'
    BY DEF DeleteShares, Pending, IsRow
  <2> QED BY <1>2, <2>1
<1>8. CASE UNCHANGED shares
  BY <1>2, <1>8
<1> QED BY <1>3, <1>5, <1>6, <1>7, <1>8, TableSteps DEF Counted

\* checkQuotas: however requests, the janitor, account changes and restarts
\* are interleaved, nobody's open shares exceed the limits.
THEOREM QuotasHold == Spec => []QuotaHeld
<1>1. Init => Counted
  <2> SUFFICES ASSUME Init PROVE QuotaHeld /\ RoomKept
    BY InitTyped, InitGuarded DEF Counted
  <2>1. Rows = {}
    BY DEF Init, Rows, IsRow
  <2>2. Cardinality({}) = 0
    BY FS_EmptySet
  <2>3. \A p : SentOpen(p) = {} /\ ReceivedOpen(p) = {}
    BY <2>1 DEF SentOpen, ReceivedOpen
  <2>4. QuotaHeld
    <3> SUFFICES ASSUME NEW p \in People
                 PROVE  /\ Cardinality(SentOpen(p)) <= PendingPerSender
                        /\ Cardinality(ReceivedOpen(p)) <= PendingPerRecipient
      BY DEF QuotaHeld, SentOpen, ReceivedOpen
    <3>1. Cardinality(SentOpen(p)) = 0 /\ Cardinality(ReceivedOpen(p)) = 0
      BY <2>2, <2>3
    <3> QED BY <3>1, NumbersAssumption
  <2>5. RoomKept
    BY DEF Init, RoomKept
  <2> QED BY <2>4, <2>5
<1>2. Counted => QuotaHeld
  BY DEF Counted
<1> QED BY <1>1, <1>2, NextCounted, PTL DEF Spec

=============================================================================
