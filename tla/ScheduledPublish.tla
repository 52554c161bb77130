-------------------------- MODULE ScheduledPublish --------------------------
(***************************************************************************)
(* The scheduled publisher for the documents of one type: the runs of its  *)
(* cron task in one process, and the authors who save, publish and         *)
(* withdraw the same documents meanwhile.                                  *)
(*                                                                         *)
(* A document is its draft row and, once published, a copy of it.  A run   *)
(* selects due drafts without a lock, reads the revision of one after the  *)
(* other, and judges each again in a transaction that holds the document's *)
(* lock.  Authors change a document in one step under the same lock        *)
(* (DocumentLock has their transactions in detail).                        *)
(***************************************************************************)
EXTENDS Integers, Sequences, FiniteSets

CONSTANTS
  Docs,            \* ids of the draft rows, which stand for their documents
  Parents,         \* by kind of type: what its drafts may link (0: nothing)
  PublishTimes, UnpublishTimes,  \* what an author may plan
  InitialErrors,   \* markers left by runs of an earlier process
  Wait,            \* DEPENDENCY_WAIT_MINUTES
  Batch,           \* SCHEDULE_BATCH
  Quota,           \* WITHDRAWAL_RETRY_QUOTA
  Scan,            \* WITHDRAWAL_RETRY_SCAN
  MaxAttempts,     \* SCHEDULE_TRANSIENT_ATTEMPTS
  Backoff,         \* WITHDRAWAL_BACKOFF_MINUTES
  MaxTime,         \* the last instant, which stands for all later ones
  MaxEdits,        \* changes by authors
  MaxFaults        \* failures and restarts

Never == MaxTime + 1
Times == 0..MaxTime

ASSUME DocsAreRowIds == IsFiniteSet(Docs) /\ Docs \subseteq Nat \ {0}
ASSUME LimitsArePositive ==
  /\ {Batch, Quota, Scan, MaxAttempts} \subseteq Nat \ {0}
  /\ Quota < Batch /\ Quota <= Scan
  /\ Wait \in Nat /\ MaxTime \in Nat /\ MaxEdits \in Nat /\ MaxFaults \in Nat
  /\ Backoff \in Seq(Nat \ {0}) /\ Backoff # <<>>
\* Documents and quick links are withdrawn, announcements expire, and
\* neither has a parent; pages may have one, lessons must.
ASSUME ParentsByKind ==
  /\ DOMAIN Parents \subseteq {"withdrawn", "expiring", "page", "lesson"}
  /\ \A k \in DOMAIN Parents : Parents[k] \subseteq [Docs -> Nat]
  /\ \A k \in DOMAIN Parents \cap {"withdrawn", "expiring"} :
       Parents[k] \subseteq {[d \in Docs |-> 0]}
ASSUME PlansAreTimes == PublishTimes \cup UnpublishTimes \subseteq Times \cup {Never}

\* "rejected" stands for "invalid" too: both refuse for good.
Codes == {"none", "notPublishable", "rejected", "windowExpired", "retryExhausted"}
ASSUME ErrorsAreCodes == InitialErrors \subseteq Codes

Passes == {"unpublish", "publish"}
Plan == [publishAt : Times \cup {Never}, unpublishAt : Times \cup {Never}, error : Codes]
Unplanned == [publishAt |-> Never, unpublishAt |-> Never, error |-> "none"]

VARIABLES
  kind, parent,  \* the type of the documents and what they link, chosen once
  stored,      \* documents that exist: they have a draft row
  published,   \* documents with a published row
  draft, live, \* the plan on the draft row and its copy on the published row
  revision,
  clock,
  run,         \* the run in progress and the document it works on
  tries,       \* TransientAttempts.counts, of the last revision that failed
  deferred,    \* TransientAttempts.withdrawals
  cursor,      \* TransientAttempts.cursors
  edits, faults,
  superseded,  \* an author changed the document since the run read its revision
  idleSeen,    \* its parent was neither published nor due at a read of the record
  passedOver   \* runs that left a ready retry out, in a row

content == <<stored, published, draft, live, revision>>
memory == <<tries, deferred, cursor>>
history == <<superseded, idleSeen>>
vars == <<kind, parent, content, clock, run, memory, edits, faults, history, passedOver>>

Steps == {"idle", "retries", "healthy", "publishes", "next", "taken", "claimed",
          "failed", "weighing", "weighed"}
Idle == [step |-> "idle", pass |-> "publish", start |-> 0, todo |-> <<>>,
         r |-> 0, at |-> 0, code |-> "none"]
NoTries == [revision |-> 0, count |-> 0]
NotDeferred == [failures |-> 0, at |-> 0, revision |-> 0]

TypeOK ==
  /\ kind \in DOMAIN Parents /\ parent \in Parents[kind]
  /\ stored \subseteq Docs /\ published \subseteq stored
  /\ draft \in [Docs -> Plan] /\ live \in [Docs -> Plan]
  /\ revision \in [Docs -> Nat]
  /\ clock \in Times
  /\ run \in [step : Steps, pass : Passes, start : Times, todo : Seq(Docs),
              r : Nat, at : Times, code : Codes]
  /\ tries \in [Docs -> [Passes -> [revision : Nat, count : Nat]]]
  /\ deferred \in [Docs -> [failures : Nat, at : Times, revision : Nat]]
  /\ cursor \in Nat
  /\ edits \in 0..MaxEdits /\ faults \in 0..MaxFaults
  /\ superseded \in BOOLEAN /\ idleSeen \in BOOLEAN
  /\ passedOver \in [Docs -> Nat]

Windows == IF kind \in {"withdrawn", "expiring"} THEN UnpublishTimes ELSE {Never}

\* A marker beside a pending publish is a failed withdrawal's.
Init ==
  /\ kind \in DOMAIN Parents /\ parent \in Parents[kind]
  /\ stored = Docs
  /\ published \in SUBSET Docs
  /\ draft \in [Docs -> [publishAt : PublishTimes, unpublishAt : Windows,
                         error : InitialErrors]]
  /\ \A d \in Docs : draft[d].error # "none" /\ draft[d].publishAt # Never =>
       d \in published /\ draft[d].unpublishAt # Never
  /\ live = [d \in Docs |-> Unplanned]
  /\ revision = [d \in Docs |-> 1]
  /\ clock = 0
  /\ run = Idle
  /\ tries = [d \in Docs |-> [p \in Passes |-> NoTries]]
  /\ deferred = [d \in Docs |-> NotDeferred]
  /\ cursor = 0
  /\ edits = 0 /\ faults = 0
  /\ superseded = FALSE /\ idleSeen = FALSE
  /\ passedOver = [d \in Docs |-> 0]

-----------------------------------------------------------------------------
(* Plans, parents and locks.                                               *)

Earlier(t, u) == IF t < u THEN t ELSE u

Doc == Head(run.todo)

\* Fault: authors do not wait for the run's transaction.
Free_Always(d) == TRUE

\* The run holds the lock of the document it works on, and authors wait.
Free(d) == run.step \in {"claimed", "weighing", "weighed"} => d # Doc

\* A link goes with the row it points at.
Linked(d) == parent[d] \in stored

Blocked(d) ==
  IF Linked(d) THEN parent[d] \notin published ELSE kind = "lesson" /\ parent[d] # 0

WaitOver(d, now) == Earlier(draft[d].publishAt + Wait, MaxTime) <= now

ParentDue(d, now) == draft[parent[d]].publishAt <= now

\* Fault: a draft waits as long as its parent is due.
Waits_Always(d, now) ==
  Linked(d) /\ parent[d] \notin published /\ ParentDue(d, now)

Waits(d, now) ==
  /\ Linked(d) /\ parent[d] \notin published
  /\ ~WaitOver(d, now) /\ ParentDue(d, now)

WindowExpired(d, now) == draft[d].unpublishAt <= now

-----------------------------------------------------------------------------
(* Authors: each operation with what schedule-clear adds to it.            *)

InFlight == {"taken", "claimed", "failed", "weighing", "weighed"}

Edits(d) ==
  /\ edits < MaxEdits /\ d \in stored /\ Free(d)
  /\ edits' = edits + 1 /\ UNCHANGED <<kind, parent>>
  /\ superseded' = (superseded \/ (run.step \in InFlight /\ d = Doc))
  /\ UNCHANGED <<clock, run, memory, faults, idleSeen, passedOver>>

Advance(d) == revision' = [revision EXCEPT ![d] = @ + 1]

Save(d, p, u) ==
  /\ Edits(d) /\ Advance(d)
  /\ draft' = [draft EXCEPT ![d] = [publishAt |-> p, unpublishAt |-> u, error |-> "none"]]
  /\ UNCHANGED <<stored, published, live>>

\* publish(d), or a save that publishes: its window may be new.
PublishNow(d, u) ==
  /\ Edits(d) /\ ~Blocked(d) /\ Advance(d)
  /\ draft' = [draft EXCEPT ![d] = [Unplanned EXCEPT !.unpublishAt = u]]
  /\ live' = [live EXCEPT ![d] = draft'[d]]
  /\ published' = published \cup {d}
  /\ UNCHANGED stored

Unpublish(d) ==
  /\ Edits(d) /\ Advance(d)
  /\ draft' = [draft EXCEPT ![d].publishAt = Never]
  /\ live' = [live EXCEPT ![d] = Unplanned]
  /\ published' = published \ {d}
  /\ UNCHANGED stored

Discard(d) ==
  /\ Edits(d) /\ d \in published /\ Advance(d)
  /\ draft' = [draft EXCEPT ![d] = live[d]]
  /\ UNCHANGED <<stored, published, live>>

Delete(d) ==
  /\ Edits(d)
  /\ stored' = stored \ {d} /\ published' = published \ {d}
  /\ draft' = [draft EXCEPT ![d] = Unplanned] /\ live' = [live EXCEPT ![d] = Unplanned]
  /\ revision' = [revision EXCEPT ![d] = 0]

Author(d) ==
  \/ \E p \in PublishTimes, u \in Windows : Save(d, p, u)
  \/ \E u \in Windows \cup {draft[d].unpublishAt} : PublishNow(d, u)
  \/ Unpublish(d) \/ Discard(d) \/ Delete(d)

-----------------------------------------------------------------------------
(* Selection, from committed rows and without a lock.                      *)

Runs == UNCHANGED <<edits, faults, kind, parent>>

Withdraws == kind = "withdrawn"

StartRun ==
  /\ Runs /\ run.step = "idle"
  /\ run' = [Idle EXCEPT !.step = IF Withdraws THEN "retries" ELSE "publishes",
                         !.pass = IF Withdraws THEN "unpublish" ELSE "publish",
                         !.start = clock]
  /\ UNCHANGED <<content, clock, memory, history, passedOver>>

\* Fault: only a change ends a backoff.
BackoffOver_WhenChanged(d, now) ==
  deferred[d].failures = 0 \/ deferred[d].revision # revision[d]

BackoffOver(d, now) ==
  \/ deferred[d].failures = 0
  \/ deferred[d].revision # revision[d]
  \/ deferred[d].at <= now

\* Fault: a due withdrawal comes first in any case.
PublishFirst_Never(d) == FALSE

\* An unpublished draft with a pending publish is the publish pass's.
PublishFirst(d) == d \notin published /\ draft[d].publishAt # Never

Withdrawals == {d \in stored : draft[d].unpublishAt <= run.start}

Failing == {d \in Withdrawals : draft[d].error # "none"}

Ready == {d \in Failing : ~PublishFirst(d) /\ BackoffOver(d, run.start)}

\* The order of a query: by a rank, then by the row id.
Sooner(rank, d, e) == rank[d] < rank[e] \/ (rank[d] = rank[e] /\ d < e)

\* The elements of S in their order (one sequence, as the orders are total).
Orders(S, rank) ==
  {q \in [1 .. Cardinality(S) -> S] :
     \A i, j \in 1 .. Cardinality(S) : i < j => Sooner(rank, q[i], q[j])}

First(S, n, rank) == {d \in S : Cardinality({e \in S : Sooner(rank, e, d)}) < n}

\* Row ids after the cursor first, then from the start.
Circle == [d \in Docs |-> IF d > cursor THEN 0 ELSE 1]

Before(d) == {e \in Failing : Sooner(Circle, e, d)}

Examined == {d \in Failing : /\ Cardinality(Before(d)) < Scan
                             /\ Cardinality(Before(d) \cap Ready) < Quota}

Picked == Ready \cap Examined

\* Fault: every run begins at the first row.
NextCursor_Start == {0}

\* The last row examined when a limit is reached, else the start.
NextCursor ==
  IF Cardinality(Examined) = Scan \/ Cardinality(Picked) = Quota
  THEN {d \in Examined : \A e \in Examined \ {d} : Sooner(Circle, e, d)}
  ELSE {0}

SelectRetries ==
  /\ Runs /\ run.step = "retries"
  /\ \E retries \in Orders(Picked, Circle) :
       run' = [run EXCEPT !.step = "healthy", !.todo = retries]
  /\ cursor' \in NextCursor
  /\ passedOver' = [d \in Docs |-> IF d \in Ready \ Picked THEN passedOver[d] + 1 ELSE 0]
  /\ UNCHANGED <<content, clock, tries, deferred, history>>

Healthy == {d \in Withdrawals : draft[d].error = "none" /\ ~PublishFirst(d)}

ByEnd == [d \in Docs |-> draft[d].unpublishAt]

SelectHealthy ==
  /\ Runs /\ run.step = "healthy"
  /\ LET rows == First(Healthy, Batch - Len(run.todo), ByEnd)
     IN  \E healthy \in Orders({d \in rows : BackoffOver(d, run.start)}, ByEnd) :
           run' = [run EXCEPT !.step = "next", !.todo = healthy \o @]
  /\ UNCHANGED <<content, clock, memory, history, passedOver>>

Publishable == {d \in stored :
  /\ draft[d].publishAt <= run.start
  /\ ~(Withdraws /\ d \in published /\ draft[d].unpublishAt <= run.start)
  /\ ~Waits(d, run.start)}

ByStart == [d \in Docs |-> draft[d].publishAt]

SelectPublishes ==
  /\ Runs /\ run.step = "publishes"
  /\ \E due \in Orders(First(Publishable, Batch, ByStart), ByStart) :
       run' = [run EXCEPT !.step = "next", !.pass = "publish", !.todo = due]
  /\ UNCHANGED <<content, clock, memory, history, passedOver>>

EndPass ==
  /\ Runs /\ run.step = "next" /\ run.todo = <<>>
  /\ run' = IF run.pass = "unpublish" THEN [run EXCEPT !.step = "publishes"] ELSE Idle
  /\ UNCHANGED <<content, clock, memory, history, passedOver>>

-----------------------------------------------------------------------------
(* One document: its revision, then its transaction.                       *)

Take ==
  /\ Runs /\ run.step = "next" /\ run.todo # <<>>
  /\ run' = [run EXCEPT !.step = "taken", !.r = revision[Doc]]
  /\ UNCHANGED <<content, clock, memory, history, passedOver>>

NextDocument ==
  /\ superseded' = FALSE /\ idleSeen' = FALSE
  /\ run' = [run EXCEPT !.step = "next", !.todo = Tail(@), !.r = 0, !.at = 0, !.code = "none"]

Moved == revision[Doc] # run.r

Skips ==
  \/ Moved
  \/ /\ run.pass = "unpublish"
     /\ draft[Doc].unpublishAt > clock \/ PublishFirst(Doc)
  \/ /\ run.pass = "publish"
     /\ \/ draft[Doc].publishAt > clock
        \/ Withdraws /\ Doc \in published /\ draft[Doc].unpublishAt <= clock

Skip ==
  /\ Runs /\ run.step = "taken" /\ Skips
  /\ NextDocument
  /\ UNCHANGED <<content, clock, memory, passedOver>>

\* Fault: the window is judged by the clock of the selection.
Expires_AtStart == run.pass = "publish" /\ WindowExpired(Doc, run.start)

Expires == run.pass = "publish" /\ WindowExpired(Doc, clock)

\* attempts.clear: only the count of the revision that was worked on.
ClearTries ==
  tries' = [tries EXCEPT ![Doc][run.pass] = IF @.revision = run.r THEN NoTries ELSE @]

Expire ==
  /\ Runs /\ run.step = "taken" /\ ~Skips /\ Expires
  /\ draft' = [draft EXCEPT ![Doc] = [publishAt |-> Never,
                                      unpublishAt |-> IF Withdraws THEN Never ELSE @.unpublishAt,
                                      error |-> "windowExpired"]]
  /\ Advance(Doc) /\ ClearTries /\ NextDocument
  /\ UNCHANGED <<stored, published, live, clock, deferred, cursor, passedOver>>

\* Fault: the claim commits before the publish.
Claim_Commits ==
  /\ Runs /\ run.step = "taken" /\ ~Skips /\ ~Expires
  /\ run' = [run EXCEPT !.step = "claimed", !.at = clock]
  /\ draft' = [draft EXCEPT ![Doc].publishAt = Never]
  /\ UNCHANGED <<stored, published, live, revision, clock, memory, history, passedOver>>

\* The document is locked and judged at this instant, its field claimed.
Claim ==
  /\ Runs /\ run.step = "taken" /\ ~Skips /\ ~Expires
  /\ run' = [run EXCEPT !.step = "claimed", !.at = clock]
  /\ UNCHANGED <<content, clock, memory, history, passedOver>>

\* unpublish() and the COMMIT; without a published row only the field goes.
CommitWithdrawal ==
  /\ Runs /\ run.step = "claimed" /\ run.pass = "unpublish"
  /\ draft' = [draft EXCEPT ![Doc] = Unplanned]
  /\ live' = [live EXCEPT ![Doc] = Unplanned]
  /\ published' = published \ {Doc}
  /\ deferred' = [deferred EXCEPT ![Doc] = NotDeferred]
  /\ Advance(Doc) /\ ClearTries /\ NextDocument
  /\ UNCHANGED <<stored, clock, cursor, passedOver>>

CommitPublish ==
  /\ Runs /\ run.step = "claimed" /\ run.pass = "publish" /\ ~Blocked(Doc)
  /\ draft' = [draft EXCEPT ![Doc] = [@ EXCEPT !.publishAt = Never, !.error = "none"]]
  /\ live' = [live EXCEPT ![Doc] = draft'[Doc]]
  /\ published' = published \cup {Doc}
  /\ Advance(Doc) /\ ClearTries /\ NextDocument
  /\ UNCHANGED <<stored, clock, deferred, cursor, passedOver>>

-----------------------------------------------------------------------------
(* Failures: the transaction rolled back, and what is recorded of it.      *)

Fails(code) ==
  /\ run' = [run EXCEPT !.step = "failed", !.at = 0, !.code = code]
  /\ UNCHANGED history

\* Publish readiness throws NotPublishableError.
Refused ==
  /\ Runs /\ run.step = "claimed" /\ run.pass = "publish" /\ Blocked(Doc)
  /\ Fails("notPublishable")
  /\ UNCHANGED <<content, clock, memory, passedOver>>

Fault == faults < MaxFaults /\ faults' = faults + 1 /\ UNCHANGED <<edits, kind, parent>>

\* A lifecycle or the validation refuses, or a required field is missing.
Rejected ==
  /\ Fault /\ run.step = "claimed"
  /\ Fails("rejected")
  /\ UNCHANGED <<content, clock, memory, passedOver>>

Count == IF tries[Doc][run.pass].revision = run.r THEN tries[Doc][run.pass].count + 1 ELSE 1

\* A withdrawal that was deferred before goes straight to its record.
Transient ==
  LET straight == run.pass = "unpublish" /\ deferred[Doc].failures > 0
  IN  /\ Fault /\ run.step \in {"taken", "claimed"}
      /\ tries' = IF straight THEN tries
                  ELSE [tries EXCEPT ![Doc][run.pass] = [revision |-> run.r, count |-> Count]]
      /\ IF straight \/ Count >= MaxAttempts THEN Fails("retryExhausted") ELSE NextDocument
      /\ UNCHANGED <<content, clock, deferred, cursor, passedOver>>

RecordSuperseded ==
  /\ Runs /\ run.step = "failed" /\ Moved
  /\ NextDocument
  /\ UNCHANGED <<content, clock, memory, passedOver>>

Stale ==
  /\ NextDocument
  /\ UNCHANGED <<content, clock, memory, passedOver>>

\* A withdrawal keeps its deadline, and a pending publish.
Marked == [draft[Doc] EXCEPT !.error = run.code,
                             !.publishAt = IF run.pass = "publish" THEN Never ELSE @]

\* A repeat of the same failure writes nothing.
Repeats == run.pass = "unpublish" /\ draft[Doc].error = run.code

Defer ==
  LET failures == deferred[Doc].failures + 1
      minutes == Backoff[Earlier(failures, Len(Backoff))]
  IN  deferred' = IF run.pass = "publish" THEN deferred
                  ELSE [deferred EXCEPT ![Doc] =
                          [failures |-> failures, at |-> Earlier(clock + minutes, MaxTime),
                           revision |-> revision'[Doc]]]

Record ==
  /\ IF Repeats THEN UNCHANGED <<draft, revision>>
     ELSE /\ Advance(Doc)
          /\ draft' = IF Doc \in stored THEN [draft EXCEPT ![Doc] = Marked] ELSE draft
  /\ ClearTries /\ Defer /\ NextDocument
  /\ UNCHANGED <<stored, published, live, clock, cursor, passedOver>>

\* Fault: the record does not compare the revision.
RecordFailure_AnyRevision ==
  Runs /\ run.step = "failed" /\ run.code # "notPublishable" /\ Record

RecordFailure ==
  /\ Runs /\ run.step = "failed" /\ ~Moved /\ run.code # "notPublishable"
  /\ Record

ParentIdle(now) ==
  Linked(Doc) => parent[Doc] \notin published /\ ~ParentDue(Doc, now)

\* refusalStillHolds: the blockers are computed anew under the lock ...
RecordReadsBlockers ==
  /\ Runs /\ run.step = "failed" /\ ~Moved /\ run.code = "notPublishable"
  /\ \/ ~Blocked(Doc) /\ Stale
     \/ /\ Blocked(Doc)
        /\ run' = [run EXCEPT !.step = "weighing", !.at = clock]
        /\ idleSeen' = ParentIdle(clock)
        /\ UNCHANGED superseded /\ UNCHANGED <<content, clock, memory, passedOver>>

\* ... then the parent's published row is counted ...
RecordReadsPublished ==
  /\ Runs /\ run.step = "weighing"
  /\ \/ Linked(Doc) /\ parent[Doc] \in published /\ Stale
     \/ /\ ~Linked(Doc) \/ (parent[Doc] \notin published /\ WaitOver(Doc, run.at))
        /\ Record
     \/ /\ Linked(Doc) /\ parent[Doc] \notin published /\ ~WaitOver(Doc, run.at)
        /\ run' = [run EXCEPT !.step = "weighed"]
        /\ idleSeen' = (idleSeen \/ ParentIdle(run.at))
        /\ UNCHANGED superseded /\ UNCHANGED <<content, clock, memory, passedOver>>

\* ... and in a query of its own whether its draft is due.
RecordReadsDue ==
  /\ Runs /\ run.step = "weighed"
  /\ \/ ParentDue(Doc, run.at) /\ Stale
     \/ ~ParentDue(Doc, run.at) /\ Record

RecordFails ==
  /\ Fault /\ run.step \in {"failed", "weighing", "weighed"}
  /\ NextDocument
  /\ UNCHANGED <<content, clock, memory, passedOver>>

\* A selection or the read of a revision throws: the task ends.
RunFails ==
  /\ Fault /\ run.step \in {"retries", "healthy", "publishes", "next"}
  /\ run' = Idle /\ superseded' = FALSE /\ idleSeen' = FALSE
  /\ UNCHANGED <<content, clock, memory, passedOver>>

\* The process ends: its transaction rolls back, its memory is gone.
Restart ==
  /\ Fault
  /\ run' = Idle /\ superseded' = FALSE /\ idleSeen' = FALSE
  /\ tries' = [d \in Docs |-> [p \in Passes |-> NoTries]]
  /\ deferred' = [d \in Docs |-> NotDeferred]
  /\ cursor' = 0
  /\ passedOver' = [d \in Docs |-> 0]
  /\ UNCHANGED <<content, clock>>

-----------------------------------------------------------------------------
Tick ==
  /\ Runs /\ clock < MaxTime
  /\ clock' = clock + 1
  /\ UNCHANGED <<content, run, memory, history, passedOver>>

Works ==
  \/ StartRun \/ SelectRetries \/ SelectHealthy \/ SelectPublishes \/ EndPass
  \/ Take \/ Skip \/ Expire \/ Claim \/ CommitWithdrawal \/ CommitPublish \/ Refused
  \/ RecordSuperseded \/ RecordFailure
  \/ RecordReadsBlockers \/ RecordReadsPublished \/ RecordReadsDue

Breaks == Rejected \/ Transient \/ RecordFails \/ RunFails \/ Restart

Next == Works \/ Breaks \/ Tick \/ \E d \in Docs : Author(d)

Spec == Init /\ [][Next]_vars

\* The task runs every minute and its queries answer; nothing is assumed of
\* authors, failures and restarts.
FairSpec == Spec /\ WF_vars(Works) /\ WF_vars(Tick)

-----------------------------------------------------------------------------
(* Properties.                                                             *)

\* What the scheduler did to the documents in a step; authors count theirs.
ByScheduler == edits' = edits

PublishesNow(d) ==
  /\ ByScheduler /\ revision'[d] # revision[d]
  /\ d \in published' /\ draft'[d].error = "none"

\* schedule.ts "a published row never carries a pending publishAt or a
\* scheduleError": or a discard would bring an old plan or marker back.
PublishedCarriesNoPlan ==
  \A d \in published : live[d].publishAt = Never /\ live[d].error = "none"

\* What the run publishes is due by the plan that is stored in that moment,
\* its window was open when it was judged under the lock, and it goes out as
\* it is stored: selections and revisions read earlier decide nothing.
PlanFollowed ==
  [][\A d \in Docs : PublishesNow(d) =>
       /\ draft[d].publishAt <= clock
       /\ run.at < draft[d].unpublishAt
       /\ live'[d] = [draft[d] EXCEPT !.publishAt = Never, !.error = "none"]
       /\ ~Blocked(d)]_vars

\* The scheduler drops a withdrawal only together with the published row,
\* whatever pass or failure the document is in.
WithdrawalKept ==
  [][\A d \in Docs : ByScheduler /\ Withdraws /\ draft'[d].unpublishAt # draft[d].unpublishAt =>
       d \notin published' /\ draft[d].unpublishAt <= clock]_vars

\* A planned publish ends in the open: the document is published, the draft
\* carries a marker, or the withdrawal that was due took it along.
NoSilentDrop ==
  [][\A d \in Docs : ByScheduler /\ draft'[d].publishAt # draft[d].publishAt =>
       \/ d \in published' /\ live'[d] = draft'[d]
       \/ draft'[d].error # "none"
       \/ d \in published /\ draft[d].unpublishAt <= clock]_vars

\* "Only if the revision is still r": what a run writes, a failure's record
\* included, is never written over what an author saved since the run read
\* the document's revision.
NewerPlanStands ==
  [][\A d \in Docs : ByScheduler /\ (draft'[d] # draft[d] \/ live'[d] # live[d]) =>
       ~superseded]_vars

\* "Every ready failure is attempted within N / WITHDRAWAL_RETRY_QUOTA runs":
\* as long as the process lives, the cursor passes every row in time.
RetriesTakeTurns ==
  \A d \in Docs : passedOver[d] * Quota < Cardinality(Docs)

\* A withdrawal is never given up: one that is due ends with the row gone, or
\* with an author's later deadline, after failures and restarts too.
WithdrawalsHappen ==
  \A d \in Docs :
    (d \in published /\ draft[d].unpublishAt <= clock)
      ~> ~(d \in published /\ draft[d].unpublishAt <= clock)

\* No due publish waits for ever: for a parent, a place in the batch, a
\* window that ended or a withdrawal that comes first.
PublishesSettle ==
  \A d \in Docs : (draft[d].publishAt <= clock) ~> (draft[d].publishAt > clock)

-----------------------------------------------------------------------------
(* Why it works: what holds between the steps of a run.                     *)

\* A run in the middle of a document has one, and a failure has its code.
RunInPlace ==
  /\ run.step \in InFlight => run.todo # <<>>
  /\ run.step \notin InFlight => ~superseded
  /\ run.step \in {"failed", "weighing", "weighed"} => run.code # "none"
  /\ run.step \in {"weighing", "weighed"} => run.pass = "publish"
  /\ run.step = "failed" /\ run.code = "notPublishable" => run.pass = "publish"

\* A document that exists has been saved, so its revision is not the one of
\* a document that does not.
SavedOnce == \A d \in stored : revision[d] > 0

\* A deleted document has no plan.
GoneUnplanned == \A d \in Docs \ stored : draft[d] = Unplanned

\* The revision a run read tells whether an author changed the document since:
\* it is the document's, or an author raised it, or the document is gone.
RevisionTells ==
  run.step \in InFlight =>
    IF ~superseded THEN revision[Doc] = run.r
    ELSE run.r > 0 /\ (IF Doc \in stored THEN run.r < revision[Doc] ELSE revision[Doc] = 0)

Locked == run.step \in {"claimed", "weighing", "weighed"}

\* What was judged under the lock is still so.
ClaimHolds ==
  /\ Locked => ~superseded /\ run.at <= clock
  /\ run.step = "claimed" => Doc \in stored
  /\ run.step = "claimed" /\ run.pass = "publish" =>
       draft[Doc].publishAt <= run.at /\ run.at < draft[Doc].unpublishAt
  /\ run.step = "claimed" /\ run.pass = "unpublish" =>
       draft[Doc].unpublishAt <= run.at /\ ~PublishFirst(Doc)

\* Between any two steps: a run is where it can be, its revision tells what
\* authors did, its judgement lasts, and no plan is published.  The inductive
\* invariant.
Scheduled ==
  /\ TypeOK /\ RunInPlace /\ SavedOnce /\ GoneUnplanned
  /\ RevisionTells /\ ClaimHolds /\ PublishedCarriesNoPlan

-----------------------------------------------------------------------------
(* What all this is for: a timetable that is kept.                          *)

Copies == [d \in Docs |-> IF d \in published THEN live[d] ELSE Unplanned]

Kept == INSTANCE Timetable WITH
  withdraws <- Withdraws, plan <- draft, out <- published, copy <- Copies, changes <- edits

\* Runs that select without a lock, read revisions, judge under the lock and
\* record failures later do to the documents what one look at each would do.
TimetableIsKept == Kept!Spec

-----------------------------------------------------------------------------
(* What a comment says of the same code, and the code does not keep.        *)

\* scheduled-publish.ts 711: "none: no link, the wait is over, or the linked
\* document is neither published nor due"; otherwise nothing is recorded.
RefusalsHold ==
  [][\A d \in Docs :
       draft'[d].error = "notPublishable" /\ draft[d].error # "notPublishable" =>
         WaitOver(d, run.at) \/ idleSeen \/ ParentIdle(run.at)]_vars

=============================================================================
