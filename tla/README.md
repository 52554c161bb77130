# Sinnlos Intranet: models, checks and proofs

Sinnlos is a company intranet: a Strapi 5 CMS (`src/apps/cms`), a Next.js web
(`src/apps/web`), shared rules (`src/packages/domain`) and the scripts that
deploy, back up and restore it (`src/infra`). This directory holds TLA+ modules
of its concurrent parts, the TLC configurations that check them on small
instances and proofs that TLAPS checks for all instances. `PROJECT.json` lists
components, runs, mutants, the source lines behind every definition, hazards
and theorems.

Paths below are relative to `src/apps/cms/src` unless they start with `src/`.

## 1. Inventory

One CMS process answers requests concurrently (every `await` is a point where
another request runs), Postgres is its only shared store, cron tasks run in the
same process. The web keeps a few in-memory structures (rate limiter, live bus)
and calls the CMS over HTTP.

| Component | State | Operations | Hard behaviour | What makes it correct |
|---|---|---|---|---|
| **Document lock and authoring** `utils/document-lock.ts`, `write-gate.ts`, `authoring-controller.ts`, `audit.ts` | content rows (draft and published), `content_versions`, `audit_events` | load a form, gate, lock, compare, act, advance, create, clone, deletes of departments and teams lock by lock | stale forms, gate judged before the lock, deletes under waiters, an account that changes meanwhile | no lost update, decisions about rows hold at commit, revisions tell every change |
| **Scheduled publishing** `cron/scheduled-publish.ts`, `utils/schedule.ts` | `publishAt`, `unpublishAt`, `scheduleError`, in-memory retry and cursor maps | select due, judge under the lock, publish, withdraw, record a failure | stale selection, repeated failures, starvation, restart | nothing is published early or after its window, every due withdrawal is tried |
| **Secret shares** `utils/secret-shares.ts`, `cron/secret-share-janitor.ts` | share rows with the envelope, their notifications, people | create, reveal, revoke, list, janitor, anonymise | answers after a confirmed commit, two locks, janitor with row lock only, connection lost around the commit | read at most once, by its recipient; no envelope outlives the pending state |
| **Polls** `api/poll-vote`, `utils/poll-*.ts` | polls, ballots, voter links, `votersRemovedAt` | vote, edit, publish, close, remove voters, delete | double ballots, edits of a voted poll, reopening after retention | one counted ballot per person, options fixed once voted |
| **User administration** `utils/user-admin.ts`, `utils/anonymise.ts` | users, roles, managers, blocks | update, invite, reset, role to Entra, anonymise | two admins at once, steps after the commit | an active admin remains, no manager cycle, an anonymised person stays so |
| **Sign-in** `extensions/users-permissions`, `utils/mfa-core.ts` | password, `tokenVersion`, TOTP step, recovery codes | sign in, change password, second factor, reset | replay, a change under an open session | a moved version ends sessions, a code counts once |
| **Identity providers** `idp/`, `entra/`, `oidc/` | identity links, role source | admit, provision, sync role and department | two first sign-ins, a role set by hand meanwhile | one user per identity, manual roles win |
| **Login limiter** `src/apps/web/src/lib/login-rate-limit.ts` | attempts per IP and per identifier | reserve, settle, evict | attempts in flight, eviction at the cap | never more attempts than the limit in a window |
| **Media** `utils/media-claims.ts`, `upload-orphans.ts`, sweep cron | file rows, links, tombstones | attach, release, reserve, remove, sweep | claim against removal, crash between bytes and row | a linked file keeps its bytes |
| **After-commit work** `utils/after-commit.ts` | callbacks of open transactions | register, commit, roll back | nested and sibling transactions | once after commit, never after rollback |
| **Cron** `cron/registry.ts`, `run-context.ts`, `cron-status.ts` | in-flight flag, recorded outcome | run, record, report late | overlap, work that outlives the run | one run at a time, a failure is never recorded as ok |
| **Wiki structure** `utils/wiki-*.ts` | parent links, spaces, revisions | create, move, publish, delete | loops through several pages, space deletes | parents form a forest, every page has its space |
| **Live updates** `utils/live-events.ts`, `src/apps/web/src/lib/live-*.ts` | batches, streams, subscriptions | emit, publish, sync, evict | lost and reordered messages, two legs | a tab that hears nothing polls |
| **Notifications, digests** `utils/notify.ts`, `digest/` | notification rows, `lastDigestAt` | fan out, prune, send | crash between mail and stamp | nothing of a window is lost |
| **Search** `search/meili-index.ts` | two indexes, fingerprint | check, rebuild, swap | content changes during a rebuild | the index catches up |
| **Training** `api/lesson-progress`, `utils/training-evidence.ts` | receipts with snapshots | complete, renew, prune | republished lesson, duplicates | a receipt names the version that was read |
| **Event answers, acknowledgements** `api/event-rsvp`, `api/acknowledgement` | rows without a unique key | answer, heal duplicates, count | unlocked check-then-insert | readers count the newest answer only |
| **Policies and reads** `bootstrap/permission-matrix.ts`, `utils/visible-ids.ts`, `policies/` | none of their own | decide one request | flags read after relations | covered by contract tests |
| **Deployment** `src/infra` | images, state file, lock | deploy, roll back, back up, restore | crash between steps | a rollback target that runs |

Interactions. Every write of a guarded content type goes through twelve
Document Service middlewares in a fixed order (`bootstrap/document-middlewares.ts`);
slot 2, the document lock, opens the transaction in which the others run.
Scheduler, admin panel and boot writers enter at the same place without a
token. Deletes of departments and teams take the same version rows from their
lifecycle hooks. Secret shares, user administration and anonymisation share the
directory lock. Media removal, live pings and notifications hang on the commit.

## 2. Modules

| Module | Part of the system | Proofs |
|---|---|---|
| `DocumentLock` | the authoring write path, most important since every guarded content type goes through it | `DocumentLockProofs`, `DocumentLockSafety` |
| `SecretShares`, which implements `ReadOnceSecret` | secret shares, their janitor, and the accounts and the process around them | `SecretSharesProofs`, `SecretSharesSafety` |
| `ScheduledPublish`, which implements `Timetable` | the scheduler against authors, failures and restarts | `ScheduledPublishProofs` |
| `PollVotes` | votes, authors of polls, the voter removal and the erasure of people | `PollVotesProofs` |
| `SignIn` | passwords, token versions, the second factor and mailed links of an account | `SignInProofs` |
| `UserDirectory` | the directory lock: administrators, the panel, the identity provider, the anonymisation | `UserDirectoryProofs` |

Each `MC` module gives the sets of a small instance, each `.cfg` one question.
A component that two others share is modelled in each at the grain that one
needs: accounts in `SecretShares` change in one step, since `UserDirectory` has
the steps; an anonymisation is a step of `PollVotes` and `SecretShares`, since
its transaction is the subject of `UserDirectory`; the document lock is a
guard in `PollVotes` and `ScheduledPublish`, since `DocumentLock` shows what it
gives.

A definition named `X_Something` is a plausible fault of `X`, listed with the
property it breaks under "mutants" in `PROJECT.json`; it is in no next-state
relation. What is left, and why, is section 9.

## 3. `DocumentLock`: revisions, the gate and the lock

### State and actions

| Module | Code |
|---|---|
| `draft`, `live` | a document's draft row and its published twin; a row is its body, its owning department (which stands for every link to a department) and its target team |
| `version` | the table `content_versions` (`NoRow`: never written, read as revision 0) |
| `audit` | the revisions of the document's audit rows, oldest first |
| `lockedBy` | the `FOR UPDATE` lock of the version row: a session's, or that of the delete of a department or team |
| `departments`, `teamDept` | departments, and the department of each team |
| `caller` | the class and department of each session's account, as the user row has them now |
| `refs` | deletes under way, by their target: the documents found and not yet locked |
| `pc`, `doc`, `action` | what each session (tab, panel user, boot writer) is doing |
| `expected`, `loaded` | its `If-Match` token, and the draft its form shows |
| `admittedAs` | the class and department the form or the gate read, and the classifier under the lock keeps |
| `observed`, `seen` | the revision, and then the rows, that the write gate read |
| `locked` | the revision found under the lock |
| `classSinceLock` | history: the document was in the scope of that class at some moment since the lock was the session's |

A request is several steps because the code reads, awaits and reads again:
`LoadRevision`/`LoadRows` (revision first), `GateRevision`/`GateAdmits`
(revision first, without any lock), `Lock`, the comparison (`Accept`,
`RevisionStale`, `ClassLost`, and for a department author's discard
`PrecheckDiscard`/`NeverPublished`), `Commit`. Everything a transaction writes
appears in `Commit`: the Document Service's effect, the audit row, the advance
or removal of the version row. `Rollback` is every way a transaction may fail.
`CommitOnGone` is the request whose document went while it waited. `Create`
is also the panel's clone, which is a create of another document's draft; gate
and COMMIT of a create are one step, for there is no document to race for.

The delete of a department or team is a process: `BeginDelete` locks its row
(`lockMatchedRows`) and finds the documents that link it without locking any
(`documentsLinking`), `AdvanceNext` locks them one by one in ascending order
(`advanceRevisionsOf`), and `DeleteDepartment` or `DeleteTeam` is the COMMIT:
revisions, cascade, target. In between sessions may change, discard or delete
what it found; new links to the target wait for its row (`Free`, `NewLinks`),
which may deadlock with the delete, and `FailDelete` or `Rollback` is the
database's way out. Neither `lockDocument` nor `advanceRevision` asks whether
the document is still there. `LockInVain` stands for the other transactions
that lock a document and find nothing to write: a skipped document of the
scheduler, a vote, the removal of a poll's voters, the pruning of answers.

`MoveTeam` and `ChangeAccount` (an account is demoted, promoted or moved) move
no revision.

The effect of the Document Service on the two rows, of the database's cascade
on links, and the row locks of foreign keys are external, modelled from how the
code uses them.

### Runs and bounds

| Run | Instance | Question |
|---|---|---|
| `lock_writes` | a department author, with a form or a predicted token 1, and the panel on one document; a team that moves, a department that is deleted, an account that loses its class; 3 changes | can one overwrite what the other did, through a form, a predicted token, or a gate decision that is older than the lock; does a write stay in its scope; does every change advance the revision; the inductive invariant |
| `lock_live` | a moderator, the panel and a team that is deleted, one document, under `FairSpec`, 2 changes | is every admitted write answered, and does every delete end |
| `lock_demoted` | one department author whose account loses its class, 1 change | does the gate's decision outlive a demotion: it does |

Two writers are enough for one to wait while the other acts, and three changes
for a document to be changed, deleted or withdrawn, and met by a third request
that was judged before both; one document carries all of the lock protocol.
`Deletable` names the departments and teams a run deletes: the department in
`lock_writes`, the team in `lock_live`. With one document a delete has one lock
to take; several, their order, a second department that an account or a team
moves to, and a team deleted beside its department are in the proofs only,
which need none of these bounds.

Fairness. `FairSpec` asks strong fairness of each transaction, a session's
(`Proceed`, `Lock`) and a delete's (`Deleting`): its statements run to their
end, and Postgres queues the waiters of a row lock, of a version row or of what
a link goes to, so who waits is not passed over for ever. It asks weak
fairness of `EndDeadlock`: where a writer waits for the target's row and the
delete for the writer's lock, Postgres fails one of the two. It asks nothing of
clients: they may leave forms open.

### Where the code and its comments differ

`lock_demoted` finds that an author who is demoted between the gate and the
lock is accepted under it. The header of `utils/document-lock.ts` (lines 40-44)
says that no class under the lock answers 403 or 404, so that a demoted or moved
author cannot ride on the gate's older decision; the classifier re-reads
the document's rows only, with the role class and the department of the gate,
as `write-gate.ts:370` says. `NothingAfterLosingScope` is what does hold: a
document that left that scope is not written. The trace: the gate admits,
`ChangeAccount`, `Lock`, `Accept`.

Met while modelling, without a run. "The row goes with the document"
(`document-lock.ts:16`): a delete of a department or team that found a document
before it was deleted brings its version row back, at revision 1, and
`LockInVain` leaves one at revision 0. No property asks for what the sentence
says; such a row does no harm, since a documentId is not drawn again, and
`Maintained` and `TrailInOrder` are checked and proved with such rows present.
And the comment in `utils/authoring-uids.ts` says that every revision a
document reaches has its audit row: the delete hooks advance revisions without
one, and `TrailInOrder` is stated so that a revision may lack its row.

### Proofs

`DocumentLockProofs` proves the types, `DocumentLockSafety` the rest, for all
sets of documents, writers, departments, teams and bodies and any bound. The
safety properties are not inductive: that a form's token vouches for its draft
needs that no token is ahead of its document, that deletes do not let a
revision be reached twice (`Fresh`), and that a gate's rows were read after its
revision. `Maintained` says this of every session: `TokensVouch` for what was
read without a lock, `LockHolds` for what was judged under it; of the tables,
`RowsGoTogether` (a published row has its draft, and a documentId that was never
drawn has no version row); and of every delete under way, `LinksFound`: each
document that links its target is still to be locked or is locked by it, for the
target's row lets no link in. `EveryChangeAdvances` rests on the last: the
cascade changes no row whose version it does not hold. The proof separates the
session that acts from the bystanders (`Bystanders`), for which a step of
another document or a higher revision keeps every clause. The action properties
follow from `Maintained` in the state before the step. `TrailInOrder` has an
induction of its own on top of it.

## 4. `SecretShares` and `ReadOnceSecret`

### State and actions

| Module | Code |
|---|---|
| `people` | the users: blocked, role, token version, anonymised; `NoPerson` once deleted |
| `shares` | rows of the shares table: parties, creation, expiry, state, the envelope (by the key that sealed it), the end |
| `notices` | the shares whose notification exists |
| `clock` | time, in ticks; expiry, the day of the daily cap and the retention are so many ticks |
| `key`, `faults` | the running process's encryption key; how often it or the janitor has failed |
| `pc`, `request` | each session's place and what it asked for: with the token version it was authenticated at and, once judged, the time and the verdict |
| `phase`, `now`, `todo`, `row`, `due` | the janitor: its step, the time it began, the ids it selected, the row it holds, and the time it judged that row due |
| `reads` | history: how often a text was handed out |

`create`, `reveal` and `revoke` take the directory lock (`LockDirectory`), both
user rows (`LockPeople`), judge the caller on the locked row (`JudgeCreate`,
`JudgeCaller`), lock and judge the share (`LockShare`, `JudgeReveal`,
`JudgeRevoke`), and write at the COMMIT (`CommitCreate`, `CommitEnd`). The
answer is a step of its own (`Answer`), after the confirmed COMMIT, as
`confirmed()` has it; a COMMIT that took effect and whose acknowledgement is
lost is `AnswerBusy`, one that did not is `Rollback`. A reveal with another key
than the one that sealed the text cancels the share, as the code does.

The janitor selects up to `Batch` ids without a lock (`RunJanitor`,
`NextStep`), then for expired and ineligible shares locks, judges again and
ends one row per transaction (`JanitorLock`, `JanitorJudge`, `JanitorEnd`), and
deletes orphans and rows past retention in one transaction (`JanitorDelete`).
Selections, transactions and runs may fail. Accounts change at any moment
their row is free: by administration (with the directory lock, which the
change does not need in the model: it is one step), by the Content Manager
(without), and by anonymisation, which deletes the person's shares first.

Left out: the per-minute limiter and the second-factor gate (both can only
refuse, which `Rollback` may do at every place), a missing key (refuses), lists
and the shape of answers, and the remaining steps of an anonymisation. Two
transactions that lock a row and its notification in opposite order may
deadlock; the abort is a `Rollback` or `JanitorFails`, the order itself is not
modelled.

### The abstract specification

`ReadOnceSecret` has one variable, the fate of every secret: unborn, held,
taken, read, gone. Nothing that was taken or is gone is held again. In
`SecretShares`, `Fate` maps a share: pending is held, a committed reveal whose
answer has not left is taken, one whose answer left is read, all else is gone.
`SecretIsReadOnce` is the abstract specification under this mapping, checked in
`secrets_race` and proved.

### Runs and bounds

| Run | Instance | Question |
|---|---|---|
| `secrets_race` | two people, one of whom changes at will, two roles (one may send and receive, one only hold a session), two sessions, one share, two keys, one fault | is a text read twice, or read and told to be expired; do checks hold at the COMMIT; does anything of an anonymised person stay; is a share ended or a row deleted before it is due; the refinement |
| `secrets_quota` | three people, two sessions, two shares, limits of one | do two requests share the last place |
| `secrets_live` | `FairSpec`, one row per janitor step, two shares, an account that goes | does every pending share end, however many rows do not; is every orphan deleted |

`MaxTime` bounds the clock (a create is only admitted if its expiry is within
the bound, so that an expiry is always reached), `MaxVersion` the token
versions, `MaxFaults` the restarts and the janitor's failures; requests may
roll back or lose their answer without a bound. One share suffices for the
races on a share, as locks and states are per row; two sessions for one to hold
what the other wants. Sessions and the janitor repeat for ever, so a run covers
requests after requests. `secrets_quota` uses the symmetry of people and of
sessions, which is sound there: no account changes and no role differs.
`secrets_race` uses that of the sessions and of the keys.

Fairness: the clock runs (`Tick`), a request goes on (`Serving`: each of its
statements ends, or fails), the janitor is started every minute by cron and its
steps end (`Working`), and it gets its turn in the queue for a row lock (strong
fairness of `Waiting`). Failures of the janitor are finitely many, by
`MaxFaults`, which is 0 here (faults are in
`secrets_race`): a janitor that always fails ends nothing.

Some guards of the code are redundant to each other: with the directory lock
one reveal is alone anyway, and the share's row lock as well as the conditional
update (which is `Pending(s)` in `EndShare`) would suffice against the janitor.
No single one of these can be dropped to let a text be read twice; the mutants of the
runs change what does carry a property alone.

Met while modelling, without a run: the comment on `SECRET_CREATES_PER_DAY`
says that a sender may create so many shares in any 24 hours, in any state.
`createShare` counts rows, and the rows to a recipient whose account is deleted
or anonymised go: after that the sender may create again within the day.

### Proofs

`SecretSharesProofs` proves the types. Typing an ended share needs the verdict
of the request, and typing what the janitor ends needs that it holds rows only
in the two steps that end them, so `RequestsMatch` and `JanitorInPlace` go with
`TypeOK`. `SecretSharesSafety` proves `Guarded` from them, in five parts, each
kept by every step:

- locks: `OneDirectoryHolder`, and `RowHeldOnce` (a share is not held by a
  request and the janitor at once);
- `StillJudged`: what a request has judged so far is still true. Other
  requests wait behind the directory lock; the janitor's and an
  anonymisation's writes spare locked shares, account changes spare locked
  accounts;
- `TakenOnRecord`: a text in somebody's hand or handed out belongs to a share
  that is retrieved or gone. A share on record is not pending, so no second
  reveal takes it;
- what is in time: `CandidatesDue`, that the ids the janitor selected are of
  shares that are orphans, or past the retention, for as long as they are rows,
  and that a row it judged expired is; `RequestsInTime`, that a reveal was
  judged before the expiry. Both rest on what no step does (`NextRowsStay`:
  bring a row back, move its expiry or change an ended share; `NobodyReturns`:
  bring an account back), and on the clock, which only runs;
- what is left behind: `NothingOutlivesPending`, `ErasedBlocked`,
  `ErasedLeaveNothing`. An anonymised person is blocked, so no request judged
  them eligible.

`ReadOnce`, `NothingOutlivesPending`, `ErasedLeaveNothing` and the action
properties `PeopleStillMay` and `EndsAndDeletionsDue` follow, and
`SecretIsReadOnce`: every step maps to one of the abstract steps or none. The
deletions need no lock to be due: what the janitor selected cannot stop being
so (`SelectedStay`), which is why it need not judge again.

`QuotaHeld` needs what a create was judged by to last until its COMMIT
(`RoomKept`): between the two, shares of its sender and its recipient only end
or expire, and no other create can have been judged, for the directory lock has
one holder. The COMMIT then adds one share to sets that had room for one
(`OneOpened`); every other step leaves each set of open shares a part of what
it was (`NoneOpened`).

## 5. `ScheduledPublish` and `Timetable`

### State and actions

| Module | Code |
|---|---|
| `kind`, `parent` | which type the documents are of, and the course or parent page each draft links; chosen at the start and never changed |
| `stored`, `published` | documents with a draft row, and with a published one |
| `draft`, `live` | `publishAt`, `unpublishAt` and `scheduleError` on the draft row, and their copies on the published row |
| `revision` | the document's revision in `content_versions`, 0 once deleted |
| `clock` | minutes, up to `MaxTime`, which stands for all later instants |
| `run` | the run: its step and pass, the instant its selections use, the documents left, the revision `r` read for the current one, the instant it was judged at, the failure |
| `tries`, `deferred`, `cursor` | the three maps of `TransientAttempts`, in memory only |
| `superseded`, `idleSeen`, `passedOver` | history for the properties |

Four kinds of types differ in what the scheduler does with them: `withdrawn`
(documents, quick links: the passes are withdrawals, then publishes),
`expiring` (announcements: the end of the window is not a withdrawal, but a
publish after it is refused), `page` (a parent is optional) and `lesson` (a
course is required). `Init` picks one of the configured kinds and its links.

A run is `StartRun`, for withdrawals `SelectRetries` and `SelectHealthy`, for
publishes `SelectPublishes`. Each selection is one step without a lock: what it
read can be stale when a document's turn comes, which `Take` (read the
revision) and the transaction meet. In the transaction `Skip`, `Expire` and
`Claim` judge the stored draft at a fresh instant under the document's lock;
`CommitWithdrawal` and `CommitPublish` are what it writes. A failure rolls back
(`Refused` by publish readiness, `Rejected` for good, `Transient`), and is
recorded in a second transaction that compares the revision again
(`RecordSuperseded`, `RecordFailure`). For a refusal this transaction computes
the blockers anew and looks at the parent, which it does not lock:
`RecordReadsBlockers`, `RecordReadsPublished`, `RecordReadsDue` are one query
each. `RecordFails` and `RunFails` are errors there and in the selections,
`Restart` the end of the process: its memory goes, its transaction rolls back.

Authors (`Save`, `PublishNow`, `Unpublish`, `Discard`, `Delete`) take one step
each, with what `utils/schedule-clear.ts` adds to their operation; their
transactions are the subject of `DocumentLock`. They wait while the run holds
their document.

`tries` keeps only the last revision that failed of a document and pass. The
code keys its map by revision too, but a run only ever asks for the revision it
just read, and revisions do not return.

Left out: clones (a clone carries no plan), types that are switched off, the
cap of 10000 remembered failures, the order of the types in a run (one type is
modelled, the types share no row but links), wording of the errors, the audit
rows of `DocumentLock`. A missing required field refuses as `Rejected` does,
and stands for the code "invalid" too.

### The abstract specification

`Timetable` knows no runs, selections, locks, revisions or memory: a plan per
document, the documents that are out, each with a copy of its plan, a clock, and
how many changes authors made. Between two changes a document is put out when it
is due and its window was open at an instant since, taken in when its end has
come, or its plan is dropped with a marker (`Publish`, `Withdraw`, `Miss`,
`Mark`), each by one look at the document as it is. Nothing else ever touches a
plan or what readers see: the action properties each say what one kind of step
may do, the refinement that there is no other kind. An author's step raises
`changes`, so that what the scheduler does cannot pass for an author's. In
`ScheduledPublish` what is out shows its live row (`Copies`), the rest maps by
name; `TimetableIsKept` is checked in `schedule_plans` and proved.

### Runs and bounds

| Run | Instance | Question |
|---|---|---|
| `schedule_plans` | two documents of each kind, in a chain or a loop of parents, 2 changes by authors, one failure or restart | does everything the scheduler writes follow the plan that is stored then; does a plan or a deadline get lost; do failing withdrawals take turns |
| `schedule_live` | documents to withdraw and pages that are each other's parent, one change and one failure, `FairSpec` | does every due withdrawal and every due publish end |
| `schedule_course` | a lesson and its course | violated, see below |

Two documents are the least with which one waits for another, a batch is
passed over, or a run reaches a document late; quota and scan limit of 1 make
the cursor necessary. Two changes let an author save and save again around a
failure's record. `MaxTime` of 2 is past every deadline, wait and backoff. An
instance with a third document is too large with authors; for
`RetriesTakeTurns`, which is about longer circles of rows, the theorem stands
for it.

Fairness: cron starts the task every minute and its queries answer (`Works`),
and time passes (`Tick`). Authors may do nothing; failures are finite by
`MaxFaults`, since a document whose every publish fails for ever settles only
by its markers, and one whose withdrawal always fails is never withdrawn.

Finding (`schedule_course`). `dependencyState` asks first whether the course is
published and then, in a query of its own, whether its draft is due. Under
READ COMMITTED each query has its own snapshot. A course that is due at the
first and published by hand in between is neither at its query, so the lesson's
refusal is recorded and its plan cleared, though its course was at every
instant published or due. The comment at the function says "none" means neither.

Two things were met that cost nothing and have no run. A save between the two
selections of a run can put one withdrawal into both lists: the second attempt
comes within the backoff of the first. And a withdrawal that was deferred once
records `retryExhausted` on its next single transient failure, where
`schedule.ts` describes the marker as repeated ones.

### Proofs

`ScheduledPublishProofs` proves the inductive invariant `Scheduled`. It holds
the types and what they rest on (`RunInPlace`: a run in the middle of a
document has one, and a failure has its code). A document that exists has a
revision (`SavedOnce`) and one that does not has no plan (`GoneUnplanned`), so
what is due exists. The two parts that carry the properties are `RevisionTells`, that the revision read
before the lock equals the document's exactly as long as no author changed it
(a delete takes it to 0, below any revision read from a stored document), and
`ClaimHolds`, that what was judged under the lock is still so at the commit,
since authors wait and time only passes. Neither is inductive without the
other: the claim compares revisions, and a claimed document must not be
superseded later.

Four steps of the scheduler write a document (`SchedulerWrites`), each with the
revision the run read: `NewerPlanStands` is this, and `PlanFollowed`,
`NoSilentDrop` and `WithdrawalKept` (no run checks it by itself, for
`TimetableIsKept` says it too) follow from what each of the four writes
(`PublishFollows`, `WithdrawalFollows`, `ExpiryFollows`, `RecordFollows`).

`TimetableHolds` maps these four to `Publish`, `Withdraw`, `Miss` and `Mark`, an
author's step to `Change`, and every other step to none but the clock's
(`NextKeepsTimetable`). It needs one more invariant, `PassesMatch`: only a type
whose documents are withdrawn has a pass that withdraws. That the code judges a
document at `run.at` and commits later is where `Publish` may only say that the
window was open at some instant since the document was due.

`RetriesTakeTurns` is proved for any number of rows, quota and scan limit, with
authors' changes, failures and runs that end early in between. `Ahead(c, d)` is
the set of row ids from a cursor round to a row. A run that passes a ready row
over has met a limit before it (`PassedOver`), so it examined at least a quota
of rows, all of them in `Ahead(cursor, d)`, and left the cursor on the last of
them: that set shrinks by a quota or more (`CursorApproaches`). What the passes
took and what is still ahead stay within the number of rows (`TurnsComing`),
and the row itself is always ahead. That a limit reached means as many rows
(`FirstAreAsMany`) is shown by numbering the rows by how many come before them,
an injection between sets of one size.

## 6. `PollVotes`

### State and actions

| Module | Code |
|---|---|
| `draft`, `live` | a poll's draft row and its published one: options, whether voters are named (`mode`), `closesAt`, and `votersRemovedAt` as a flag |
| `ballots`, `last` | `poll_votes` with the two links to poll and voter, by id; and the last id handed out |
| `pc`, `request` | votes the server works on: asked (nothing locked), judged (the poll's lock is held) |
| `janitor` | a run of `unlinkPollVoters`: the polls found due before any lock, and the instant it judges them by |
| `erased`, `gone` | people anonymised, accounts deleted |
| `accepted` | history: how many votes of a person on a poll were answered with success |

A vote is `Ask` (the first read, outside the transaction), `Judge` (the lock,
and all of `castVote` up to the insert) and `Commit`. No constraint makes a
ballot unique, so what keeps a second one out is that every vote of a poll
looks under the same lock. A ballot also carries, for the properties, the
option's text and the anonymity it was cast under.

Authors' actions are one step each, under the poll's lock (`~Held`), as
`createPollAudienceGuard` runs inside the document lock's transaction: `Update`
with any subset of the guarded fields in its payload, publishing or not,
`Publish`, `Unpublish`, `DiscardDraft`, `Create`, `Delete`. `NotFrozen` and
`NotReopened` compare what the action would leave with the published row.
`votersRemovedAt` is in no payload (`Overlaid`).

The nightly run reads the due polls without a lock (`StartRun`), judges each
again under its lock and removes in one transaction (`RemoveVoters`), may fail
on one (`FailPoll`), stops at `PerRun`, and deletes orphaned ballots
(`DeleteOrphans`). `Erase` is the transaction of an anonymisation, which takes
no poll's lock: a vote judged before may commit afterwards, and `SweepErased`
finds it. `DeleteAccount` is what the database leaves of a voter deleted in the
panel: ballots without a voter. `Init` allows duplicates from before the lock.

Left out: who sees a poll and who is in its audience (they can only refuse),
the shape of the results.

### Run, bounds, fairness

`polls_votes`: one poll, one person and two votes at a time, two options in
either order, ballots from an earlier release or none, one change by an author,
one failure or restart, one day that passes, `FairSpec`. The poll is closed
already, or open until an author closes it; a closing time that comes of itself
while votes are on their way is in the proofs only. A second poll shares no row with
the first except orphans, which a deleted poll leaves too; a second person is in
the proofs only, since `OneVoteEach` is about one. One change is one between
the other steps; sequences of changes are in the proofs, which bound nothing.

Fairness: requests end (`Voting`), cron starts the janitor and its statements
end (`StartRun`, `DeleteOrphans`), the queue of a row lock is fair
(`RemoveVoters`, strongly: votes may take the lock again and again), the sweep
of erased accounts is started every night (`SweepErased`), and days pass.
Failures are finite by `MaxFaults`.

### Proofs

`PollVotesProofs` proves `PollsKept` inductive. `OneVoteEach` needs that whoever
had a vote accepted is found again or the poll is closed for good
(`Remembered`), and `ClosedForGood` in turn that no voter is linked and the
closing time has passed and stays past. `JudgedStill` is what a vote was let
through by, up to its commit: no other request, author or janitor gets the
lock, and those who need none (`Erase`, `DeleteAccount`, `DeleteOrphans`) only
take ballots of the person away. `CastAsShown` is inductive only with
`BallotsPlaced` (an unused id carries no ballot, a linked one is of a poll that
exists). `StaysAnonymous` follows with `RowsAgree`: both rows of a poll carry
the same flag. `ResultsStand` is an action property; each step either leaves
the ballots of a poll as they are (`UntouchedStands`) or has a lemma of its own.

## 7. `SignIn`

### State and actions

| Module | Code |
|---|---|
| `account` | one user row: the password (by the version it was set at), `tokenVersion`, the second factor's secret (0: none), `totpLastStep`, recovery codes left, the stored link, the block |
| `holder` | the `FOR UPDATE` lock of the row (`lockUserRow`) |
| `pc`, `request` | requests: at the password check, at the second factor, ready for the transaction, judged in it |
| `tokens`, `sent`, `sealed` | what left the server: tokens, mailed links, sealed enrolments |
| `used`, `redeemed` | history: how often a code or a link was accepted |

A sign-in reads the token version first (`SignIn`, `signInTokenVersion`), then
the password is checked (`CheckPassword`, the plugin's, external), then the
enrolment is read (`AskFactor`); with a second factor a transaction locks the
row, compares the version and consumes the code (`Judge`, `CommitSignIn`). The
account's own changes go the same way from a session: `Activate` with a sealed
enrolment, `OwnChange` to disable the factor or change the password,
`CheckOwn` outside the transaction, `Judge` inside it, and a commit each.
`Redeem` is a mailed link. `Others` are the writers of one statement:
administrators, the panel, `infra/mfa-reset.sh`, a sign-out.

What people type is what they may know: `Held` is every code their
authenticators show about now and every recovery code they were given, used or
not, and every enrolment, token and link may be sent again at any time.

Left out: the limiters, that a link's address is still the account's
(`linkMatches` compares it), what restricted sessions may read, the session
cookie of the web. Accounts share no state here, so there is one.

### Run and bounds

`signin_codes`: two requests at a time (as many as it takes for one to act
between another's steps), one recovery code, symmetry of the requests, which
are alike. `Bounds` says how far the rest goes together: one raise of the
version, one enrolment, one link and one time step, or two raises and two links
with one time step and no enrolment. The first has enrolments and links end after one step, so
both their ends are reached; the second lets a link be replaced by a newer one,
be redeemed twice, and be followed after a password that was set another way. A
secret that was reset and activated again is in the proofs only.

### Proofs

`SignInProofs` proves `AccountKept`, of five kinds of facts: a token of the
account's version was made with its password and factor (`TokensVouch`); what a
request read is true while the version has not moved, and what it was judged by
under the lock is true until it commits (`RequestKnows`, `Stands`); a secret
belongs to one enrolment and one version (`EnrolmentsTold`); a code that was
used is past the last step, or struck out, or of a secret that cannot return
(`CodeKept`); a stored link is the last one and unused (`LinkKept`). The
version is what ties them: every change of password, factor or block raises it,
except an activation, which needs the account to have no factor. `CodesOnce`
needs `EnrolmentsTold`, for a secret that was reset and activated again would
accept its old codes again. `OwnChangesProven` is an action property.

## 8. `UserDirectory`

### State and actions

| Module | Code |
|---|---|
| `person` | the users: role, block, `roleSource`, `entraAppliedRole`, and whether the name is their own or a tombstone's |
| `holder` | the directory lock (`lockDirectory`) |
| `pc`, `request` | updates, hand-backs and anonymisations of administrators, and sign-ins with the provider: queued, directory (lock held), judged, loaded |
| `chosen` | history: the role somebody in the intranet chose for a person, if it is theirs to choose |

A request of an administrator was let in by the policy (`Ask`), waits for the
directory lock (`TakeDirectory`), locks the caller's row and judges it again
(`JudgeCaller`: an active administrator, with the token version of the
request), reads the target (`LoadTarget`, which locks it for an anonymisation)
and commits. A sign-in reads the row without a lock (`SignIn`), takes the same
lock and then the row (`LockIdentity`) and decides on the role
(`decideRoleWrite` is `Synced`). Writers that take one row alone: the panel
(`PanelSave`, refused for a tombstone; it saves the whole form, with who owns
the role and what the provider wrote), a password change or sign-out
(`MoveVersion`), the profile form and the provider's profile sync
(`SaveProfile`, which `writeWhileUnblocked` guards). `Holds` says which rows a
request keeps others from; `updateUser` does not lock its target.

Left out: departments and managers, invitations and first sign-ins, the pages
of notifications rewritten after an anonymisation, the mode "dry-run" of the
role sync.

Met while modelling, without a run: `updateUser` reads whether the target is
blocked without locking the row and raises the token version only if it was
not. If the panel unblocks the person in between, the update blocks them again
and the version stays, so a session made in between would be let in after the
next unblock.

### Run and bounds

`directory_admins`: two people, one of them known to the provider, two requests
at a time, two roles. Two administrators are what it takes to demote each
other; symmetry of the requests. Everything repeats for ever, so the run needs
no bound on steps. The provider grants any role or none at every sign-in. A
panel save leaves the source of the role as it is, or puts back the provider's
(`Owners`), as a form that is older than the intranet's choice does: by that
save the role is the provider's again.

### Proofs

`UserDirectoryProofs` proves `DirectoryKept`: whoever is inside has the lock
(`OneHolder`), what a request was let in by, and loaded, stands until it
commits (`Judged`), a tombstone is blocked (`ErasedBlocked`), and a chosen role
shows in the row (`ChoiceShows`: its source is the intranet, or the role the
provider wrote last is another). The clause about the caller rests on the row
lock against panel and sign-outs and on the directory lock against other
administrators and sign-ins; without either a blocked administrator could still
block the last one. `AdminRemains` then holds because whoever commits is an
active administrator, and does not act on themselves. `RoleChoiceStands` and
`TombstoneStays` follow from `ChoiceShows` and `ErasedBlocked`.

## 9. What is proved, what is only checked, what is not modelled

All theorems are for every value of the constants that meets the named
assumptions of the modules (null values differ from ordinary ones, limits are
natural numbers, row ids are a finite set of numbers, plans are times). The
invariants the proofs rest on are checked by the runs too where they say more
than types (`Maintained`, `Guarded`, `Scheduled`, `PollsKept`, `AccountKept`,
`DirectoryKept`), except `RoomKept`, `PassesMatch` and `TurnsComing`, which are
stated beside their proofs.

Checked by TLC only: the liveness properties `RequestAnswered`, `PendingEnds`,
`OrphansGo`, `DeletesEnd`, `WithdrawalsHappen`, `PublishesSettle`, `VotersForgotten` and
`ErasedForgotten` (liveness under fairness is out of the prover's reach), and
the comments the code contradicts (`schedule_course`, `lock_demoted`). Every other property of a
run is a theorem.

Not modelled, though a model would be worth having: `UploadClaims` (reservation
and removal of a file against documents that link it; first in line),
`WikiStructure` (parents as a forest under the structure row, and the order of
its locks with the cascade), `LoginLimiter`, `LiveUpdates` and `Digests`. They
come last because what they lose is a file's bytes, a page's place, a limit of
one process, freshness, or a second mail; the six parts above decide what is
published, read, counted and let in. The project keeps about a dozen runs, one
per question, so that all of it can be checked again with every change of the
code; these parts would need runs of their own.

Not to be modelled: `AfterCommit` and `SearchIndex`, whose subject is the
behaviour of a library and of a search server; event answers, whose statements
take no lock and are healed by the next reader; notifications, training,
classifieds and the like, one statement or one guarded action each; policies
and reads, decisions without a state of their own; the pages of the web,
formatting and wording; the scripts, which call external tools one after the
other under one lock file.
