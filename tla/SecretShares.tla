---------------------------- MODULE SecretShares ----------------------------
(***************************************************************************)
(* Secret shares: one text from one employee to one colleague, opened once *)
(* and then erased (utils/secret-shares.ts), and the janitor that ends what *)
(* nobody opens (cron/secret-share-janitor.ts).                            *)
(*                                                                         *)
(* create, reveal and revoke run in one transaction each: the directory    *)
(* lock, both user rows, then the share row.  Their answer leaves only     *)
(* after the COMMIT is confirmed, and a connection lost around it leaves   *)
(* the caller with "busy", whether the COMMIT took effect or not.  The     *)
(* janitor takes only share rows.  Accounts change under their own row     *)
(* lock, some of them (the Content Manager) without the directory lock.    *)
(* A process that faults drops every transaction, and may come back with *)
(* another key.                                                            *)
(***************************************************************************)
EXTENDS Integers, FiniteSets

CONSTANTS
  People,
  Volatile,               \* those whose account is changed meanwhile
  Shares,                 \* row ids, drawn in ascending order
  Sessions,               \* concurrent requests
  Roles, StaffRoles, SendRoles, ReceiveRoles,
  Keys,                   \* encryption keys the process may run with
  Lifetimes,              \* a share's lifetimes, in ticks
  Day, Retention,         \* 24 hours and 7 days, in ticks
  PendingPerSender, PendingPerRecipient, CreatesPerDay,
  Batch,                  \* rows per janitor step
  Unborn, Deleted,        \* a share before its creation, and after its row went
  NoPerson, NoRequest, NoEnvelope, NoShare,
  MaxTime, MaxVersion, MaxFaults   \* bounds of the model

Ends == {"retrieved", "revoked", "expired", "cancelled"}
States == {"pending"} \cup Ends

Person == [blocked : BOOLEAN, role : Roles, version : Nat, erased : BOOLEAN]

Share == [from : People, to : People, created : Nat, expires : Nat, state : States,
          envelope : Keys \cup {NoEnvelope}, ended : Nat]

Request == [op : {"create", "reveal", "revoke"}, caller : People, peer : People, version : Nat,
            share : Shares \cup {NoShare}, life : Nat, at : Nat, verdict : Ends \cup {"none"}]

ASSUME PeopleAssumption == Volatile \subseteq People

ASSUME IdsAssumption == Shares \subseteq Nat /\ IsFiniteSet(Shares) /\ NoShare \notin Shares

ASSUME RolesAssumption ==
  StaffRoles \cup SendRoles \cup ReceiveRoles \subseteq Roles

ASSUME SecretNullsAssumption ==
  /\ NoEnvelope \notin Keys
  /\ Unborn # Deleted /\ {Unborn, Deleted} \cap Share = {}
  /\ NoPerson \notin Person
  /\ NoRequest \notin Request

ASSUME NumbersAssumption ==
  /\ Lifetimes \subseteq Nat \ {0}
  /\ {Day, Retention, Batch, MaxTime, MaxVersion, MaxFaults} \subseteq Nat
  /\ {PendingPerSender, PendingPerRecipient, CreatesPerDay} \subseteq Nat

VARIABLES
  people,                 \* the accounts, NoPerson once deleted
  shares,                 \* the rows of the shares table
  notices,                \* the shares whose notification exists
  clock,
  key, faults,            \* the key of the running process; janitor faults and restarts so far
  pc, request,            \* each session's place and request
  phase, now, todo,       \* the janitor: its step, its clock, its candidates
  row, due,               \* the row it holds, and when that row was judged due
  reads                   \* history: how often each text was handed out

table == <<shares, notices>>
process == <<key, faults>>
janitor == <<phase, now, todo, row, due>>
vars == <<people, table, clock, process, pc, request, janitor, reads>>

(***************************************************************************)
(* People and rows.                                                        *)
(***************************************************************************)

\* isEligible, canSend, canReceive.
Eligible(p) ==
  people[p] # NoPerson /\ ~people[p].blocked /\ people[p].role \in StaffRoles

CanSend(p) == Eligible(p) /\ people[p].role \in SendRoles

CanReceive(p) == Eligible(p) /\ people[p].role \in ReceiveRoles

IsRow(s) == shares[s] \notin {Unborn, Deleted}

Pending(s) == IsRow(s) /\ shares[s].state = "pending"

Rows == {s \in Shares : IsRow(s)}

(***************************************************************************)
(* Locks.  A transaction keeps what it locked until it ends.               *)
(***************************************************************************)

HoldsDirectory(w) == pc[w] \in {"people", "caller", "share", "reading", "writing"}

DirectoryFree == \A w \in Sessions : ~HoldsDirectory(w)

\* Fault: only the caller's row is locked.
Parties_CallerOnly(w) == {request[w].caller}

Parties(w) == {request[w].caller, request[w].peer}

HoldsPeople(w) == pc[w] \in {"caller", "share", "reading", "writing"}

PersonFree(p) == \A w \in Sessions : HoldsPeople(w) => p \notin Parties(w)

HoldsShare(w) == pc[w] \in {"reading", "writing"} /\ request[w].op # "create"

\* Fault: the janitor's row is not taken for locked.
ShareFree_Requests(s) == \A w \in Sessions : HoldsShare(w) => request[w].share # s

ShareFree(s) == row # s /\ \A w \in Sessions : HoldsShare(w) => request[w].share # s

Init ==
  /\ people \in [People -> [blocked : {FALSE}, role : Roles, version : {0}, erased : {FALSE}]]
  /\ shares = [s \in Shares |-> Unborn]
  /\ notices = {}
  /\ clock = 0
  /\ key \in Keys /\ faults = 0
  /\ pc = [w \in Sessions |-> "idle"]
  /\ request = [w \in Sessions |-> NoRequest]
  /\ phase = "idle" /\ now = 0 /\ todo = {} /\ row = NoShare /\ due = {}
  /\ reads = [s \in Shares |-> 0]

(***************************************************************************)
(* A request: its session was verified at the account's token version.     *)
(***************************************************************************)

Ask(w, asked) ==
  /\ pc[w] = "idle"
  /\ pc' = [pc EXCEPT ![w] = "directory"]
  /\ request' = [request EXCEPT ![w] = asked]
  /\ UNCHANGED <<people, table, clock, process, janitor, reads>>

AskCreate(w, p, q, life) ==
  /\ Eligible(p) /\ p # q
  /\ Ask(w, [op |-> "create", caller |-> p, peer |-> q, version |-> people[p].version,
             share |-> NoShare, life |-> life, at |-> 0, verdict |-> "none"])

\* Who is not the recipient, or not the sender, gets 404 from the first read.
AskReveal(w, s) ==
  /\ IsRow(s) /\ Eligible(shares[s].to)
  /\ Ask(w, [op |-> "reveal", caller |-> shares[s].to, peer |-> shares[s].from,
             version |-> people[shares[s].to].version, share |-> s, life |-> 0, at |-> 0,
             verdict |-> "none"])

AskRevoke(w, s) ==
  /\ IsRow(s) /\ Eligible(shares[s].from)
  /\ Ask(w, [op |-> "revoke", caller |-> shares[s].from, peer |-> shares[s].to,
             version |-> people[shares[s].from].version, share |-> s, life |-> 0, at |-> 0,
             verdict |-> "none"])

Go(w, place) == pc' = [pc EXCEPT ![w] = place]

LockDirectory(w) ==
  /\ pc[w] = "directory" /\ DirectoryFree
  /\ Go(w, "people")
  /\ UNCHANGED <<people, table, clock, process, request, janitor, reads>>

LockPeople(w) ==
  /\ pc[w] = "people" /\ \A p \in Parties(w) : PersonFree(p)
  /\ Go(w, "caller")
  /\ UNCHANGED <<people, table, clock, process, request, janitor, reads>>

\* assertFreshCaller, on the caller's locked row.  The second-factor gate
\* can only refuse (Rollback).
FreshCaller(w) ==
  LET p == request[w].caller
  IN Eligible(p) /\ people[p].version = request[w].version

\* What the pending quotas count.
Open(s) == Pending(s) /\ shares[s].expires > clock

\* Fault: the recipient's limit counts what this sender sent.
WithinQuota_PerPair(p, q) ==
  /\ Cardinality({s \in Rows : Open(s) /\ shares[s].from = p}) < PendingPerSender
  /\ Cardinality({s \in Rows : Open(s) /\ shares[s].from = p /\ shares[s].to = q})
       < PendingPerRecipient

WithinQuota(p, q) ==
  /\ Cardinality({s \in Rows : Open(s) /\ shares[s].from = p}) < PendingPerSender
  /\ Cardinality({s \in Rows : Open(s) /\ shares[s].to = q}) < PendingPerRecipient
  /\ Cardinality({s \in Rows : shares[s].from = p /\ shares[s].created + Day > clock})
       < CreatesPerDay

JudgeCreate(w) ==
  /\ pc[w] = "caller" /\ request[w].op = "create"
  /\ clock + request[w].life <= MaxTime           \* bound: the expiry can be reached
  /\ FreshCaller(w)
  /\ CanSend(request[w].caller) /\ CanReceive(request[w].peer)
  /\ WithinQuota(request[w].caller, request[w].peer)
  /\ Go(w, "writing")
  /\ request' = [request EXCEPT ![w].at = clock]
  /\ UNCHANGED <<people, table, clock, process, janitor, reads>>

JudgeCaller(w) ==
  /\ pc[w] = "caller" /\ request[w].op # "create"
  /\ FreshCaller(w)
  /\ request[w].op = "reveal" => CanReceive(request[w].caller)
  /\ Go(w, "share")
  /\ UNCHANGED <<people, table, clock, process, request, janitor, reads>>

LockShare(w) ==
  /\ pc[w] = "share" /\ ShareFree(request[w].share)
  /\ Go(w, "reading")
  /\ UNCHANGED <<people, table, clock, process, request, janitor, reads>>

Decide(w, verdict) ==
  /\ Go(w, "writing")
  /\ request' = [request EXCEPT ![w].at = clock, ![w].verdict = verdict]
  /\ UNCHANGED <<people, table, clock, process, janitor, reads>>

\* The checks of a reveal under its locks.  A sealed text opens only with
\* the key it was sealed with; one that does not open ends the share.
JudgeReveal(w) ==
  LET s == request[w].share
  IN /\ pc[w] = "reading" /\ request[w].op = "reveal"
     /\ Pending(s) /\ shares[s].expires > clock /\ shares[s].envelope # NoEnvelope
     /\ Eligible(shares[s].from)
     /\ Decide(w, IF shares[s].envelope = key THEN "retrieved" ELSE "cancelled")

JudgeRevoke(w) ==
  /\ pc[w] = "reading" /\ request[w].op = "revoke"
  /\ Pending(request[w].share)
  /\ Decide(w, "revoked")

\* A refusal, a database error, or a COMMIT that failed.
Rollback(w) ==
  /\ pc[w] \notin {"idle", "committed"}
  /\ Go(w, "idle")
  /\ request' = [request EXCEPT ![w] = NoRequest]
  /\ UNCHANGED <<people, table, clock, process, janitor, reads>>

\* endShare: a conditional update that must change one row (if not, the
\* transaction fails), and the notification, in one transaction.
EndShare(s, to, at) ==
  /\ Pending(s)
  /\ shares' = [shares EXCEPT ![s].state = to, ![s].envelope = NoEnvelope, ![s].ended = at]
  /\ notices' = notices \ {s}

\* deleteShares: the notifications and the rows.
DeleteShares(gone) ==
  /\ shares' = [s \in Shares |-> IF s \in gone THEN Deleted ELSE shares[s]]
  /\ notices' = notices \ gone

CommitCreate(w, s) ==
  /\ pc[w] = "writing" /\ request[w].op = "create"
  /\ shares[s] = Unborn /\ \A t \in Shares : t < s => shares[t] # Unborn
  /\ shares' = [shares EXCEPT ![s] =
       [from |-> request[w].caller, to |-> request[w].peer, created |-> request[w].at,
        expires |-> request[w].at + request[w].life, state |-> "pending", envelope |-> key,
        ended |-> 0]]
  /\ notices' = notices \cup {s}
  /\ Go(w, "committed")
  /\ UNCHANGED <<people, clock, process, request, janitor, reads>>

CommitEnd(w) ==
  /\ pc[w] = "writing" /\ request[w].op # "create"
  /\ EndShare(request[w].share, request[w].verdict, request[w].at)
  /\ Go(w, "committed")
  /\ UNCHANGED <<people, clock, process, request, janitor, reads>>

Confirmed(w) == pc[w] = "committed"

\* The answer leaves, with the text if the request was a reveal.
Answer(w) ==
  /\ Confirmed(w)
  /\ reads' = IF request[w].verdict = "retrieved"
                THEN [reads EXCEPT ![request[w].share] = @ + 1]
                ELSE reads
  /\ Go(w, "idle")
  /\ request' = [request EXCEPT ![w] = NoRequest]
  /\ UNCHANGED <<people, table, clock, process, janitor>>

\* Fault: "busy" puts the share back.
AnswerBusy_Reopens(w) ==
  /\ pc[w] = "committed"
  /\ Go(w, "idle")
  /\ request' = [request EXCEPT ![w] = NoRequest]
  /\ shares' = IF request[w].verdict = "retrieved" /\ IsRow(request[w].share)
                 THEN [shares EXCEPT ![request[w].share].state = "pending",
                                     ![request[w].share].envelope = key]
                 ELSE shares
  /\ UNCHANGED <<people, notices, clock, process, janitor, reads>>

\* "busy": the acknowledgement of a COMMIT that took effect is lost.
AnswerBusy(w) ==
  /\ pc[w] = "committed"
  /\ Go(w, "idle")
  /\ request' = [request EXCEPT ![w] = NoRequest]
  /\ UNCHANGED <<people, table, clock, process, janitor, reads>>

(***************************************************************************)
(* The janitor: four steps a run, candidates first, then one transaction   *)
(* per share that ends (or one for all that are deleted).                  *)
(***************************************************************************)

\* The first Batch of a set of ids.
FirstOf(ids) == {s \in ids : Cardinality({t \in ids : t < s}) < Batch}

\* Fault: a pending share is kept as long as an ended one.
Expired_Retained == {s \in Rows : Pending(s) /\ shares[s].expires + Retention <= clock}

Expired == {s \in Rows : Pending(s) /\ shares[s].expires <= clock}

PartyIneligible(s) ==
  \E p \in {shares[s].from, shares[s].to} : people[p] # NoPerson /\ ~Eligible(p)

Ineligible == {s \in Rows : Pending(s) /\ PartyIneligible(s)}

\* Fault: only the recipient's account is looked for.
Orphans_Recipients == {s \in Rows : people[shares[s].to] = NoPerson}

Orphans == {s \in Rows : NoPerson \in {people[shares[s].from], people[shares[s].to]}}

\* Fault: the retention runs from the share's creation.
Ended_SinceCreated == {s \in Rows : ~Pending(s) /\ shares[s].created + Retention < now}

Ended == {s \in Rows : ~Pending(s) /\ shares[s].ended + Retention < now}

Start(step, ids) ==
  /\ phase' = step
  /\ todo' = FirstOf(ids)
  /\ UNCHANGED <<people, table, clock, process, pc, request, row, due, reads>>

RunJanitor == phase = "idle" /\ Start("expired", Expired) /\ now' = clock

NextStep ==
  /\ todo = {} /\ row = NoShare
  /\ \/ phase = "expired" /\ Start("cancelled", Ineligible) /\ UNCHANGED now
     \/ phase = "cancelled" /\ Start("orphans", Orphans) /\ UNCHANGED now
     \/ phase = "orphans" /\ Start("ended", Ended) /\ UNCHANGED now
     \/ phase = "ended" /\ Start("idle", {}) /\ now' = 0

JanitorLock(s) ==
  /\ phase \in {"expired", "cancelled"} /\ row = NoShare
  /\ s \in todo /\ \A t \in todo : s <= t
  /\ ShareFree(s)
  /\ row' = s /\ todo' = todo \ {s}
  /\ UNCHANGED <<people, table, clock, process, pc, request, phase, now, due, reads>>

\* The rule again, on a fresh read under the lock.
StillDue(s) ==
  /\ Pending(s)
  /\ IF phase = "expired" THEN shares[s].expires <= clock ELSE PartyIneligible(s)

JanitorJudge ==
  /\ row # NoShare /\ due = {}
  /\ \/ StillDue(row) /\ due' = {clock} /\ UNCHANGED row
     \/ ~StillDue(row) /\ row' = NoShare /\ UNCHANGED due
  /\ UNCHANGED <<people, table, clock, process, pc, request, phase, now, todo, reads>>

JanitorEnd(s) ==
  /\ row = s
  /\ \E at \in due : EndShare(s, phase, at)
  /\ row' = NoShare /\ due' = {}
  /\ UNCHANGED <<people, clock, process, pc, request, phase, now, todo, reads>>

\* One transaction deletes them all; nothing is judged again.
JanitorDelete ==
  /\ phase \in {"orphans", "ended"} /\ todo # {}
  /\ \A s \in todo : ShareFree(s)
  /\ DeleteShares({s \in todo : IsRow(s)})
  /\ todo' = {}
  /\ UNCHANGED <<people, clock, process, pc, request, phase, now, row, due, reads>>

Fault == faults < MaxFaults /\ faults' = faults + 1

\* A transaction that failed, after its waits, is reported, and the run goes on.
JanitorFails ==
  /\ Fault
  /\ \/ row # NoShare /\ UNCHANGED todo
     \/ /\ phase \in {"orphans", "ended"} /\ todo # {} /\ todo' = {}
        /\ \A s \in todo : ShareFree(s)
  /\ row' = NoShare /\ due' = {}
  /\ UNCHANGED <<people, table, clock, key, pc, request, phase, now, reads>>

\* A selection that failed ends the run.
RunFails ==
  /\ phase # "idle" /\ todo = {} /\ row = NoShare
  /\ Fault
  /\ phase' = "idle" /\ now' = 0
  /\ UNCHANGED <<people, table, clock, key, pc, request, todo, row, due, reads>>

(***************************************************************************)
(* Accounts, notifications, time and restarts.                             *)
(***************************************************************************)

\* A change of an account: its role, a block (user administration moves the
\* token version as well, the Content Manager does not), a password.
ChangeAccount(p, account) ==
  /\ people[p] # NoPerson /\ ~people[p].erased
  /\ PersonFree(p)
  /\ account # people[p] /\ ~account.erased
  /\ account.version \in {people[p].version, people[p].version + 1}
  /\ people' = [people EXCEPT ![p] = account]
  /\ UNCHANGED <<table, clock, process, pc, request, janitor, reads>>

\* The Content Manager deletes the account, and leaves its shares behind.
DeleteAccount(p) ==
  /\ people[p] # NoPerson /\ ~people[p].erased
  /\ PersonFree(p)
  /\ people' = [people EXCEPT ![p] = NoPerson]
  /\ UNCHANGED <<table, clock, process, pc, request, janitor, reads>>

SharesOf(p) == {s \in Rows : p \in {shares[s].from, shares[s].to}}

\* Step 1 of an anonymisation, one transaction: every share of the person
\* goes, whatever its state.
Anonymise(p) ==
  /\ people[p] # NoPerson /\ ~people[p].erased /\ people[p].blocked
  /\ DirectoryFree /\ PersonFree(p)
  /\ \A s \in SharesOf(p) : ShareFree(s)
  /\ DeleteShares(SharesOf(p))
  /\ people' = [people EXCEPT ![p].erased = TRUE]
  /\ UNCHANGED <<clock, process, pc, request, janitor, reads>>

\* Its recipient deletes a notification, or the retention does.
DropNotice(s) ==
  /\ s \in notices
  /\ notices' = notices \ {s}
  /\ UNCHANGED <<people, shares, clock, process, pc, request, janitor, reads>>

Tick ==
  /\ clock < MaxTime
  /\ clock' = clock + 1
  /\ UNCHANGED <<people, table, process, pc, request, janitor, reads>>

Restart(k) ==
  /\ Fault
  /\ key' = k
  /\ pc' = [w \in Sessions |-> "idle"]
  /\ request' = [w \in Sessions |-> NoRequest]
  /\ phase' = "idle" /\ now' = 0 /\ todo' = {} /\ row' = NoShare /\ due' = {}
  /\ UNCHANGED <<people, table, clock, reads>>

-----------------------------------------------------------------------------

Asking(w) ==
  \/ \E p, q \in People, life \in Lifetimes : AskCreate(w, p, q, life)
  \/ \E s \in Shares : AskReveal(w, s) \/ AskRevoke(w, s)

Serving(w) ==
  \/ LockDirectory(w) \/ LockPeople(w) \/ JudgeCreate(w) \/ JudgeCaller(w)
  \/ LockShare(w) \/ JudgeReveal(w) \/ JudgeRevoke(w)
  \/ (\E s \in Shares : CommitCreate(w, s)) \/ CommitEnd(w)
  \/ Rollback(w) \/ Answer(w) \/ AnswerBusy(w)

Cleaning ==
  \/ RunJanitor \/ NextStep \/ JanitorJudge \/ JanitorDelete \/ JanitorFails
  \/ RunFails
  \/ \E s \in Shares : JanitorLock(s) \/ JanitorEnd(s)

Accounts ==
  [blocked : BOOLEAN, role : Roles, version : 0 .. MaxVersion, erased : {FALSE}]

Around ==
  \/ \E p \in Volatile : \/ \E account \in Accounts : ChangeAccount(p, account)
                         \/ DeleteAccount(p) \/ Anonymise(p)
  \/ \E s \in Shares : DropNotice(s)
  \/ Tick
  \/ \E k \in Keys : Restart(k)

Next == (\E w \in Sessions : Asking(w) \/ Serving(w)) \/ Cleaning \/ Around

Spec == Init /\ [][Next]_vars

\* What the janitor's next step waits for: a row lock that others hold, or
\* nothing.
Waiting == JanitorDelete \/ \E s \in Shares : JanitorLock(s)

Working == RunJanitor \/ NextStep \/ JanitorJudge \/ \E s \in Shares : JanitorEnd(s)

\* Fairness: the clock runs, a session gets on with its request, the janitor
\* runs every minute and comes to its turn in the queue for a row.
FairSpec ==
  /\ Spec
  /\ WF_vars(Tick)
  /\ \A w \in Sessions : WF_vars(Serving(w))
  /\ WF_vars(Working) /\ SF_vars(Waiting)

(***************************************************************************)
(* Properties.                                                             *)
(***************************************************************************)

TypeOK ==
  /\ people \in [People -> Person \cup {NoPerson}]
  /\ shares \in [Shares -> Share \cup {Unborn, Deleted}]
  /\ notices \subseteq Shares
  /\ clock \in Nat /\ key \in Keys /\ faults \in Nat
  /\ pc \in [Sessions -> {"idle", "directory", "people", "caller", "share", "reading",
                          "writing", "committed"}]
  /\ request \in [Sessions -> Request \cup {NoRequest}]
  /\ phase \in {"idle", "expired", "cancelled", "orphans", "ended"}
  /\ now \in Nat /\ todo \subseteq Shares
  /\ row \in Shares \cup {NoShare} /\ due \in SUBSET Nat
  /\ reads \in [Shares -> Nat]

\* A text is handed out at most once, and only when the share is on record
\* as retrieved: whatever is lost around a COMMIT, no share that was read is
\* pending, or told to its sender as expired, revoked or cancelled.
ReadOnce ==
  \A s \in Shares :
    /\ reads[s] <= 1
    /\ reads[s] = 1 => shares[s] = Deleted \/ (IsRow(s) /\ shares[s].state = "retrieved")

\* No step opens a share, or makes one, unless its people may do so in that
\* very state, the account of the caller being at the token version of the
\* request: a block, a role change, a password change or a removal that
\* committed first counts, whichever lock its writer took.
PeopleStillMay ==
  [][ /\ \A s \in Shares :
           (shares[s] = Unborn /\ shares'[s] # Unborn)
             => CanSend(shares'[s].from) /\ CanReceive(shares'[s].to)
      /\ \A s \in Shares :
           (Pending(s) /\ IsRow(s)' /\ shares'[s].state = "retrieved")
             => Eligible(shares[s].from) /\ CanReceive(shares[s].to)
      /\ \A w \in Sessions :
           (pc[w] = "writing" /\ pc'[w] = "committed") => FreshCaller(w) ]_vars

\* The sealed text and the notification exist no longer than the pending
\* state: every way out of it, by a request, the janitor or an
\* anonymisation, erases both.
NothingOutlivesPending ==
  \A s \in Shares :
    /\ s \in notices => Pending(s)
    /\ IsRow(s) /\ shares[s].envelope # NoEnvelope => Pending(s)

\* However requests race, nobody has more unexpired shares open than the
\* limits, as a sender or as a recipient.
QuotaHeld ==
  \A p \in People :
    /\ Cardinality({s \in Rows : Open(s) /\ shares[s].from = p}) <= PendingPerSender
    /\ Cardinality({s \in Rows : Open(s) /\ shares[s].to = p}) <= PendingPerRecipient

\* Nothing a person sent or received is left, or comes into being, once the
\* person is anonymised, requests under way included.
ErasedLeaveNothing ==
  \A s \in Rows : \A p \in {shares[s].from, shares[s].to} :
    people[p] # NoPerson => ~people[p].erased

\* What a share's end says is true, and no row goes before its time: a text
\* is taken before its expiry, however long the request waited for its locks,
\* and none is told as expired before it; a row goes because an account of
\* it is gone, because it ended and was kept for the retention, or with a
\* person who is anonymised, although the janitor deletes what it selected
\* some time before.
EndsAndDeletionsDue ==
  [][ /\ \A s \in Shares :
           Pending(s) /\ IsRow(s)' =>
             /\ shares'[s].state = "retrieved" => shares'[s].ended < shares[s].expires
             /\ shares'[s].state = "expired" => shares[s].expires <= shares'[s].ended
      /\ \A s \in Rows :
           shares'[s] = Deleted =>
             \/ NoPerson \in {people[shares[s].from], people[shares[s].to]}
             \/ ~Pending(s) /\ shares[s].ended + Retention < clock
             \/ \E p \in {shares[s].from, shares[s].to} :
                  people'[p] # NoPerson /\ people'[p].erased ]_vars

\* Every share stops being pending, whoever opens it or nobody.  A table full
\* of rows that are not due does not keep the due ones waiting.
PendingEnds == \A s \in Shares : Pending(s) ~> ~Pending(s)

\* A share that lost one of its accounts goes, whatever its state.
OrphansGo ==
  \A s \in Shares :
    (IsRow(s) /\ NoPerson \in {people[shares[s].from], people[shares[s].to]})
      ~> shares[s] = Deleted

(***************************************************************************)
(* Why it works: what holds between the steps of a request.                *)
(***************************************************************************)

\* A request names a share that exists or existed, between the people of it.
NamesItsShare(w) ==
  LET s == request[w].share
  IN /\ s \in Shares /\ shares[s] # Unborn
     /\ IsRow(s) => IF request[w].op = "reveal"
                      THEN shares[s].to = request[w].caller /\ shares[s].from = request[w].peer
                      ELSE shares[s].from = request[w].caller /\ shares[s].to = request[w].peer

RequestsMatch ==
  \A w \in Sessions :
    pc[w] # "idle" =>
      /\ request[w] # NoRequest
      /\ pc[w] \in {"share", "reading"} => request[w].op # "create"
      /\ request[w].op # "create" => NamesItsShare(w)
      /\ (pc[w] = "writing" /\ request[w].op # "create") => request[w].verdict \in Ends
      /\ request[w].verdict = "retrieved"
           => request[w].op = "reveal" /\ pc[w] \in {"writing", "committed"}

\* The janitor holds a row only in the steps that take one.
JanitorInPlace == row # NoShare => phase \in {"expired", "cancelled"}

OneDirectoryHolder ==
  \A v, w \in Sessions : HoldsDirectory(v) /\ HoldsDirectory(w) => v = w

RowHeldOnce == \A w \in Sessions : HoldsShare(w) => request[w].share # row

\* What was judged under the locks is so until the COMMIT.
Judged(w) ==
  /\ pc[w] \in {"share", "reading", "writing"} => FreshCaller(w)
  /\ pc[w] \in {"share", "reading", "writing"} /\ request[w].op = "reveal"
       => CanReceive(request[w].caller)
  /\ pc[w] = "writing" /\ request[w].op = "create"
       => CanSend(request[w].caller) /\ CanReceive(request[w].peer)
  /\ pc[w] = "writing" /\ request[w].op # "create" => Pending(request[w].share)
  /\ pc[w] = "writing" /\ request[w].op = "reveal" => Eligible(request[w].peer)

StillJudged == \A w \in Sessions : Judged(w)

Took(w) == pc[w] = "committed" /\ request[w].verdict = "retrieved"

OnRecord(s) == shares[s] = Deleted \/ (IsRow(s) /\ shares[s].state = "retrieved")

\* A text is in one hand, or was handed out, and the share says so.
TakenOnRecord ==
  /\ \A s \in Shares : reads[s] \in {0, 1} /\ (reads[s] = 1 => OnRecord(s))
  /\ \A w \in Sessions :
       Took(w) => OnRecord(request[w].share) /\ reads[request[w].share] = 0
  /\ \A v, w \in Sessions : Took(v) /\ Took(w) /\ request[v].share = request[w].share => v = w

\* What the janitor selected, or judged on the row it holds, is so until the
\* janitor acts on it.
CandidatesDue ==
  /\ now <= clock
  /\ \A s \in todo :
       /\ shares[s] # Unborn
       /\ phase = "orphans" /\ IsRow(s) => s \in Orphans
       /\ phase = "ended" /\ IsRow(s) => s \in Ended
  /\ due # {} => row # NoShare
  /\ \A s \in Shares, at \in due :
       s = row => /\ shares[s] # Unborn
                  /\ phase = "expired" /\ IsRow(s) => shares[s].expires <= at

\* A reveal was judged before the expiry, and no request takes a share for
\* expired: that is the janitor's.
RequestsInTime ==
  \A w \in Sessions :
    LET s == request[w].share
    IN pc[w] # "idle" =>
         /\ request[w].verdict # "expired"
         /\ request[w].verdict = "retrieved" /\ IsRow(s) => request[w].at < shares[s].expires

ErasedBlocked == \A p \in People : people[p] # NoPerson /\ people[p].erased => people[p].blocked

\* Between any two steps: one request behind the directory lock, one owner of
\* a row, every judgement still true, every text that was taken on record,
\* everything selected still due, nothing left behind.  The inductive
\* invariant.
Guarded ==
  /\ TypeOK /\ RequestsMatch /\ JanitorInPlace
  /\ OneDirectoryHolder /\ RowHeldOnce /\ StillJudged
  /\ TakenOnRecord /\ CandidatesDue /\ RequestsInTime
  /\ NothingOutlivesPending
  /\ ErasedBlocked /\ ErasedLeaveNothing

(***************************************************************************)
(* What all this is for: a secret that is read at most once, and kept by   *)
(* nobody else at any time.                                                *)
(***************************************************************************)

InHand(s) == \E w \in Sessions : Took(w) /\ request[w].share = s

Fate(s) ==
  CASE shares[s] = Unborn -> "unborn"
    [] Pending(s) /\ reads[s] = 0 -> "held"
    [] ~Pending(s) /\ InHand(s) -> "taken"
    [] ~Pending(s) /\ reads[s] = 1 /\ ~InHand(s) -> "read"
    [] OTHER -> "gone"

Secret == INSTANCE ReadOnceSecret WITH Secrets <- Shares, fate <- [s \in Shares |-> Fate(s)]

\* The table, the locks and the two-sided COMMIT implement that secret.
SecretIsReadOnce == Secret!Spec

=============================================================================
