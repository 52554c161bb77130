----------------------------- MODULE PollVotes -----------------------------
(***************************************************************************)
(* Polls, the ballots cast on them, and the nightly removal of the links   *)
(* that say who voted.                                                     *)
(*                                                                         *)
(* A poll is its draft row and, once published, a copy of it.  A vote, an  *)
(* author's change and the removal each run in a transaction that holds    *)
(* the poll's document lock; erasing a person, deleting an account and     *)
(* deleting orphaned ballots take no such lock.  Nothing in the database   *)
(* makes a ballot unique: a vote looks for an earlier one and inserts.     *)
(***************************************************************************)
EXTENDS Integers, Sequences, FiniteSets

CONSTANTS
  Polls, People,
  Requests,      \* votes the server may work on at a time
  Texts,         \* what an option says
  OptionLists,   \* what authors offer
  Choices,       \* option indexes the web sends, from 1
  Modes,         \* of "anonymous" and "named", what authors choose
  ClosingTimes,  \* what authors set as closesAt, in days
  Retention,     \* POLL_VOTER_RETENTION_DAYS
  PerRun,        \* POLL_VOTER_MAX_PER_RUN
  OrphansPerRun, \* ORPHANED_VOTE_MAX_PER_RUN
  MaxBallots, MaxTime, MaxEdits, MaxFaults,
  NoRow, NoBallot, NoPerson, NoPoll, NoRequest,
  OldWeb         \* a web that does not send the text it showed

Never == MaxTime + 1
Ids == 1..MaxBallots

ASSUME PollNumbers ==
  /\ Retention \in Nat /\ PerRun \in Nat \ {0} /\ OrphansPerRun \in Nat \ {0}
  /\ MaxBallots \in Nat /\ MaxTime \in Nat /\ MaxEdits \in Nat /\ MaxFaults \in Nat
  /\ Choices \subseteq Nat \ {0} /\ ClosingTimes \subseteq 0..Never
ASSUME PollTexts ==
  OptionLists \subseteq Seq(Texts) /\ OldWeb \notin Texts /\ Modes \subseteq {"anonymous", "named"}
ASSUME PollNulls == NoPerson \notin People /\ NoPoll \notin Polls

\* A row of a poll; "removed" is votersRemovedAt.
Row == [options : OptionLists, mode : Modes, closes : 0..Never, removed : BOOLEAN]
Frozen == {"options", "mode"}

\* A row of poll_votes with its two links; "text" and "asked" are what the
\* poll offered there when it was cast.
Ballot == [poll : Polls \cup {NoPoll}, voter : People \cup {NoPerson}, choice : Choices,
           text : Texts, asked : Modes]
Request == [who : People, poll : Polls, choice : Choices, shown : Texts \cup {OldWeb}]

ASSUME PollNullsAreNone ==
  NoRow \notin Row /\ NoBallot \notin Ballot /\ NoRequest \notin Request

VARIABLES
  draft, live,   \* the poll's two rows
  ballots, last, \* poll_votes by id, and the last id handed out
  pc, request,   \* the votes the server works on
  janitor,       \* the run of the poll-voter-janitor
  erased, gone,  \* people anonymised, and accounts deleted
  clock, edits, faults,
  accepted       \* votes of each person the poll's handler answered with success

poll == <<draft, live>>
store == <<ballots, last>>
vote == <<pc, request>>
accounts == <<erased, gone>>
bounds == <<clock, edits, faults>>
vars == <<poll, store, vote, janitor, accounts, bounds, accepted>>

-----------------------------------------------------------------------------
(* Rows, ballots and what the results count.                                *)

Exists(p) == draft[p] # NoRow
Rows(p) == {draft[p], live[p]} \ {NoRow}
Removed(p) == \E r \in Rows(p) : r.removed

Linked(p) == {i \in Ids : ballots[i] # NoBallot /\ ballots[i].poll = p}
BallotsOf(x) == {i \in Ids : ballots[i] # NoBallot /\ ballots[i].voter = x}
Orphans == Linked(NoPoll)

\* A voter's later ballot: an earlier one of the same voter counts.
Later(p, i) ==
  /\ ballots[i].voter # NoPerson
  /\ \E j \in Linked(p) : j < i /\ ballots[j].voter = ballots[i].voter

Counted(p) == {i \in Linked(p) : ~Later(p, i)}

\* Held by the transaction of a vote.
Held(p) == \E r \in Requests : pc[r] = "judged" /\ request[r].poll = p

Remove(ids) == [i \in Ids |-> IF i \in ids THEN NoBallot ELSE ballots[i]]

NoRun == [phase |-> "idle", todo |-> {}, at |-> 0, done |-> 0]

-----------------------------------------------------------------------------

\* Ballots from before this release: a person may have several on one poll,
\* and a poll may have lost its published row.
Earlier(b) ==
  \A i \in Ids : b[i] # NoBallot =>
    LET row == live[b[i].poll] IN
    /\ b[i].poll \in Polls /\ Exists(b[i].poll) /\ b[i].voter # NoPerson
    /\ row # NoRow => /\ b[i].choice \in DOMAIN row.options
                      /\ row.options[b[i].choice] = b[i].text /\ row.mode = b[i].asked

Init ==
  /\ draft \in [Polls -> {r \in Row : r.closes \in ClosingTimes /\ ~r.removed} \cup {NoRow}]
  /\ live \in [Polls -> {r \in Row : r.closes \in ClosingTimes /\ ~r.removed} \cup {NoRow}]
  /\ \A p \in Polls : live[p] # NoRow => Exists(p)
  /\ last \in {0, 2} \cap 0..MaxBallots
  /\ ballots \in [Ids -> Ballot \cup {NoBallot}] /\ Earlier(ballots)
  /\ \A i \in Ids : (ballots[i] # NoBallot) <=> i <= last
  /\ pc = [r \in Requests |-> "idle"] /\ request = [r \in Requests |-> NoRequest]
  /\ janitor = NoRun
  /\ erased = {} /\ gone = {}
  /\ clock = 0 /\ edits = 0 /\ faults = 0
  /\ accepted = [p \in Polls |-> [x \in People |-> IF Linked(p) \cap BallotsOf(x) = {} THEN 0 ELSE 1]]

-----------------------------------------------------------------------------
(* POST /polls/:id/vote.                                                    *)

\* The first read, outside the lock: a poll the caller sees.
Ask(r, x, p, choice, shown) ==
  /\ pc[r] = "idle" /\ x \notin erased \cup gone /\ live[p] # NoRow
  /\ pc' = [pc EXCEPT ![r] = "asked"]
  /\ request' = [request EXCEPT ![r] = [who |-> x, poll |-> p, choice |-> choice, shown |-> shown]]
  /\ UNCHANGED <<poll, store, janitor, accounts, bounds, accepted>>

\* The options still say at the index what the voter saw there.
StillOffered(options, choice, shown) ==
  choice <= Len(options) /\ (shown = OldWeb \/ options[choice] = shown)

OpenNow(row) == clock < row.closes /\ ~row.removed

NotVoted(x, p) == Linked(p) \cap BallotsOf(x) = {}

\* Fault: the lock is not taken.
Judge_Unlocked(r) ==
  /\ pc[r] = "asked"
  /\ LET q == request[r]
         row == live[q.poll]
     IN /\ row # NoRow
        /\ StillOffered(row.options, q.choice, q.shown)
        /\ OpenNow(row)
        /\ NotVoted(q.who, q.poll)
  /\ pc' = [pc EXCEPT ![r] = "judged"]
  /\ UNCHANGED <<poll, store, request, janitor, accounts, bounds, accepted>>

\* The lock, and castVote up to the insert: the published row and the
\* caller's ballots as they are under it.
Judge(r) ==
  /\ pc[r] = "asked" /\ ~Held(request[r].poll)
  /\ LET q == request[r]
         row == live[q.poll]
     IN /\ row # NoRow
        /\ StillOffered(row.options, q.choice, q.shown)
        /\ OpenNow(row)
        /\ NotVoted(q.who, q.poll)
  /\ pc' = [pc EXCEPT ![r] = "judged"]
  /\ UNCHANGED <<poll, store, request, janitor, accounts, bounds, accepted>>

NewBallot(q) ==
  [poll |-> q.poll, voter |-> q.who, choice |-> q.choice,
   text |-> live[q.poll].options[q.choice], asked |-> live[q.poll].mode]

\* The insert and the COMMIT; the account must still be there for its link.
\* The cleanup after the insert sees what NotVoted saw, since every vote of
\* the poll is under its lock: nothing.
Commit(r) ==
  /\ pc[r] = "judged" /\ last < MaxBallots /\ request[r].who \notin gone
  /\ ballots' = [ballots EXCEPT ![last + 1] = NewBallot(request[r])]
  /\ last' = last + 1
  /\ accepted' = [accepted EXCEPT ![request[r].poll][request[r].who] = @ + 1]
  /\ pc' = [pc EXCEPT ![r] = "idle"] /\ request' = [request EXCEPT ![r] = NoRequest]
  /\ UNCHANGED <<poll, janitor, accounts, bounds>>

\* Refused, by a check above or by the audience rules, or rolled back.
Refuse(r) ==
  /\ pc[r] # "idle"
  /\ pc' = [pc EXCEPT ![r] = "idle"] /\ request' = [request EXCEPT ![r] = NoRequest]
  /\ UNCHANGED <<poll, store, janitor, accounts, bounds, accepted>>

Voting(r) == Judge(r) \/ Commit(r) \/ Refuse(r)

-----------------------------------------------------------------------------
(* Authors, web and panel alike: each action under the poll's lock.         *)

Edit(p) == /\ edits < MaxEdits /\ edits' = edits + 1 /\ ~Held(p)
           /\ UNCHANGED <<vote, janitor, accounts, clock, faults>>

\* Fault: only what the payload carries is compared.
NotFrozen_Payload(p, next, carried, publishes) ==
  \/ Linked(p) = {}
  \/ IF live[p] = NoRow THEN ~publishes
     ELSE \A f \in Frozen : f \in carried => next[f] = live[p][f]

\* A refused change leaves everything as it is.
NotFrozen(p, next, carried, publishes) ==
  \/ Linked(p) = {}
  \/ IF live[p] = NoRow THEN ~publishes
     ELSE \A f \in Frozen : (publishes \/ f \in carried) => next[f] = live[p][f]

Baseline(p) == IF live[p] = NoRow THEN draft[p] ELSE live[p]

\* Fault: a poll nobody voted on may open again.
NotReopened_Voted(p, next, carried, publishes) ==
  Removed(p) /\ Linked(p) # {} /\ (publishes \/ "closes" \in carried)
    => next.closes = Baseline(p).closes

NotReopened(p, next, carried, publishes) ==
  Removed(p) /\ (publishes \/ "closes" \in carried) => next.closes = Baseline(p).closes

\* Fault: a save drops votersRemovedAt.
Overlaid_Fresh(row, carried, to) ==
  [options |-> IF "options" \in carried THEN to.options ELSE row.options,
   mode |-> IF "mode" \in carried THEN to.mode ELSE row.mode,
   closes |-> IF "closes" \in carried THEN to.closes ELSE row.closes,
   removed |-> FALSE]

\* votersRemovedAt is in no payload.
Overlaid(row, carried, to) ==
  [options |-> IF "options" \in carried THEN to.options ELSE row.options,
   mode |-> IF "mode" \in carried THEN to.mode ELSE row.mode,
   closes |-> IF "closes" \in carried THEN to.closes ELSE row.closes,
   removed |-> row.removed]

\* An update carries some fields, and publishes the merged draft or not.
Update(p, carried, to, publishes) ==
  LET next == Overlaid(draft[p], carried, to) IN
  /\ Edit(p) /\ Exists(p)
  /\ NotFrozen(p, next, carried, publishes) /\ NotReopened(p, next, carried, publishes)
  /\ draft' = [draft EXCEPT ![p] = next]
  /\ live' = IF publishes THEN [live EXCEPT ![p] = next] ELSE live
  /\ UNCHANGED <<store, accepted>>

Publish(p) ==
  /\ Edit(p) /\ Exists(p)
  /\ NotFrozen(p, draft[p], {}, TRUE) /\ NotReopened(p, draft[p], {}, TRUE)
  /\ live' = [live EXCEPT ![p] = draft[p]]
  /\ UNCHANGED <<draft, store, accepted>>

Unpublish(p) ==
  /\ Edit(p) /\ live[p] # NoRow /\ Linked(p) = {}
  /\ live' = [live EXCEPT ![p] = NoRow]
  /\ UNCHANGED <<draft, store, accepted>>

DiscardDraft(p) ==
  /\ Edit(p) /\ live[p] # NoRow
  /\ draft' = [draft EXCEPT ![p] = live[p]]
  /\ UNCHANGED <<live, store, accepted>>

\* A new poll, or a clone: never one whose voters were removed.
Create(p, row, publishes) ==
  /\ Edit(p) /\ ~Exists(p) /\ \A r \in Requests : pc[r] # "idle" => request[r].poll # p
  /\ draft' = [draft EXCEPT ![p] = [row EXCEPT !.removed = FALSE]]
  /\ live' = IF publishes THEN [live EXCEPT ![p] = [row EXCEPT !.removed = FALSE]] ELSE live
  /\ accepted' = [accepted EXCEPT ![p] = [x \in People |-> 0]]
  /\ UNCHANGED store

\* The rows go, and by cascade the ballots' links to them.
Delete(p) ==
  /\ Edit(p) /\ Exists(p)
  /\ draft' = [draft EXCEPT ![p] = NoRow] /\ live' = [live EXCEPT ![p] = NoRow]
  /\ ballots' = [i \in Ids |-> IF i \in Linked(p) THEN [ballots[i] EXCEPT !.poll = NoPoll]
                                                  ELSE ballots[i]]
  /\ UNCHANGED <<last, accepted>>

Authoring ==
  \E p \in Polls :
    \/ \E carried \in SUBSET (Frozen \cup {"closes"}), o \in OptionLists, m \in Modes,
          c \in ClosingTimes, publishes \in BOOLEAN :
         Update(p, carried, [options |-> o, mode |-> m, closes |-> c], publishes)
    \/ Publish(p) \/ Unpublish(p) \/ DiscardDraft(p) \/ Delete(p)
    \/ \E o \in OptionLists, m \in Modes, c \in ClosingTimes, publishes \in BOOLEAN :
         Create(p, [options |-> o, mode |-> m, closes |-> c, removed |-> FALSE], publishes)

-----------------------------------------------------------------------------
(* The poll-voter-janitor.                                                  *)

LongClosed(row, now) == row.closes + Retention < now

\* votersRemovable, over every row of the poll.
VotersRemovable(p, now) ==
  /\ Rows(p) # {}
  /\ \A row \in Rows(p) : LongClosed(row, now)
  /\ \E row \in Rows(p) : ~row.removed

\* duePolls, read before any lock.
StartRun ==
  /\ janitor.phase = "idle"
  /\ janitor' = [phase |-> "polls", todo |-> {p \in Polls : VotersRemovable(p, clock)},
                 at |-> clock, done |-> 0]
  /\ UNCHANGED <<poll, store, vote, accounts, bounds, accepted>>

\* Fault: every ballot loses its voter, later ones too.
Unlinked_All(p) ==
  [i \in Ids |-> IF i \notin Linked(p) THEN ballots[i] ELSE [ballots[i] EXCEPT !.voter = NoPerson]]

\* ballotPlan: later ballots go, the others lose their voter.
Unlinked(p) ==
  [i \in Ids |-> IF i \notin Linked(p) THEN ballots[i]
                 ELSE IF Later(p, i) THEN NoBallot
                 ELSE [ballots[i] EXCEPT !.voter = NoPerson]]

Stamped(row) == IF row = NoRow THEN NoRow ELSE [row EXCEPT !.removed = TRUE]

\* removePollVoters: the rule again under the lock, then the writes.
RemoveVoters(p) ==
  /\ janitor.phase = "polls" /\ p \in janitor.todo /\ janitor.done < PerRun /\ ~Held(p)
  /\ IF VotersRemovable(p, janitor.at)
     THEN /\ ballots' = Unlinked(p)
          /\ draft' = [draft EXCEPT ![p] = Stamped(@)] /\ live' = [live EXCEPT ![p] = Stamped(@)]
          /\ janitor' = [janitor EXCEPT !.todo = @ \ {p}, !.done = @ + 1]
     ELSE /\ janitor' = [janitor EXCEPT !.todo = @ \ {p}]
          /\ UNCHANGED <<poll, ballots>>
  /\ UNCHANGED <<last, vote, accounts, bounds, accepted>>

\* A poll that fails is rolled back and skipped.
FailPoll(p) ==
  /\ janitor.phase = "polls" /\ p \in janitor.todo /\ janitor.done < PerRun
  /\ faults < MaxFaults /\ faults' = faults + 1
  /\ janitor' = [janitor EXCEPT !.todo = @ \ {p}]
  /\ UNCHANGED <<poll, store, vote, accounts, clock, edits, accepted>>

\* Fault: one too few.
FirstOrphans_Short ==
  {i \in Orphans : Cardinality({j \in Orphans : j <= i}) < OrphansPerRun}

FirstOrphans ==
  {i \in Orphans : Cardinality({j \in Orphans : j < i}) < OrphansPerRun}

\* deleteOrphanedVotes, and the end of the run.
DeleteOrphans ==
  /\ janitor.phase = "polls" /\ (janitor.todo = {} \/ janitor.done >= PerRun)
  /\ ballots' = Remove(FirstOrphans)
  /\ janitor' = NoRun
  /\ UNCHANGED <<poll, last, vote, accounts, bounds, accepted>>

Janitor == StartRun \/ DeleteOrphans \/ \E p \in Polls : RemoveVoters(p) \/ FailPoll(p)

-----------------------------------------------------------------------------
(* People, time and restarts.                                               *)

\* The anonymisation's transaction deletes the ballots it finds; a vote that
\* was authenticated before may still commit.
Erase(x) ==
  /\ x \notin erased \cup gone
  /\ erased' = erased \cup {x}
  /\ ballots' = Remove(BallotsOf(x))
  /\ UNCHANGED <<poll, last, vote, janitor, gone, bounds, accepted>>

\* Fault: a sweep that trusts the anonymisation to have found every ballot.
SweepErased_Trusting(x) == FALSE /\ UNCHANGED vars

\* The nightly erasure sweep, for one person.
SweepErased(x) ==
  /\ x \in erased /\ BallotsOf(x) # {}
  /\ ballots' = Remove(BallotsOf(x))
  /\ UNCHANGED <<poll, last, vote, janitor, accounts, bounds, accepted>>

\* An account deleted in the panel takes its links along, not its ballots.
DeleteAccount(x) ==
  /\ x \notin gone
  /\ gone' = gone \cup {x}
  /\ ballots' = [i \in Ids |-> IF i \in BallotsOf(x) THEN [ballots[i] EXCEPT !.voter = NoPerson]
                                                     ELSE ballots[i]]
  /\ UNCHANGED <<poll, last, vote, janitor, erased, bounds, accepted>>

Tick == /\ clock < MaxTime /\ clock' = clock + 1
        /\ UNCHANGED <<poll, store, vote, janitor, accounts, edits, faults, accepted>>

Restart ==
  /\ faults < MaxFaults /\ faults' = faults + 1
  /\ pc' = [r \in Requests |-> "idle"] /\ request' = [r \in Requests |-> NoRequest]
  /\ janitor' = NoRun
  /\ UNCHANGED <<poll, store, accounts, clock, edits, accepted>>

Next ==
  \/ \E r \in Requests :
       \/ \E x \in People, p \in Polls, choice \in Choices, shown \in Texts \cup {OldWeb} :
            Ask(r, x, p, choice, shown)
       \/ Voting(r)
  \/ Authoring
  \/ Janitor
  \/ \E x \in People : Erase(x) \/ SweepErased(x) \/ DeleteAccount(x)
  \/ Tick
  \/ Restart

Spec == Init /\ [][Next]_vars

\* Requests end, the two nightly tasks run again and again, and a transaction
\* that waits for a row lock gets it.
FairSpec ==
  /\ Spec
  /\ WF_vars(Tick) /\ WF_vars(StartRun) /\ WF_vars(DeleteOrphans)
  /\ \A r \in Requests : WF_vars(Voting(r))
  /\ \A p \in Polls : SF_vars(RemoveVoters(p))
  /\ \A x \in People : WF_vars(SweepErased(x))

-----------------------------------------------------------------------------
(* What the polls promise.                                                  *)

TypeOK ==
  /\ draft \in [Polls -> Row \cup {NoRow}] /\ live \in [Polls -> Row \cup {NoRow}]
  /\ ballots \in [Ids -> Ballot \cup {NoBallot}] /\ last \in Nat
  /\ pc \in [Requests -> {"idle", "asked", "judged"}]
  /\ request \in [Requests -> Request \cup {NoRequest}]
  /\ janitor \in [phase : {"idle", "polls"}, todo : SUBSET Polls, at : Nat, done : Nat]
  /\ erased \subseteq People /\ gone \subseteq People
  /\ clock \in Nat /\ edits \in Nat /\ faults \in Nat
  /\ accepted \in [Polls -> [People -> Nat]]

\* "One ballot per voter": nobody's vote is accepted twice on one poll, with
\* parallel requests, after the voter links are gone, and whatever authors
\* change; only someone whose ballots were erased may be taken for new.
OneVoteEach ==
  \A p \in Polls, x \in People \ erased : accepted[p][x] <= 1

\* "A vote freezes the poll's options and anonymity": a published poll still
\* says at each ballot's index, and about naming voters, what it said when
\* the ballot was cast.
CastAsShown ==
  \A p \in Polls : live[p] # NoRow =>
    \A i \in Linked(p) :
      /\ ballots[i].choice \in DOMAIN live[p].options
      /\ live[p].options[ballots[i].choice] = ballots[i].text
      /\ live[p].mode = ballots[i].asked

\* Terminal: once a poll's voters were removed none is named again, and what
\* its readers see is closed for good.
StaysAnonymous ==
  \A p \in Polls : Removed(p) =>
    /\ \A i \in Linked(p) : ballots[i].voter = NoPerson
    /\ live[p] # NoRow => live[p].removed /\ live[p].closes < clock

\* A poll's two rows come and go together, and lose their voters together.
RowsAgree(p) == live[p] # NoRow => Exists(p) /\ live[p].removed = draft[p].removed

\* Ballots have the ids handed out, and links to polls that are there.
BallotsPlaced ==
  /\ \A i \in Ids : i > last => ballots[i] = NoBallot
  /\ \A p \in Polls : Linked(p) # {} => Exists(p)

\* Whoever voted is found again, or the poll is closed for good.
Remembered(p) ==
  \A x \in People \ (erased \cup gone) :
    accepted[p][x] > 0 /\ Exists(p) => draft[p].removed \/ ~NotVoted(x, p)

ClosedForGood(p) ==
  Exists(p) /\ draft[p].removed =>
    /\ draft[p].closes < clock /\ (live[p] # NoRow => live[p].closes < clock)
    /\ \A i \in Linked(p) : ballots[i].voter = NoPerson

\* What a vote was let through by under the lock, as far as no clock takes it
\* away.
JudgedStill(r) ==
  LET q == request[r] IN
  /\ pc[r] # "idle" => q # NoRequest
  /\ pc[r] = "judged" =>
       /\ live[q.poll] # NoRow /\ ~live[q.poll].removed
       /\ q.choice \in DOMAIN live[q.poll].options
       /\ NotVoted(q.who, q.poll)
       /\ \A v \in Requests \ {r} : pc[v] = "judged" => request[v].poll # q.poll

\* Between any two steps: the inductive invariant.
PollsKept ==
  /\ TypeOK /\ OneVoteEach /\ CastAsShown /\ BallotsPlaced /\ janitor.at <= clock
  /\ \A p \in Polls : RowsAgree(p) /\ Remembered(p) /\ ClosedForGood(p)
  /\ \A r \in Requests : JudgedStill(r)

\* "The results stay exactly as they were": a ballot that counts goes on
\* counting, unless its voter is erased or its poll deleted, and only a vote
\* or a deleted account makes another one count.
ResultsStand ==
  [][\A p \in Polls : Exists(p) /\ Exists(p)' =>
       /\ \A i \in Counted(p) :
            \/ i \in Counted(p)' /\ ballots'[i].choice = ballots[i].choice
            \/ ballots[i].voter \in erased'
       /\ \A i \in Counted(p)' \ Counted(p) :
            \/ i = last' /\ accepted' # accepted
            \/ gone' # gone]_vars

\* Thirty days after it closed, a poll forgets who voted; a ballot whose poll
\* was deleted goes as well.
VotersForgotten ==
  /\ \A p \in Polls : VotersRemovable(p, clock) ~> ~VotersRemovable(p, clock)
  /\ (Orphans # {}) ~> (Orphans = {})

\* An erased person leaves no ballot behind, the late one of a request that
\* outlived the erasure included.
ErasedForgotten ==
  \A x \in People : (x \in erased) ~> [](BallotsOf(x) = {})

=============================================================================
