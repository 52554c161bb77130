-------------------------- MODULE PollVotesProofs ---------------------------
(***************************************************************************)
(* PollsKept is inductive, for any polls, people, votes at a time, options *)
(* and bounds, and the safety properties of PollVotes follow from it.      *)
(***************************************************************************)
EXTENDS PollVotes, TLAPS

LEMMA RowTyped ==
  ASSUME NEW row \in Row
  PROVE  /\ row.options \in OptionLists /\ row.options \in Seq(Texts) /\ row.mode \in Modes
         /\ row.closes \in 0..Never /\ row.closes \in Nat /\ row.removed \in BOOLEAN
BY PollNumbers, PollTexts DEF Row, Never

LEMMA RequestTyped ==
  ASSUME NEW q \in Request
  PROVE  /\ q.who \in People /\ q.poll \in Polls /\ q.choice \in Choices
         /\ q.choice \in Nat \ {0} /\ q.shown \in Texts \cup {OldWeb}
BY PollNumbers DEF Request

LEMMA BallotTyped ==
  ASSUME NEW b \in Ballot
  PROVE  /\ b.poll \in Polls \cup {NoPoll} /\ b.voter \in People \cup {NoPerson}
         /\ b.choice \in Choices /\ b.text \in Texts /\ b.asked \in Modes
BY DEF Ballot

LEMMA LinkedTyped ==
  ASSUME TypeOK, NEW p \in Polls, NEW i \in Linked(p)
  PROVE  /\ i \in Ids /\ i \in Nat /\ i \in 1..MaxBallots
         /\ ballots[i] \in Ballot /\ ballots[i] # NoBallot /\ ballots[i].poll = p
BY PollNumbers DEF TypeOK, Linked, Ids

LEMMA RowsTyped ==
  ASSUME TypeOK, NEW p \in Polls
  PROVE  /\ draft[p] # NoRow => draft[p] \in Row
         /\ live[p] # NoRow => live[p] \in Row
BY DEF TypeOK

-----------------------------------------------------------------------------
(* Steps that touch no poll, ballot or person.                              *)

LEMMA QuietKept ==
  ASSUME PollsKept, UNCHANGED <<poll, store, accounts, accepted>>, TypeOK',
         clock' \in Nat, clock' >= clock, janitor'.at <= clock',
         \A r \in Requests : JudgedStill(r)'
  PROVE  PollsKept'
<1>1. OneVoteEach' /\ CastAsShown' /\ BallotsPlaced'
  BY DEF PollsKept, OneVoteEach, CastAsShown, BallotsPlaced, Linked, Exists, poll, store, accounts
<1>2. ASSUME NEW p \in Polls PROVE RowsAgree(p)' /\ Remembered(p)' /\ ClosedForGood(p)'
  <2>1. RowsAgree(p) /\ Remembered(p) /\ ClosedForGood(p) /\ clock \in Nat
    BY DEF PollsKept, TypeOK
  <2>2. RowsAgree(p)' /\ Remembered(p)'
    BY <2>1 DEF RowsAgree, Remembered, Exists, NotVoted, Linked, BallotsOf, poll, store, accounts
  <2>3. /\ draft[p] # NoRow => draft[p].closes \in Nat
        /\ live[p] # NoRow => live[p].closes \in Nat
    BY RowsTyped, RowTyped DEF PollsKept
  <2>4. ClosedForGood(p)'
    BY <2>1, <2>3 DEF ClosedForGood, Exists, Linked, poll, store
  <2> QED BY <2>2, <2>4
<1> QED BY <1>1, <1>2 DEF PollsKept

\* A vote that is where it was, on rows as they were; ballots may lose their
\* voter or go.
LEMMA JudgedStays ==
  ASSUME PollsKept, NEW r \in Requests, UNCHANGED <<poll, vote>>,
         \A i \in Ids : ballots'[i] # NoBallot =>
           /\ ballots[i] # NoBallot /\ ballots'[i].poll \in {ballots[i].poll, NoPoll}
           /\ ballots'[i].voter \in {ballots[i].voter, NoPerson}
  PROVE  JudgedStill(r)'
<1>1. JudgedStill(r)
  BY DEF PollsKept
<1>2. CASE pc[r] # "judged"
  BY <1>1, <1>2 DEF JudgedStill, vote
<1>3. CASE pc[r] = "judged"
  <2>1. request[r] \in Request
    BY <1>1, <1>3 DEF JudgedStill, PollsKept, TypeOK
  <2>2. request[r].who \in People /\ request[r].poll \in Polls
    BY <2>1, RequestTyped
  <2>3. NotVoted(request[r].who, request[r].poll)'
    BY <1>1, <1>3, <2>2, PollNulls DEF JudgedStill, NotVoted, Linked, BallotsOf, vote
  <2> QED BY <1>1, <1>3, <2>3 DEF JudgedStill, poll, vote
<1> QED BY <1>2, <1>3

\* A request that moves while everything it is judged by stays.
LEMMA MoveKept ==
  ASSUME PollsKept, NEW r \in Requests, NEW at \in {"idle", "asked"},
         NEW q \in Request \cup {NoRequest}, at # "idle" => q # NoRequest,
         pc' = [pc EXCEPT ![r] = at], request' = [request EXCEPT ![r] = q],
         UNCHANGED <<poll, store, janitor, accounts, bounds, accepted>>
  PROVE  PollsKept'
<1>1. TypeOK'
  BY DEF PollsKept, TypeOK, poll, store, accounts, bounds
<1>2. /\ pc'[r] = at /\ request'[r] = q
      /\ \A v \in Requests \ {r} : pc'[v] = pc[v] /\ request'[v] = request[v]
  BY DEF PollsKept, TypeOK
<1>3. ASSUME NEW v \in Requests PROVE JudgedStill(v)'
  <2>1. CASE v = r
    BY <1>2, <2>1 DEF JudgedStill
  <2>2. CASE v # r
    <3>1. JudgedStill(v) /\ pc'[v] = pc[v] /\ request'[v] = request[v]
      BY <1>2, <2>2 DEF PollsKept
    <3>2. \A w \in Requests \ {v} : pc'[w] = "judged" => pc[w] = "judged" /\ request'[w] = request[w]
      BY <1>2
    <3>3. pc[v] = "judged" => NotVoted(request[v].who, request[v].poll)'
      BY <3>1 DEF JudgedStill, NotVoted, Linked, BallotsOf, store
    <3> QED BY <3>1, <3>2, <3>3 DEF JudgedStill, poll
  <2> QED BY <2>1, <2>2
<1>4. clock' \in Nat /\ clock' >= clock /\ janitor'.at <= clock'
  BY DEF PollsKept, TypeOK, bounds
<1> QED BY <1>1, <1>3, <1>4, QuietKept

LEMMA AskKept ==
  ASSUME PollsKept, NEW r \in Requests, NEW x \in People, NEW p \in Polls, NEW choice \in Choices,
         NEW shown \in Texts \cup {OldWeb}, Ask(r, x, p, choice, shown)
  PROVE  PollsKept'
<1> DEFINE q == [who |-> x, poll |-> p, choice |-> choice, shown |-> shown]
<1>1. q \in Request /\ q # NoRequest
  BY PollNullsAreNone DEF Request
<1> HIDE DEF q
<1> QED BY <1>1, MoveKept DEF Ask, q

LEMMA RefuseKept ==
  ASSUME PollsKept, NEW r \in Requests, Refuse(r) PROVE PollsKept'
BY MoveKept DEF Refuse

\* Under the lock, what a vote is judged by is so until it ends.
LEMMA JudgeKept ==
  ASSUME PollsKept, NEW r \in Requests, Judge(r) PROVE PollsKept'
<1> DEFINE q == request[r]
           row == live[q.poll]
<1>1. /\ pc[r] = "asked" /\ ~Held(q.poll) /\ row # NoRow
      /\ StillOffered(row.options, q.choice, q.shown) /\ OpenNow(row) /\ NotVoted(q.who, q.poll)
      /\ pc' = [pc EXCEPT ![r] = "judged"]
      /\ UNCHANGED <<poll, store, request, janitor, accounts, bounds, accepted>>
  BY DEF Judge
<1>2. q \in Request /\ q # NoRequest
  BY <1>1 DEF PollsKept, TypeOK, JudgedStill
<1>3. q.poll \in Polls /\ q.choice \in Nat \ {0}
  BY <1>2, RequestTyped
<1>4. row \in Row /\ row.options \in Seq(Texts)
  BY <1>1, <1>3, RowsTyped, RowTyped DEF PollsKept
<1>5. q.choice \in DOMAIN row.options
  BY <1>1, <1>3, <1>4 DEF StillOffered
<1>6. TypeOK'
  BY <1>1 DEF PollsKept, TypeOK, poll, store, accounts, bounds
<1>7. pc'[r] = "judged" /\ \A v \in Requests \ {r} : pc'[v] = pc[v]
  BY <1>1 DEF PollsKept, TypeOK
<1>8. \A v \in Requests \ {r} : pc[v] = "judged" => request[v].poll # q.poll
  BY <1>1 DEF Held
<1>9. ASSUME NEW v \in Requests PROVE JudgedStill(v)'
  <2>1. NotVoted(request[v].who, request[v].poll)' = NotVoted(request[v].who, request[v].poll)
    BY <1>1 DEF NotVoted, Linked, BallotsOf, store
  <2>2. JudgedStill(v)
    BY DEF PollsKept
  <2>3. CASE v = r
    BY <1>1, <1>2, <1>5, <1>7, <1>8, <2>1, <2>3 DEF JudgedStill, OpenNow, poll
  <2>4. CASE v # r
    BY <1>1, <1>7, <1>8, <2>1, <2>2, <2>4 DEF JudgedStill, poll
  <2> QED BY <2>3, <2>4
<1>10. clock' \in Nat /\ clock' >= clock /\ janitor'.at <= clock'
  BY <1>1 DEF PollsKept, TypeOK, bounds
<1> QED BY <1>1, <1>6, <1>9, <1>10, QuietKept

LEMMA TickKept == ASSUME PollsKept, Tick PROVE PollsKept'
<1>1. TypeOK' /\ clock' \in Nat /\ clock' >= clock /\ janitor'.at <= clock'
  BY DEF PollsKept, TypeOK, Tick, poll, store, vote, accounts
<1>2. \A r \in Requests : JudgedStill(r)'
  BY JudgedStays DEF Tick, store
<1> QED BY <1>1, <1>2, QuietKept DEF Tick

\* The janitor's steps that only look, or skip a poll.
LEMMA LookKept ==
  ASSUME PollsKept, StartRun \/ \E p \in Polls : FailPoll(p) PROVE PollsKept'
<1>1. /\ UNCHANGED <<poll, store, vote, accounts, clock, edits, accepted>>
      /\ faults' \in Nat /\ janitor' \in [phase : {"idle", "polls"}, todo : SUBSET Polls, at : Nat, done : Nat]
      /\ janitor'.at <= clock
  <2>1. CASE StartRun
    BY <2>1 DEF StartRun, bounds, PollsKept, TypeOK
  <2>2. ASSUME NEW p \in Polls, FailPoll(p)
        PROVE  /\ UNCHANGED <<poll, store, vote, accounts, clock, edits, accepted>>
               /\ faults' \in Nat
               /\ janitor' \in [phase : {"idle", "polls"}, todo : SUBSET Polls, at : Nat, done : Nat]
               /\ janitor'.at <= clock
    BY <2>2 DEF FailPoll, PollsKept, TypeOK
  <2> QED BY <2>1, <2>2
<1>2. TypeOK'
  BY <1>1 DEF PollsKept, TypeOK, poll, store, vote, accounts
<1>3. \A r \in Requests : JudgedStill(r)'
  BY <1>1, JudgedStays DEF store
<1>4. clock' \in Nat /\ clock' >= clock /\ janitor'.at <= clock'
  BY <1>1 DEF PollsKept, TypeOK
<1> QED BY <1>1, <1>2, <1>3, <1>4, QuietKept

LEMMA RestartKept == ASSUME PollsKept, Restart PROVE PollsKept'
<1>1. TypeOK' /\ clock' \in Nat /\ clock' >= clock /\ janitor'.at <= clock'
  BY DEF PollsKept, TypeOK, Restart, NoRun, poll, store, accounts
<1>2. \A r \in Requests : JudgedStill(r)'
  BY DEF JudgedStill, Restart
<1> QED BY <1>1, <1>2, QuietKept DEF Restart

LEMMA StutterKept == ASSUME PollsKept, UNCHANGED vars PROVE PollsKept'
<1>1. TypeOK' /\ clock' \in Nat /\ clock' >= clock /\ janitor'.at <= clock'
  BY DEF PollsKept, TypeOK, vars, poll, store, vote, accounts, bounds
<1>2. \A r \in Requests : JudgedStill(r)'
  BY JudgedStays DEF vars, store
<1> QED BY <1>1, <1>2, QuietKept DEF vars

-----------------------------------------------------------------------------
(* People who are erased or deleted, and ballots that go with them.         *)

LEMMA ShrinkKept ==
  ASSUME PollsKept, UNCHANGED <<poll, last, vote, bounds, accepted>>, TypeOK', janitor'.at <= clock,
         erased \subseteq erased', gone \subseteq gone',
         \A i \in Ids : ballots'[i] # NoBallot =>
           /\ ballots[i] # NoBallot /\ ballots'[i].poll = ballots[i].poll
           /\ ballots'[i].choice = ballots[i].choice /\ ballots'[i].text = ballots[i].text
           /\ ballots'[i].asked = ballots[i].asked
           /\ ballots'[i].voter \in {ballots[i].voter, NoPerson},
         \A o \in Polls : \A i \in Linked(o) :
           ballots[i].voter \in People \ (erased' \cup gone') => ballots'[i] = ballots[i]
  PROVE  PollsKept'
<1>1. \A o \in Polls : Linked(o)' \subseteq Linked(o)
  BY DEF Linked
<1>2. OneVoteEach'
  BY DEF PollsKept, OneVoteEach
<1>3. CastAsShown'
  <2> SUFFICES ASSUME NEW o \in Polls, live'[o] # NoRow, NEW i \in Linked(o)'
               PROVE  /\ ballots'[i].choice \in DOMAIN live'[o].options
                      /\ live'[o].options[ballots'[i].choice] = ballots'[i].text
                      /\ live'[o].mode = ballots'[i].asked
    BY DEF CastAsShown
  <2>1. i \in Linked(o) /\ i \in Ids /\ ballots'[i] # NoBallot
    BY <1>1 DEF Linked
  <2> QED BY <2>1 DEF PollsKept, CastAsShown, poll
<1>4. BallotsPlaced'
  <2>1. \A i \in Ids : i > last' => ballots'[i] = NoBallot
    BY DEF PollsKept, BallotsPlaced
  <2>2. \A o \in Polls : Linked(o)' # {} => Exists(o)'
    BY <1>1 DEF PollsKept, BallotsPlaced, Exists, poll
  <2> QED BY <2>1, <2>2 DEF BallotsPlaced
<1>5. ASSUME NEW o \in Polls PROVE RowsAgree(o)' /\ Remembered(o)' /\ ClosedForGood(o)'
  <2>1. RowsAgree(o) /\ Remembered(o) /\ ClosedForGood(o)
    BY DEF PollsKept
  <2>2. RowsAgree(o)'
    BY <2>1 DEF RowsAgree, Exists, poll
  <2>3. Remembered(o)'
    <3> SUFFICES ASSUME NEW x \in People \ (erased' \cup gone'), accepted'[o][x] > 0, Exists(o)',
                        ~draft'[o].removed
                 PROVE  ~NotVoted(x, o)'
      BY DEF Remembered
    <3>1. ~NotVoted(x, o)
      BY <2>1 DEF Remembered, Exists, poll
    <3>2. PICK i \in Linked(o) : ballots[i] # NoBallot /\ ballots[i].voter = x /\ i \in Ids
      BY <3>1 DEF NotVoted, BallotsOf
    <3>3. ballots'[i] = ballots[i]
      BY <3>2
    <3>4. i \in Linked(o)' /\ i \in BallotsOf(x)'
      BY <3>2, <3>3 DEF Linked, BallotsOf
    <3> QED BY <3>4 DEF NotVoted
  <2>4. ClosedForGood(o)'
    <3>1. \A i \in Linked(o)' : ballots'[i].voter \in {ballots[i].voter, NoPerson} /\ i \in Linked(o)
      BY <1>1 DEF Linked
    <3> QED BY <2>1, <3>1 DEF ClosedForGood, Exists, poll, bounds
  <2> QED BY <2>2, <2>3, <2>4
<1>6. ASSUME NEW r \in Requests PROVE JudgedStill(r)'
  BY JudgedStays
<1>7. janitor'.at <= clock'
  BY DEF bounds
<1> QED BY <1>2, <1>3, <1>4, <1>5, <1>6, <1>7 DEF PollsKept

LEMMA RemoveTyped ==
  ASSUME TypeOK, NEW ids
  PROVE  /\ Remove(ids) \in [Ids -> Ballot \cup {NoBallot}]
         /\ \A i \in Ids : Remove(ids)[i] = IF i \in ids THEN NoBallot ELSE ballots[i]
BY DEF TypeOK, Remove

LEMMA EraseKept ==
  ASSUME PollsKept, NEW x \in People, Erase(x) \/ SweepErased(x) PROVE PollsKept'
<1>1. /\ ballots' = Remove(BallotsOf(x)) /\ x \in erased' /\ erased \subseteq erased'
      /\ erased' \subseteq People /\ gone' = gone
      /\ UNCHANGED <<poll, last, vote, janitor, bounds, accepted>>
  BY DEF Erase, SweepErased, accounts, PollsKept, TypeOK
<1>2. /\ ballots' \in [Ids -> Ballot \cup {NoBallot}]
      /\ \A i \in Ids : ballots'[i] = IF i \in BallotsOf(x) THEN NoBallot ELSE ballots[i]
  BY <1>1, RemoveTyped DEF PollsKept
<1>3. TypeOK'
  BY <1>1, <1>2 DEF PollsKept, TypeOK, poll, vote, bounds
<1>4. \A o \in Polls : \A i \in Linked(o) :
        ballots[i].voter \in People \ (erased' \cup gone') => ballots'[i] = ballots[i]
  BY <1>1, <1>2 DEF Linked, BallotsOf
<1>5. janitor'.at <= clock
  BY <1>1 DEF PollsKept
<1> QED BY <1>1, <1>2, <1>3, <1>4, <1>5, ShrinkKept

LEMMA DeleteAccountKept ==
  ASSUME PollsKept, NEW x \in People, DeleteAccount(x) PROVE PollsKept'
<1>1. /\ x \in gone' /\ gone \subseteq gone' /\ gone' \subseteq People /\ erased' = erased
      /\ UNCHANGED <<poll, last, vote, janitor, bounds, accepted>>
  BY DEF DeleteAccount, PollsKept, TypeOK
<1>2. \A i \in Ids : ballots'[i] =
        IF i \in BallotsOf(x) THEN [ballots[i] EXCEPT !.voter = NoPerson] ELSE ballots[i]
  BY DEF DeleteAccount
<1>3. ASSUME NEW i \in Ids, i \in BallotsOf(x)
      PROVE  /\ ballots'[i] \in Ballot /\ ballots'[i].poll = ballots[i].poll
             /\ ballots'[i].choice = ballots[i].choice /\ ballots'[i].text = ballots[i].text
             /\ ballots'[i].asked = ballots[i].asked /\ ballots'[i].voter = NoPerson
             /\ ballots[i] # NoBallot
  <2>1. ballots[i] \in Ballot /\ ballots[i] # NoBallot
    BY <1>3 DEF PollsKept, TypeOK, BallotsOf
  <2> QED BY <1>2, <1>3, <2>1 DEF Ballot
<1>4. ballots' \in [Ids -> Ballot \cup {NoBallot}]
  <2>1. \A i \in Ids : ballots'[i] \in Ballot \cup {NoBallot}
    BY <1>2, <1>3 DEF PollsKept, TypeOK
  <2>2. ballots' = [i \in Ids |-> ballots'[i]]
    BY DEF DeleteAccount
  <2> QED BY <2>1, <2>2
<1>5. TypeOK'
  BY <1>1, <1>4 DEF PollsKept, TypeOK, poll, vote, bounds
<1>6. \A o \in Polls : \A i \in Linked(o) :
        ballots[i].voter \in People \ (erased' \cup gone') => ballots'[i] = ballots[i]
  BY <1>1, <1>2 DEF Linked, BallotsOf
<1>7. janitor'.at <= clock
  BY <1>1 DEF PollsKept
<1>8. \A i \in Ids : ballots'[i] # NoBallot =>
        /\ ballots[i] # NoBallot /\ ballots'[i].poll = ballots[i].poll
        /\ ballots'[i].choice = ballots[i].choice /\ ballots'[i].text = ballots[i].text
        /\ ballots'[i].asked = ballots[i].asked
        /\ ballots'[i].voter \in {ballots[i].voter, NoPerson}
  BY <1>2, <1>3
<1> QED BY <1>1, <1>5, <1>6, <1>7, <1>8, ShrinkKept

LEMMA DeleteOrphansKept ==
  ASSUME PollsKept, DeleteOrphans PROVE PollsKept'
<1>1. /\ ballots' = Remove(FirstOrphans) /\ janitor' = NoRun
      /\ UNCHANGED <<poll, last, vote, accounts, bounds, accepted>>
  BY DEF DeleteOrphans
<1>2. /\ ballots' \in [Ids -> Ballot \cup {NoBallot}]
      /\ \A i \in Ids : ballots'[i] = IF i \in FirstOrphans THEN NoBallot ELSE ballots[i]
  BY <1>1, RemoveTyped DEF PollsKept
<1>3. TypeOK' /\ janitor'.at <= clock
  BY <1>1, <1>2 DEF PollsKept, TypeOK, NoRun, poll, vote, accounts, bounds
<1>4. \A i \in FirstOrphans : ballots[i].poll = NoPoll
  BY DEF FirstOrphans, Orphans, Linked
<1>5. \A o \in Polls : \A i \in Linked(o) : ballots'[i] = ballots[i]
  BY <1>2, <1>4, PollNulls DEF Linked
<1>6. \A i \in Ids : ballots'[i] # NoBallot => ballots'[i] = ballots[i]
  BY <1>2
<1> QED BY <1>1, <1>3, <1>5, <1>6, ShrinkKept DEF accounts

-----------------------------------------------------------------------------
(* Steps under one poll's lock.                                             *)

\* What is left to show of a step on one poll that no vote holds.
LEMMA PollKept ==
  ASSUME PollsKept, NEW p \in Polls, ~Held(p), TypeOK', janitor'.at <= clock,
         UNCHANGED <<last, vote, accounts, clock>>,
         \A o \in Polls \ {p} : draft'[o] = draft[o] /\ live'[o] = live[o] /\ accepted'[o] = accepted[o],
         \A x \in People : accepted'[p][x] \in {accepted[p][x], 0},
         \A i \in Ids \ Linked(p) : ballots'[i] = ballots[i],
         \A i \in Linked(p) : ballots'[i] # NoBallot => ballots'[i].poll \in {p, NoPoll},
         live'[p] # NoRow =>
           \A i \in Linked(p)' : /\ ballots'[i].choice \in DOMAIN live'[p].options
                                 /\ live'[p].options[ballots'[i].choice] = ballots'[i].text
                                 /\ live'[p].mode = ballots'[i].asked,
         Linked(p)' # {} => Exists(p)',
         RowsAgree(p)', Remembered(p)', ClosedForGood(p)'
  PROVE  PollsKept'
<1>1. ASSUME NEW o \in Polls \ {p}
      PROVE  Linked(o)' = Linked(o) /\ \A i \in Linked(o) : ballots'[i] = ballots[i]
  BY PollNulls DEF Linked
<1>2. OneVoteEach'
  BY DEF PollsKept, OneVoteEach, accounts
<1>3. CastAsShown'
  BY <1>1 DEF PollsKept, CastAsShown
<1>4. BallotsPlaced'
  <2>1. \A i \in Ids : i > last' => ballots'[i] = NoBallot
    BY DEF PollsKept, BallotsPlaced, Linked
  <2>2. ASSUME NEW o \in Polls, Linked(o)' # {} PROVE Exists(o)'
    BY <1>1, <2>2 DEF PollsKept, BallotsPlaced, Exists
  <2> QED BY <2>1, <2>2 DEF BallotsPlaced
<1>5. ASSUME NEW o \in Polls \ {p}, NEW x PROVE NotVoted(x, o)' = NotVoted(x, o)
  <2>1. Linked(o)' = Linked(o) /\ \A i \in Linked(o) : ballots'[i] = ballots[i] /\ i \in Ids
    BY <1>1 DEF Linked
  <2> QED BY <2>1 DEF NotVoted, BallotsOf
<1>6. ASSUME NEW o \in Polls \ {p} PROVE RowsAgree(o)' /\ Remembered(o)' /\ ClosedForGood(o)'
  <2>1. RowsAgree(o) /\ Remembered(o) /\ ClosedForGood(o)
    BY DEF PollsKept
  <2>2. RowsAgree(o)'
    BY <2>1 DEF RowsAgree, Exists
  <2>3. Remembered(o)'
    BY <1>5, <2>1 DEF Remembered, Exists, accounts
  <2>4. ClosedForGood(o)'
    BY <1>1, <2>1 DEF ClosedForGood, Exists
  <2> QED BY <2>2, <2>3, <2>4
<1>7. ASSUME NEW r \in Requests PROVE JudgedStill(r)'
  <2>1. JudgedStill(r)
    BY DEF PollsKept
  <2>2. CASE pc[r] # "judged"
    BY <2>1, <2>2 DEF JudgedStill, vote
  <2>3. CASE pc[r] = "judged"
    <3>1. request[r].poll \in Polls /\ request[r].poll # p
      BY <2>1, <2>3, RequestTyped DEF JudgedStill, PollsKept, TypeOK, Held
    <3>2. NotVoted(request[r].who, request[r].poll)'
      BY <1>1, <2>1, <2>3, <3>1 DEF JudgedStill, NotVoted, Linked, BallotsOf, vote
    <3>3. live'[request[r].poll] = live[request[r].poll]
      BY <3>1
    <3> QED BY <2>1, <2>3, <3>2, <3>3 DEF JudgedStill, vote
  <2> QED BY <2>2, <2>3
<1>8. janitor'.at <= clock'
  OBVIOUS
<1> QED BY <1>2, <1>3, <1>4, <1>6, <1>7, <1>8 DEF PollsKept

\* An author's step leaves the ballots alone.
LEMMA EditKept ==
  ASSUME PollsKept, NEW p \in Polls, Edit(p), Exists(p), UNCHANGED <<store, accepted>>,
         NEW d \in Row \cup {NoRow}, NEW l \in Row \cup {NoRow}, l # NoRow => d # NoRow,
         draft' = [draft EXCEPT ![p] = d], live' = [live EXCEPT ![p] = l],
         Linked(p) # {} => d # NoRow /\ (l # NoRow => live[p] # NoRow)
           /\ (l # NoRow => l.options = live[p].options /\ l.mode = live[p].mode),
         l # NoRow => l.removed = d.removed,
         d # NoRow /\ (draft[p].removed => d.removed),
         d.removed =>
           /\ draft[p].removed
           /\ d.closes < clock /\ (l # NoRow => l.closes < clock)
  PROVE  PollsKept'
<1>1. /\ draft'[p] = d /\ live'[p] = l
      /\ \A o \in Polls \ {p} : draft'[o] = draft[o] /\ live'[o] = live[o] /\ accepted'[o] = accepted[o]
  BY DEF PollsKept, TypeOK
<1>2. /\ ~Held(p) /\ UNCHANGED <<last, ballots, vote, janitor, accounts, clock, faults>>
      /\ edits' \in Nat
  BY DEF Edit, store, PollsKept, TypeOK
<1>3. TypeOK' /\ janitor'.at <= clock
  BY <1>1, <1>2 DEF PollsKept, TypeOK, vote, accounts
<1>4. Linked(p)' = Linked(p)
  BY <1>2 DEF Linked
<1>5. live'[p] # NoRow =>
        \A i \in Linked(p)' : /\ ballots'[i].choice \in DOMAIN live'[p].options
                              /\ live'[p].options[ballots'[i].choice] = ballots'[i].text
                              /\ live'[p].mode = ballots'[i].asked
  BY <1>1, <1>2, <1>4 DEF PollsKept, CastAsShown
<1>6. Linked(p)' # {} => Exists(p)'
  BY <1>1, <1>4 DEF Exists
<1>7. RowsAgree(p)'
  BY <1>1 DEF RowsAgree, Exists
<1>8. Remembered(p)'
  <2> SUFFICES ASSUME NEW x \in People \ (erased' \cup gone'), accepted'[p][x] > 0, Exists(p)',
                      ~draft'[p].removed
               PROVE  ~NotVoted(x, p)'
    BY DEF Remembered
  <2>1. ~NotVoted(x, p)
    BY <1>1, <1>2 DEF PollsKept, Remembered, accounts
  <2> QED BY <1>2, <2>1 DEF NotVoted, Linked, BallotsOf
<1>9. ClosedForGood(p)'
  BY <1>1, <1>2, <1>4 DEF PollsKept, ClosedForGood, Exists
<1> QED BY <1>1, <1>2, <1>3, <1>5, <1>6, <1>7, <1>8, <1>9, PollKept DEF Linked

\* Which row an author's change is compared with, and when that is long past.
LEMMA BaselineKnows ==
  ASSUME PollsKept, NEW p \in Polls, Exists(p), draft[p].removed
  PROVE  Removed(p) /\ Baseline(p).closes < clock /\ draft[p].closes < clock
BY DEF PollsKept, ClosedForGood, Removed, Rows, Exists, Baseline

LEMMA UpdateKept ==
  ASSUME PollsKept, NEW p \in Polls, NEW carried, NEW o \in OptionLists, NEW m \in Modes,
         NEW c \in ClosingTimes, NEW publishes \in BOOLEAN,
         Update(p, carried, [options |-> o, mode |-> m, closes |-> c], publishes)
  PROVE  PollsKept'
<1> DEFINE to == [options |-> o, mode |-> m, closes |-> c]
           next == Overlaid(draft[p], carried, to)
           l == IF publishes THEN next ELSE live[p]
<1>1. /\ Edit(p) /\ Exists(p) /\ NotFrozen(p, next, carried, publishes)
      /\ NotReopened(p, next, carried, publishes)
      /\ draft' = [draft EXCEPT ![p] = next] /\ UNCHANGED <<store, accepted>>
      /\ live' = IF publishes THEN [live EXCEPT ![p] = next] ELSE live
  BY DEF Update
<1>2. draft[p] \in Row
  BY <1>1, RowsTyped DEF Exists, PollsKept
<1>3. /\ next \in Row /\ next # NoRow /\ next.removed = draft[p].removed
      /\ "closes" \notin carried => next.closes = draft[p].closes
  BY <1>2, PollNumbers, PollNullsAreNone DEF Overlaid, Row
<1> HIDE DEF next
<1>4. live' = [live EXCEPT ![p] = l] /\ l \in Row \cup {NoRow}
  BY <1>1, <1>3 DEF PollsKept, TypeOK
<1>5. Linked(p) # {} => /\ l # NoRow => live[p] # NoRow
                        /\ l # NoRow => l.options = live[p].options /\ l.mode = live[p].mode
  BY <1>1 DEF NotFrozen, Frozen
<1>6. l # NoRow => l.removed = next.removed
  BY <1>1, <1>3 DEF PollsKept, RowsAgree
<1>7. next.removed => /\ next.closes < clock /\ (l # NoRow => l.closes < clock)
  BY <1>1, <1>3, BaselineKnows DEF NotReopened, PollsKept, ClosedForGood
<1> HIDE DEF l
<1> QED BY <1>1, <1>3, <1>4, <1>5, <1>6, <1>7, EditKept

LEMMA PublishKept ==
  ASSUME PollsKept, NEW p \in Polls, Publish(p) PROVE PollsKept'
<1>1. /\ Edit(p) /\ Exists(p) /\ NotFrozen(p, draft[p], {}, TRUE) /\ NotReopened(p, draft[p], {}, TRUE)
      /\ live' = [live EXCEPT ![p] = draft[p]] /\ UNCHANGED <<draft, store, accepted>>
  BY DEF Publish
<1>2. draft[p] \in Row /\ draft[p] # NoRow /\ draft' = [draft EXCEPT ![p] = draft[p]]
  BY <1>1, RowsTyped DEF Exists, PollsKept, TypeOK
<1>3. Linked(p) # {} => /\ live[p] # NoRow
                        /\ draft[p].options = live[p].options /\ draft[p].mode = live[p].mode
  BY <1>1 DEF NotFrozen, Frozen
<1>4. draft[p].removed => draft[p].closes < clock
  BY <1>1, BaselineKnows
<1> QED BY <1>1, <1>2, <1>3, <1>4, EditKept

LEMMA UnpublishKept ==
  ASSUME PollsKept, NEW p \in Polls, Unpublish(p) PROVE PollsKept'
<1>1. /\ Edit(p) /\ live[p] # NoRow /\ Linked(p) = {}
      /\ live' = [live EXCEPT ![p] = NoRow] /\ UNCHANGED <<draft, store, accepted>>
  BY DEF Unpublish
<1>2. Exists(p)
  BY <1>1 DEF PollsKept, RowsAgree
<1>3. draft[p] \in Row /\ draft[p] # NoRow /\ draft' = [draft EXCEPT ![p] = draft[p]]
  BY <1>1, <1>2, RowsTyped DEF Exists, PollsKept, TypeOK
<1>4. draft[p].removed => draft[p].closes < clock
  BY <1>2, BaselineKnows
<1> QED BY <1>1, <1>2, <1>3, <1>4, EditKept

LEMMA DiscardDraftKept ==
  ASSUME PollsKept, NEW p \in Polls, DiscardDraft(p) PROVE PollsKept'
<1>1. /\ Edit(p) /\ live[p] # NoRow
      /\ draft' = [draft EXCEPT ![p] = live[p]] /\ UNCHANGED <<live, store, accepted>>
  BY DEF DiscardDraft
<1>2. Exists(p) /\ live[p].removed = draft[p].removed
  BY <1>1 DEF PollsKept, RowsAgree
<1>3. live[p] \in Row /\ live' = [live EXCEPT ![p] = live[p]]
  BY <1>1, RowsTyped DEF PollsKept, TypeOK
<1>4. live[p].removed => live[p].closes < clock
  BY <1>1, <1>2 DEF PollsKept, ClosedForGood
<1> QED BY <1>1, <1>2, <1>3, <1>4, EditKept

LEMMA CreateKept ==
  ASSUME PollsKept, NEW p \in Polls, NEW row \in Row, NEW publishes \in BOOLEAN,
         Create(p, row, publishes)
  PROVE  PollsKept'
<1> DEFINE d == [row EXCEPT !.removed = FALSE]
           l == IF publishes THEN d ELSE live[p]
<1>1. /\ Edit(p) /\ ~Exists(p) /\ draft' = [draft EXCEPT ![p] = d] /\ UNCHANGED store
      /\ live' = IF publishes THEN [live EXCEPT ![p] = d] ELSE live
      /\ accepted' = [accepted EXCEPT ![p] = [x \in People |-> 0]]
  BY DEF Create
<1>2. d \in Row /\ d # NoRow /\ ~d.removed
  BY PollNullsAreNone DEF Row
<1>3. Linked(p) = {} /\ live[p] = NoRow
  BY <1>1 DEF PollsKept, BallotsPlaced, RowsAgree
<1> HIDE DEF d
<1>4. live' = [live EXCEPT ![p] = l] /\ l \in Row \cup {NoRow}
  BY <1>1, <1>2 DEF PollsKept, TypeOK
<1>5. l # NoRow => l = d
  BY <1>3
<1> HIDE DEF l
<1>6. \A x \in People : accepted'[p][x] = 0
  BY <1>1 DEF PollsKept, TypeOK
<1>7. ~Held(p) /\ UNCHANGED <<last, ballots, vote, janitor, accounts, clock, faults>> /\ edits' \in Nat
  BY <1>1 DEF Edit, store, PollsKept, TypeOK
<1>8. /\ draft'[p] = d /\ live'[p] = l
      /\ \A o \in Polls \ {p} : draft'[o] = draft[o] /\ live'[o] = live[o] /\ accepted'[o] = accepted[o]
      /\ accepted' \in [Polls -> [People -> Nat]]
  BY <1>1, <1>4 DEF PollsKept, TypeOK
<1>9. TypeOK' /\ janitor'.at <= clock
  BY <1>1, <1>2, <1>4, <1>7, <1>8 DEF PollsKept, TypeOK, vote, accounts
<1>10. Linked(p)' = {}
  BY <1>3, <1>7 DEF Linked
<1>11. RowsAgree(p)' /\ Remembered(p)' /\ ClosedForGood(p)'
  BY <1>2, <1>5, <1>6, <1>8 DEF RowsAgree, Remembered, ClosedForGood, Exists
<1> QED BY <1>6, <1>7, <1>8, <1>9, <1>10, <1>11, PollKept DEF Linked

\* A deleted poll leaves its ballots without a link to it.
LEMMA DeleteKept ==
  ASSUME PollsKept, NEW p \in Polls, Delete(p) PROVE PollsKept'
<1>1. /\ Edit(p) /\ UNCHANGED <<last, accepted>>
      /\ draft' = [draft EXCEPT ![p] = NoRow] /\ live' = [live EXCEPT ![p] = NoRow]
      /\ ballots' = [i \in Ids |-> IF i \in Linked(p) THEN [ballots[i] EXCEPT !.poll = NoPoll]
                                                      ELSE ballots[i]]
  BY DEF Delete
<1>2. ~Held(p) /\ UNCHANGED <<vote, janitor, accounts, clock, faults>> /\ edits' \in Nat
  BY <1>1 DEF Edit, PollsKept, TypeOK
<1>3. ASSUME NEW i \in Linked(p) PROVE ballots'[i] \in Ballot /\ ballots'[i].poll = NoPoll
  <2>1. i \in Ids /\ ballots[i] \in Ballot
    BY LinkedTyped DEF PollsKept
  <2> QED BY <1>1, <2>1 DEF Ballot
<1>4. \A i \in Ids \ Linked(p) : ballots'[i] = ballots[i]
  BY <1>1
<1>5. ballots' \in [Ids -> Ballot \cup {NoBallot}]
  <2>1. \A i \in Ids : ballots'[i] \in Ballot \cup {NoBallot}
    BY <1>3, <1>4 DEF PollsKept, TypeOK
  <2>2. ballots' = [i \in Ids |-> ballots'[i]]
    BY <1>1
  <2> QED BY <2>1, <2>2
<1>6. TypeOK' /\ janitor'.at <= clock
  BY <1>1, <1>2, <1>5 DEF PollsKept, TypeOK, vote, accounts
<1>7. /\ draft'[p] = NoRow /\ live'[p] = NoRow
      /\ \A o \in Polls \ {p} : draft'[o] = draft[o] /\ live'[o] = live[o] /\ accepted'[o] = accepted[o]
      /\ \A x \in People : accepted'[p][x] \in {accepted[p][x], 0}
  BY <1>1 DEF PollsKept, TypeOK
<1>8. Linked(p)' = {}
  <2> SUFFICES ASSUME NEW i \in Ids, ballots'[i] # NoBallot, ballots'[i].poll = p PROVE FALSE
    BY DEF Linked
  <2>1. i \in Linked(p)
    BY <1>4 DEF Linked
  <2> QED BY <1>3, <2>1, PollNulls
<1>9. RowsAgree(p)' /\ Remembered(p)' /\ ClosedForGood(p)'
  BY <1>7 DEF RowsAgree, Remembered, ClosedForGood, Exists
<1> QED BY <1>1, <1>2, <1>3, <1>4, <1>6, <1>7, <1>8, <1>9, PollKept

\* Both rows are stamped, and the ballots that stay lose their voter.
LEMMA RemoveVotersKept ==
  ASSUME PollsKept, NEW p \in Polls, RemoveVoters(p) PROVE PollsKept'
<1>1. /\ ~Held(p) /\ UNCHANGED <<last, vote, accounts, bounds, accepted>>
      /\ janitor' \in [phase : {"idle", "polls"}, todo : SUBSET Polls, at : Nat, done : Nat]
      /\ janitor'.at = janitor.at
  <2>1. janitor \in [phase : {"idle", "polls"}, todo : SUBSET Polls, at : Nat, done : Nat]
    BY DEF PollsKept, TypeOK
  <2>2. \/ janitor' = [janitor EXCEPT !.todo = janitor.todo \ {p}, !.done = janitor.done + 1]
        \/ janitor' = [janitor EXCEPT !.todo = janitor.todo \ {p}]
    BY DEF RemoveVoters
  <2>3. janitor.todo \ {p} \in SUBSET Polls /\ janitor.done + 1 \in Nat
    BY <2>1
  <2>4. /\ janitor' \in [phase : {"idle", "polls"}, todo : SUBSET Polls, at : Nat, done : Nat]
        /\ janitor'.at = janitor.at
    BY <2>1, <2>2, <2>3
  <2> QED BY <2>4 DEF RemoveVoters
<1>2. CASE ~VotersRemovable(p, janitor.at)
  <2>1. UNCHANGED <<poll, ballots>>
    BY <1>2 DEF RemoveVoters
  <2>2. TypeOK' /\ clock' \in Nat /\ clock' >= clock /\ janitor'.at <= clock'
    BY <1>1, <2>1 DEF PollsKept, TypeOK, poll, vote, accounts, bounds
  <2>3. \A r \in Requests : JudgedStill(r)'
    BY <1>1, <2>1, JudgedStays
  <2> QED BY <1>1, <2>1, <2>2, <2>3, QuietKept DEF store
<1>3. CASE VotersRemovable(p, janitor.at)
  <2>1. /\ ballots' = Unlinked(p) /\ draft' = [draft EXCEPT ![p] = Stamped(draft[p])]
        /\ live' = [live EXCEPT ![p] = Stamped(live[p])]
    BY <1>3 DEF RemoveVoters
  <2>2. draft[p] # NoRow /\ draft[p] \in Row
    BY <1>3, RowsTyped DEF VotersRemovable, Rows, PollsKept, RowsAgree, Exists
  <2>3. /\ Stamped(draft[p]) \in Row /\ Stamped(draft[p]) # NoRow /\ Stamped(draft[p]).removed
        /\ Stamped(draft[p]).closes = draft[p].closes
    BY <2>2, PollNullsAreNone DEF Stamped, Row
  <2>4. live[p] # NoRow =>
          /\ Stamped(live[p]) \in Row /\ Stamped(live[p]) # NoRow /\ Stamped(live[p]).removed
          /\ Stamped(live[p]).closes = live[p].closes
          /\ Stamped(live[p]).options = live[p].options /\ Stamped(live[p]).mode = live[p].mode
    BY RowsTyped, PollNullsAreNone DEF PollsKept, Stamped, Row
  <2>5. live[p] = NoRow => Stamped(live[p]) = NoRow
    BY DEF Stamped
  <2>6. /\ draft'[p] = Stamped(draft[p]) /\ live'[p] = Stamped(live[p])
        /\ \A o \in Polls \ {p} : draft'[o] = draft[o] /\ live'[o] = live[o] /\ accepted'[o] = accepted[o]
        /\ \A x \in People : accepted'[p][x] \in {accepted[p][x], 0}
        /\ draft' \in [Polls -> Row \cup {NoRow}] /\ live' \in [Polls -> Row \cup {NoRow}]
    BY <1>1, <2>1, <2>3, <2>4, <2>5 DEF PollsKept, TypeOK
  <2>7. draft[p].closes < clock /\ (live[p] # NoRow => live[p].closes < clock)
    <3>1. ASSUME NEW row \in Rows(p) PROVE row.closes < clock
      <4>1. row \in Row /\ row.closes + Retention < janitor.at
        BY <1>3, RowsTyped DEF VotersRemovable, LongClosed, Rows, PollsKept
      <4>2. row.closes \in Nat /\ janitor.at \in Nat /\ clock \in Nat /\ janitor.at <= clock
        BY <4>1, RowTyped DEF PollsKept, TypeOK
      <4> QED BY <4>1, <4>2, PollNumbers
    <3> QED BY <2>2, <3>1 DEF Rows
  <2>8. ASSUME NEW i \in Linked(p), ballots'[i] # NoBallot
        PROVE  /\ ballots'[i] \in Ballot /\ ballots'[i].poll = p /\ ballots'[i].voter = NoPerson
               /\ ballots'[i].choice = ballots[i].choice /\ ballots'[i].text = ballots[i].text
               /\ ballots'[i].asked = ballots[i].asked
    <3>1. i \in Ids /\ ballots[i] \in Ballot /\ ballots[i].poll = p
      BY LinkedTyped DEF PollsKept
    <3>2. ballots'[i] = [ballots[i] EXCEPT !.voter = NoPerson]
      BY <2>1, <2>8, <3>1 DEF Unlinked
    <3> QED BY <3>1, <3>2 DEF Ballot
  <2>9. \A i \in Ids \ Linked(p) : ballots'[i] = ballots[i]
    BY <2>1 DEF Unlinked
  <2>10. ballots' \in [Ids -> Ballot \cup {NoBallot}]
    <3>1. \A i \in Ids : ballots'[i] \in Ballot \cup {NoBallot}
      BY <2>8, <2>9 DEF PollsKept, TypeOK
    <3>2. ballots' = [i \in Ids |-> ballots'[i]]
      BY <2>1 DEF Unlinked
    <3> QED BY <3>1, <3>2
  <2>11. TypeOK' /\ janitor'.at <= clock
    BY <1>1, <2>6, <2>10 DEF PollsKept, TypeOK, vote, accounts, bounds
  <2>12. Linked(p)' \subseteq Linked(p) /\ \A i \in Linked(p)' : ballots'[i] # NoBallot
    BY <2>9 DEF Linked
  <2>13. live'[p] # NoRow =>
          \A i \in Linked(p)' : /\ ballots'[i].choice \in DOMAIN live'[p].options
                                /\ live'[p].options[ballots'[i].choice] = ballots'[i].text
                                /\ live'[p].mode = ballots'[i].asked
    BY <2>4, <2>5, <2>6, <2>8, <2>12 DEF PollsKept, CastAsShown
  <2>14. Exists(p)' /\ RowsAgree(p)' /\ Remembered(p)' /\ ClosedForGood(p)'
    <3>1. Exists(p)' /\ draft'[p].removed /\ (live'[p] # NoRow => live'[p].removed)
      BY <2>3, <2>4, <2>5, <2>6 DEF Exists
    <3>2. live'[p].removed \in BOOLEAN \/ live'[p] = NoRow
      BY <2>6, RowTyped
    <3>3. draft'[p].removed \in BOOLEAN
      BY <2>3, <2>6, RowTyped
    <3>4. RowsAgree(p)'
      BY <3>1, <3>2, <3>3 DEF RowsAgree
    <3>5. Remembered(p)'
      BY <3>1 DEF Remembered
    <3>6. draft'[p].closes < clock' /\ (live'[p] # NoRow => live'[p].closes < clock')
      BY <1>1, <2>3, <2>4, <2>5, <2>6, <2>7 DEF bounds
    <3>7. \A i \in Linked(p)' : ballots'[i].voter = NoPerson
      BY <2>8, <2>12
    <3> QED BY <3>1, <3>4, <3>5, <3>6, <3>7 DEF ClosedForGood
  <2> QED BY <1>1, <2>6, <2>8, <2>9, <2>11, <2>13, <2>14, PollKept DEF bounds
<1> QED BY <1>2, <1>3

\* A vote commits on the rows it was judged by: on that poll, the first of
\* the person.
LEMMA CommitKept ==
  ASSUME PollsKept, NEW r \in Requests, Commit(r) PROVE PollsKept'
<1> DEFINE q == request[r]
           p == q.poll
           x == q.who
           new == NewBallot(q)
<1>1. /\ pc[r] = "judged" /\ last < MaxBallots /\ x \notin gone
      /\ ballots' = [ballots EXCEPT ![last + 1] = new] /\ last' = last + 1
      /\ accepted' = [accepted EXCEPT ![p][x] = @ + 1]
      /\ pc' = [pc EXCEPT ![r] = "idle"] /\ request' = [request EXCEPT ![r] = NoRequest]
      /\ UNCHANGED <<poll, janitor, accounts, bounds>>
  BY DEF Commit
<1>2. JudgedStill(r) /\ q \in Request
  BY <1>1 DEF PollsKept, TypeOK, JudgedStill
<1>3. p \in Polls /\ x \in People /\ q.choice \in Choices
  BY <1>2, RequestTyped
<1>4. /\ live[p] # NoRow /\ ~live[p].removed /\ q.choice \in DOMAIN live[p].options
      /\ NotVoted(x, p)
      /\ \A v \in Requests \ {r} : pc[v] = "judged" => request[v].poll # p
  BY <1>1, <1>2 DEF JudgedStill
<1>5. live[p] \in Row /\ live[p].options \in Seq(Texts) /\ live[p].mode \in Modes
  BY <1>3, <1>4, RowsTyped, RowTyped DEF PollsKept
<1>6. live[p].options[q.choice] \in Texts
  BY <1>4, <1>5
<1>7. /\ new \in Ballot /\ new.poll = p /\ new.voter = x /\ new.choice = q.choice
      /\ new.text = live[p].options[q.choice] /\ new.asked = live[p].mode /\ new # NoBallot
  BY <1>3, <1>5, <1>6, PollNullsAreNone DEF NewBallot, Ballot
<1>8. last + 1 \in Ids /\ last \in Nat
  BY <1>1, PollNumbers DEF PollsKept, TypeOK, Ids
<1> HIDE DEF new
<1>9. /\ ballots'[last + 1] = new /\ \A i \in Ids \ {last + 1} : ballots'[i] = ballots[i]
      /\ ballots' \in [Ids -> Ballot \cup {NoBallot}]
  BY <1>1, <1>7, <1>8 DEF PollsKept, TypeOK
<1>10. ballots[last + 1] = NoBallot
  BY <1>8 DEF PollsKept, BallotsPlaced
<1>11. /\ accepted' \in [Polls -> [People -> Nat]]
       /\ accepted'[p][x] = accepted[p][x] + 1
       /\ \A o \in Polls, y \in People : o # p \/ y # x => accepted'[o][y] = accepted[o][y]
  BY <1>1, <1>3 DEF PollsKept, TypeOK
<1>12. /\ pc'[r] = "idle" /\ \A v \in Requests \ {r} : pc'[v] = pc[v] /\ request'[v] = request[v]
       /\ pc' \in [Requests -> {"idle", "asked", "judged"}]
       /\ request' \in [Requests -> Request \cup {NoRequest}]
  BY <1>1 DEF PollsKept, TypeOK
<1>13. TypeOK'
  BY <1>1, <1>8, <1>9, <1>11, <1>12 DEF PollsKept, TypeOK, poll, accounts, bounds
<1>14. /\ \A o \in Polls : o = p => Linked(o)' = Linked(o) \cup {last + 1}
       /\ \A o \in Polls \ {p} : Linked(o)' = Linked(o)
       /\ \A o \in Polls : last + 1 \notin Linked(o)
  <2>1. ASSUME NEW o \in Polls, NEW i \in Ids
        PROVE  i \in Linked(o)' <=> i \in Linked(o) \/ (i = last + 1 /\ o = p)
    <3>1. CASE i = last + 1
      BY <1>7, <1>9, <1>10, <3>1 DEF Linked
    <3>2. CASE i # last + 1
      BY <1>9, <3>2 DEF Linked
    <3> QED BY <3>1, <3>2
  <2>2. \A o \in Polls : last + 1 \notin Linked(o)
    BY <1>10 DEF Linked
  <2>3. \A o \in Polls : Linked(o) \subseteq Ids /\ Linked(o)' \subseteq Ids
    BY DEF Linked
  <2>4. ASSUME NEW o \in Polls, o = p PROVE Linked(o)' = Linked(o) \cup {last + 1}
    BY <1>8, <2>1, <2>3, <2>4
  <2>5. ASSUME NEW o \in Polls, o # p PROVE Linked(o)' = Linked(o)
    BY <2>1, <2>3, <2>5
  <2> QED BY <2>2, <2>4, <2>5
<1>15. draft[p] # NoRow /\ ~draft[p].removed
  BY <1>3, <1>4 DEF PollsKept, RowsAgree, Exists
<1>16. OneVoteEach'
  <2>1. x \notin erased => accepted[p][x] = 0
    BY <1>1, <1>3, <1>4, <1>15 DEF PollsKept, TypeOK, Remembered, Exists
  <2> QED BY <1>1, <1>11, <2>1 DEF PollsKept, OneVoteEach, accounts
<1>17. CastAsShown'
  <2> SUFFICES ASSUME NEW o \in Polls, live'[o] # NoRow, NEW i \in Linked(o)'
               PROVE  /\ ballots'[i].choice \in DOMAIN live'[o].options
                      /\ live'[o].options[ballots'[i].choice] = ballots'[i].text
                      /\ live'[o].mode = ballots'[i].asked
    BY DEF CastAsShown
  <2>1. CASE i = last + 1
    <3>1. o = p
      BY <1>14, <2>1
    <3> QED BY <1>1, <1>4, <1>7, <1>9, <2>1, <3>1 DEF poll
  <2>2. CASE i # last + 1
    <3>1. i \in Linked(o) /\ ballots'[i] = ballots[i]
      BY <1>9, <1>14, <2>2 DEF Linked
    <3> QED BY <1>1, <3>1 DEF PollsKept, CastAsShown, poll
  <2> QED BY <2>1, <2>2
<1>18. BallotsPlaced'
  <2>1. \A i \in Ids : i > last' => ballots'[i] = NoBallot
    BY <1>1, <1>8, <1>9, PollNumbers DEF PollsKept, BallotsPlaced, Ids
  <2>2. \A o \in Polls : Linked(o)' # {} => Exists(o)'
    BY <1>1, <1>14, <1>15 DEF PollsKept, BallotsPlaced, Exists, poll
  <2> QED BY <2>1, <2>2 DEF BallotsPlaced
<1>19. ASSUME NEW o \in Polls PROVE RowsAgree(o)' /\ Remembered(o)' /\ ClosedForGood(o)'
  <2>1. RowsAgree(o) /\ Remembered(o) /\ ClosedForGood(o)
    BY DEF PollsKept
  <2>2. RowsAgree(o)'
    BY <1>1, <2>1 DEF RowsAgree, Exists, poll
  <2>3. Remembered(o)'
    <3> SUFFICES ASSUME NEW y \in People \ (erased' \cup gone'), accepted'[o][y] > 0, Exists(o)',
                        ~draft'[o].removed
                 PROVE  ~NotVoted(y, o)'
      BY DEF Remembered
    <3>1. CASE o = p /\ y = x
      <4>1. last + 1 \in Linked(o)'
        BY <1>14, <3>1
      <4>2. last + 1 \in BallotsOf(y)'
        BY <1>7, <1>8, <1>9, <3>1 DEF BallotsOf
      <4> QED BY <4>1, <4>2 DEF NotVoted
    <3>2. CASE ~(o = p /\ y = x)
      <4>1. ~NotVoted(y, o)
        BY <1>1, <1>11, <2>1, <3>2 DEF Remembered, Exists, poll, accounts
      <4>2. PICK i \in Linked(o) : ballots[i] # NoBallot /\ ballots[i].voter = y /\ i \in Ids
        BY <4>1 DEF NotVoted, BallotsOf
      <4>3. i # last + 1
        BY <1>14, <4>2
      <4>4. ballots'[i] = ballots[i]
        BY <1>9, <4>2, <4>3
      <4>5. i \in Linked(o)'
        BY <4>2, <4>4 DEF Linked
      <4> QED BY <4>2, <4>4, <4>5 DEF NotVoted, BallotsOf
    <3> QED BY <3>1, <3>2
  <2>4. ClosedForGood(o)'
    <3>1. CASE o = p
      BY <1>1, <1>15, <3>1 DEF ClosedForGood, poll
    <3>2. CASE o # p
      <4>1. Linked(o)' = Linked(o) /\ \A i \in Linked(o) : ballots'[i] = ballots[i]
        BY <1>9, <1>14, <3>2 DEF Linked
      <4> QED BY <1>1, <2>1, <4>1 DEF ClosedForGood, Exists, poll, bounds
    <3> QED BY <3>1, <3>2
  <2> QED BY <2>2, <2>3, <2>4
<1>20. ASSUME NEW v \in Requests PROVE JudgedStill(v)'
  <2>1. JudgedStill(v)
    BY DEF PollsKept
  <2>2. CASE v = r
    BY <1>12, <2>2 DEF JudgedStill
  <2>3. CASE v # r /\ pc[v] # "judged"
    BY <1>12, <2>1, <2>3 DEF JudgedStill
  <2>4. CASE v # r /\ pc[v] = "judged"
    <3>1. request[v].poll \in Polls \ {p}
      BY <1>4, <2>1, <2>4, RequestTyped DEF JudgedStill, PollsKept, TypeOK
    <3>2. NotVoted(request[v].who, request[v].poll)
      BY <2>1, <2>4 DEF JudgedStill
    <3>3. request'[v] = request[v] /\ pc'[v] = "judged"
      BY <1>12, <2>4
    <3>4. ballots'[last + 1] # NoBallot /\ ballots'[last + 1].poll = p
      BY <1>7, <1>9
    <3>5. NotVoted(request[v].who, request[v].poll)'
      BY <1>9, <3>1, <3>2, <3>3, <3>4 DEF NotVoted, Linked, BallotsOf
    <3>6. \A w \in Requests \ {v} : pc'[w] = "judged" => request'[w].poll # request[v].poll
      BY <1>12, <2>1, <2>4 DEF JudgedStill
    <3> QED BY <1>1, <2>1, <2>4, <3>3, <3>5, <3>6 DEF JudgedStill, poll
  <2> QED BY <2>2, <2>3, <2>4
<1>21. janitor'.at <= clock'
  BY <1>1 DEF PollsKept, bounds
<1> QED BY <1>13, <1>16, <1>17, <1>18, <1>19, <1>20, <1>21 DEF PollsKept

-----------------------------------------------------------------------------
(* The inductive invariant, and what follows from it.                       *)

LEMMA PollInitKept == Init => PollsKept
<1> SUFFICES ASSUME Init PROVE PollsKept
  OBVIOUS
<1>1. /\ \A p \in Polls : draft[p] # NoRow => draft[p] \in Row /\ ~draft[p].removed
      /\ \A p \in Polls : live[p] # NoRow => live[p] \in Row /\ ~live[p].removed /\ Exists(p)
  BY DEF Init
<1>2. draft \in [Polls -> Row \cup {NoRow}] /\ live \in [Polls -> Row \cup {NoRow}]
  BY DEF Init
<1>3. \A p \in Polls, x \in People :
        accepted[p][x] = IF Linked(p) \cap BallotsOf(x) = {} THEN 0 ELSE 1
  BY DEF Init
<1>4. accepted \in [Polls -> [People -> Nat]]
  BY DEF Init
<1>5. janitor \in [phase : {"idle", "polls"}, todo : SUBSET Polls, at : Nat, done : Nat]
      /\ janitor.at = 0 /\ clock = 0
  BY DEF Init, NoRun
<1>6. TypeOK
  BY <1>2, <1>4, <1>5, PollNumbers DEF Init, TypeOK
<1>7. OneVoteEach
  BY <1>3 DEF OneVoteEach
<1>8. ASSUME NEW p \in Polls, NEW i \in Linked(p)
      PROVE  /\ Exists(p)
             /\ live[p] # NoRow => /\ ballots[i].choice \in DOMAIN live[p].options
                                   /\ live[p].options[ballots[i].choice] = ballots[i].text
                                   /\ live[p].mode = ballots[i].asked
  BY DEF Init, Earlier, Linked
<1>9. CastAsShown
  BY <1>8 DEF CastAsShown
<1>10. BallotsPlaced
  BY <1>8, PollNumbers DEF BallotsPlaced, Init, Ids
<1>11. ASSUME NEW p \in Polls PROVE RowsAgree(p) /\ Remembered(p) /\ ClosedForGood(p)
  <2>1. RowsAgree(p)
    BY <1>1, RowTyped DEF RowsAgree, Exists
  <2>2. Remembered(p)
    BY <1>3 DEF Remembered, NotVoted
  <2>3. ClosedForGood(p)
    BY <1>1 DEF ClosedForGood, Exists
  <2> QED BY <2>1, <2>2, <2>3
<1>12. \A r \in Requests : JudgedStill(r)
  BY DEF Init, JudgedStill
<1> QED BY <1>5, <1>6, <1>7, <1>9, <1>10, <1>11, <1>12 DEF PollsKept

LEMMA PollNextKept == PollsKept /\ [Next]_vars => PollsKept'
<1> SUFFICES ASSUME PollsKept, [Next]_vars PROVE PollsKept'
  OBVIOUS
<1>1. ASSUME NEW r \in Requests, NEW x \in People, NEW p \in Polls, NEW choice \in Choices,
             NEW shown \in Texts \cup {OldWeb}, Ask(r, x, p, choice, shown)
      PROVE  PollsKept'
  BY <1>1, AskKept
<1>2. ASSUME NEW r \in Requests, Voting(r) PROVE PollsKept'
  BY <1>2, JudgeKept, CommitKept, RefuseKept DEF Voting
<1>3. CASE Authoring
  <2>1. PICK p \in Polls :
          \/ \E carried \in SUBSET (Frozen \cup {"closes"}), o \in OptionLists, m \in Modes,
                c \in ClosingTimes, publishes \in BOOLEAN :
               Update(p, carried, [options |-> o, mode |-> m, closes |-> c], publishes)
          \/ Publish(p) \/ Unpublish(p) \/ DiscardDraft(p) \/ Delete(p)
          \/ \E o \in OptionLists, m \in Modes, c \in ClosingTimes, publishes \in BOOLEAN :
               Create(p, [options |-> o, mode |-> m, closes |-> c, removed |-> FALSE], publishes)
    BY <1>3 DEF Authoring
  <2>2. ASSUME NEW carried, NEW o \in OptionLists, NEW m \in Modes, NEW c \in ClosingTimes,
               NEW publishes \in BOOLEAN,
               Update(p, carried, [options |-> o, mode |-> m, closes |-> c], publishes)
        PROVE  PollsKept'
    BY <2>2, UpdateKept
  <2>3. ASSUME NEW o \in OptionLists, NEW m \in Modes, NEW c \in ClosingTimes,
               NEW publishes \in BOOLEAN,
               Create(p, [options |-> o, mode |-> m, closes |-> c, removed |-> FALSE], publishes)
        PROVE  PollsKept'
    <3>1. [options |-> o, mode |-> m, closes |-> c, removed |-> FALSE] \in Row
      BY PollNumbers DEF Row, Never
    <3> QED BY <2>3, <3>1, CreateKept
  <2> QED BY <2>1, <2>2, <2>3, PublishKept, UnpublishKept, DiscardDraftKept, DeleteKept
<1>4. CASE Janitor
  BY <1>4, LookKept, DeleteOrphansKept, RemoveVotersKept DEF Janitor
<1>5. ASSUME NEW x \in People, Erase(x) \/ SweepErased(x) \/ DeleteAccount(x) PROVE PollsKept'
  BY <1>5, EraseKept, DeleteAccountKept
<1>6. CASE Tick
  BY <1>6, TickKept
<1>7. CASE Restart
  BY <1>7, RestartKept
<1>8. CASE UNCHANGED vars
  BY <1>8, StutterKept
<1> QED BY <1>1, <1>2, <1>3, <1>4, <1>5, <1>6, <1>7, <1>8 DEF Next

\* Every behaviour of the votes, the authors, the janitor and the erasures
\* keeps what the promises below need, however many of each there are.
THEOREM PollsAreKept == Spec => []PollsKept
<1> QED BY PollInitKept, PollNextKept, PTL DEF Spec

\* Type correctness of the whole state, from castVote to removePollVoters.
THEOREM Typed == Spec => []TypeOK
<1>1. PollsKept => TypeOK
  BY DEF PollsKept
<1> QED BY <1>1, PollsAreKept, PTL

\* castVote accepts at most one vote of a person on a poll, whatever
\* requests, edits and the janitor do in between.
THEOREM VotesAreSingle == Spec => []OneVoteEach
<1>1. PollsKept => OneVoteEach
  BY DEF PollsKept
<1> QED BY <1>1, PollsAreKept, PTL

\* assertPollNotFrozen keeps at every ballot's index the text, and for every
\* ballot the anonymity, it was cast under.
THEOREM VotesAreCastAsShown == Spec => []CastAsShown
<1>1. PollsKept => CastAsShown
  BY DEF PollsKept
<1> QED BY <1>1, PollsAreKept, PTL

\* assertPollNotReopened and removePollVoters: no voter is named again and no
\* vote is taken again once the voters of a poll were removed.
THEOREM AnonymityStays == Spec => []StaysAnonymous
<1>1. ASSUME PollsKept, NEW p \in Polls, Removed(p)
      PROVE  /\ \A i \in Linked(p) : ballots[i].voter = NoPerson
             /\ live[p] # NoRow => live[p].removed /\ live[p].closes < clock
  <2>1. Exists(p) /\ draft[p].removed /\ (live[p] # NoRow => live[p].removed = draft[p].removed)
    BY <1>1 DEF PollsKept, RowsAgree, Removed, Rows, Exists
  <2> QED BY <1>1, <2>1 DEF PollsKept, ClosedForGood
<1>2. PollsKept => StaysAnonymous
  BY <1>1 DEF StaysAnonymous
<1> QED BY <1>2, PollsAreKept, PTL

-----------------------------------------------------------------------------
(* Results stand: which ballots count changes only with a vote, an erasure, *)
(* a deleted account or a deleted poll.                                     *)

\* ResultsStand, for one step and one poll.
StandsFor(p) ==
  Exists(p) /\ Exists(p)' =>
    /\ \A i \in Counted(p) :
         \/ i \in Counted(p)' /\ ballots'[i].choice = ballots[i].choice
         \/ ballots[i].voter \in erased'
    /\ \A i \in Counted(p)' \ Counted(p) :
         \/ i = last' /\ accepted' # accepted
         \/ gone' # gone

LEMMA UntouchedStands ==
  ASSUME NEW p \in Polls, \A i \in Ids : i \in Linked(p)' <=> i \in Linked(p),
         \A i \in Linked(p) : ballots'[i] = ballots[i]
  PROVE  StandsFor(p)
<1>1. Linked(p)' = Linked(p)
  BY DEF Linked
<1>2. \A i \in Linked(p) : Later(p, i)' <=> Later(p, i)
  BY <1>1 DEF Later
<1>3. Counted(p)' = Counted(p) /\ Counted(p) \subseteq Linked(p)
  BY <1>1, <1>2 DEF Counted
<1> QED BY <1>3 DEF StandsFor

LEMMA SameBallotsStand ==
  ASSUME UNCHANGED ballots, NEW p \in Polls PROVE StandsFor(p)
BY UntouchedStands DEF Linked

LEMMA CommitStands ==
  ASSUME PollsKept, NEW r \in Requests, Commit(r), NEW p \in Polls PROVE StandsFor(p)
<1> DEFINE q == request[r]
           new == NewBallot(q)
<1>1. /\ ballots' = [ballots EXCEPT ![last + 1] = new] /\ last' = last + 1 /\ last < MaxBallots
      /\ accepted' = [accepted EXCEPT ![q.poll][q.who] = @ + 1] /\ pc[r] = "judged"
  BY DEF Commit
<1>2. q \in Request /\ q.poll \in Polls /\ q.who \in People
  <2>1. q \in Request
    BY <1>1 DEF PollsKept, TypeOK, JudgedStill
  <2> QED BY <2>1, RequestTyped
<1>3. accepted' # accepted
  <2>1. accepted[q.poll][q.who] \in Nat /\ accepted'[q.poll][q.who] = accepted[q.poll][q.who] + 1
    BY <1>1, <1>2 DEF PollsKept, TypeOK
  <2> QED BY <2>1
<1> HIDE DEF new
<1>4. /\ last + 1 \in Ids /\ last \in Nat /\ ballots'[last + 1] = new
      /\ \A i \in Ids \ {last + 1} : ballots'[i] = ballots[i]
  BY <1>1, PollNumbers DEF PollsKept, TypeOK, Ids
<1>5. \A i \in Ids : i > last => i \notin Linked(p)
  BY DEF PollsKept, BallotsPlaced, Linked
<1>6. \A i \in Linked(p) : i \in Linked(p)' /\ ballots'[i] = ballots[i] /\ i \in Ids /\ i <= last
  BY <1>4, <1>5, PollNumbers DEF Linked, Ids
<1>7. \A i \in Linked(p)' : i \in Linked(p) \/ i = last + 1
  BY <1>4 DEF Linked
<1>8. ASSUME NEW i \in Linked(p) PROVE Later(p, i)' <=> Later(p, i)
  <2>1. i <= last /\ ballots'[i] = ballots[i]
    BY <1>6
  <2>2. \A j \in Linked(p)' : j < i => j \in Linked(p) /\ ballots'[j] = ballots[j]
    BY <1>4, <1>6, <1>7, <2>1, PollNumbers DEF Linked, Ids
  <2>3. ASSUME NEW j \in Linked(p) PROVE j \in Linked(p)' /\ ballots'[j] = ballots[j]
    BY <1>6
  <2> QED BY <2>1, <2>2, <2>3 DEF Later
<1>9. \A i \in Linked(p) : i \in Counted(p)' <=> i \in Counted(p)
  BY <1>6, <1>8 DEF Counted
<1>10. Counted(p) \subseteq Linked(p) /\ Counted(p)' \subseteq Linked(p)'
  BY DEF Counted
<1> QED BY <1>1, <1>3, <1>6, <1>7, <1>9, <1>10 DEF StandsFor

LEMMA DeleteStands ==
  ASSUME PollsKept, NEW o \in Polls, Delete(o), NEW p \in Polls PROVE StandsFor(p)
<1>1. /\ draft' = [draft EXCEPT ![o] = NoRow]
      /\ ballots' = [i \in Ids |-> IF i \in Linked(o) THEN [ballots[i] EXCEPT !.poll = NoPoll]
                                                      ELSE ballots[i]]
  BY DEF Delete
<1>2. CASE p = o
  BY <1>1, <1>2 DEF StandsFor, Exists, PollsKept, TypeOK
<1>3. CASE p # o
  <2>1. \A i \in Linked(o) : i \notin Linked(p) /\ ballots'[i].poll = NoPoll
    BY <1>1, <1>3, LinkedTyped DEF PollsKept, Linked, Ballot
  <2>2. \A i \in Ids \ Linked(o) : ballots'[i] = ballots[i]
    BY <1>1
  <2>3. \A i \in Ids : i \in Linked(p)' <=> i \in Linked(p)
    BY <2>1, <2>2, PollNulls DEF Linked
  <2>4. \A i \in Linked(p) : ballots'[i] = ballots[i]
    BY <2>1, <2>2 DEF Linked
  <2> QED BY <2>3, <2>4, UntouchedStands
<1> QED BY <1>2, <1>3

LEMMA RemoveVotersStands ==
  ASSUME PollsKept, NEW o \in Polls, RemoveVoters(o), NEW p \in Polls PROVE StandsFor(p)
<1>1. CASE UNCHANGED ballots
  BY <1>1, SameBallotsStand
<1>2. CASE ballots' = Unlinked(o)
  <2>1. ASSUME NEW i \in Ids
        PROVE  ballots'[i] = IF i \notin Linked(o) THEN ballots[i]
                             ELSE IF Later(o, i) THEN NoBallot
                             ELSE [ballots[i] EXCEPT !.voter = NoPerson]
    BY <1>2 DEF Unlinked
  <2>2. ASSUME NEW i \in Linked(o), ~Later(o, i)
        PROVE  /\ ballots'[i] # NoBallot /\ ballots'[i].poll = o /\ ballots'[i].voter = NoPerson
               /\ ballots'[i].choice = ballots[i].choice
    <3>1. ballots[i] \in Ballot /\ ballots[i].poll = o /\ i \in Ids
      BY LinkedTyped DEF PollsKept
    <3>2. ballots'[i] = [ballots[i] EXCEPT !.voter = NoPerson]
      BY <2>1, <2>2, <3>1
    <3>3. ballots'[i] \in Ballot
      BY <3>1, <3>2 DEF Ballot
    <3> QED BY <3>1, <3>2, <3>3, PollNullsAreNone DEF Ballot
  <2>3. CASE p = o
    <3>1. \A i \in Linked(p) : ~Later(p, i) => i \in Linked(p)' /\ ~Later(p, i)'
      BY <2>2, <2>3 DEF Linked, Later
    <3>2. \A i \in Linked(p)' : i \in Linked(p) /\ ~Later(p, i)
      BY <2>1, <2>3 DEF Linked
    <3>3. Counted(p)' = Counted(p) /\ \A i \in Counted(p) : ballots'[i].choice = ballots[i].choice
      BY <2>2, <2>3, <3>1, <3>2 DEF Counted
    <3> QED BY <3>3 DEF StandsFor
  <2>4. CASE p # o
    <3>1. ASSUME NEW i \in Ids PROVE i \in Linked(p)' <=> i \in Linked(p)
      <4>1. CASE i \in Linked(o) /\ Later(o, i)
        BY <2>1, <2>4, <4>1 DEF Linked
      <4>2. CASE i \in Linked(o) /\ ~Later(o, i)
        BY <2>2, <2>4, <4>2 DEF Linked
      <4>3. CASE i \notin Linked(o)
        BY <2>1, <4>3 DEF Linked
      <4> QED BY <4>1, <4>2, <4>3
    <3>2. \A i \in Linked(p) : ballots'[i] = ballots[i]
      BY <2>1, <2>4 DEF Linked
    <3> QED BY <3>1, <3>2, UntouchedStands
  <2> QED BY <2>3, <2>4
<1> QED BY <1>1, <1>2 DEF RemoveVoters

LEMMA DeleteOrphansStand ==
  ASSUME PollsKept, DeleteOrphans, NEW p \in Polls PROVE StandsFor(p)
<1>1. ballots' = Remove(FirstOrphans)
  BY DEF DeleteOrphans
<1>2. \A i \in FirstOrphans : i \in Ids /\ ballots[i] # NoBallot /\ ballots[i].poll = NoPoll
  BY DEF FirstOrphans, Orphans, Linked
<1>3. \A i \in Ids : ballots'[i] = IF i \in FirstOrphans THEN NoBallot ELSE ballots[i]
  BY <1>1 DEF Remove
<1>4. \A i \in Linked(p) : ballots'[i] = ballots[i]
  BY <1>2, <1>3, PollNulls DEF Linked
<1>5. \A i \in Ids : i \in Linked(p)' <=> i \in Linked(p)
  BY <1>3, <1>4 DEF Linked
<1> QED BY <1>4, <1>5, UntouchedStands

LEMMA EraseStands ==
  ASSUME PollsKept, NEW x \in People, Erase(x) \/ SweepErased(x), NEW p \in Polls
  PROVE  StandsFor(p)
<1>1. x \in erased' /\ ballots' = Remove(BallotsOf(x))
  BY DEF Erase, SweepErased, accounts
<1>2. \A i \in Ids : ballots'[i] = IF i \in BallotsOf(x) THEN NoBallot ELSE ballots[i]
  BY <1>1 DEF Remove
<1>3. \A i \in Ids : i \in Linked(p)' <=> i \in Linked(p) /\ ballots[i].voter # x
  BY <1>2 DEF Linked, BallotsOf
<1>4. \A i \in Linked(p)' : i \in Linked(p) /\ ballots'[i] = ballots[i] /\ ballots[i].voter # x
  BY <1>2, <1>3 DEF Linked, BallotsOf
<1>5. \A i \in Linked(p)' : Later(p, i)' <=> Later(p, i)
  BY <1>3, <1>4 DEF Later, Linked
<1>6. \A i \in Counted(p) : ballots[i].voter # x => i \in Counted(p)' /\ ballots'[i] = ballots[i]
  BY <1>3, <1>4, <1>5 DEF Counted, Linked
<1>7. Counted(p)' \subseteq Counted(p)
  BY <1>4, <1>5 DEF Counted
<1> QED BY <1>1, <1>6, <1>7 DEF StandsFor

LEMMA DeleteAccountStands ==
  ASSUME PollsKept, NEW x \in People, DeleteAccount(x), NEW p \in Polls PROVE StandsFor(p)
<1>1. gone' # gone
  BY DEF DeleteAccount
<1>2. \A i \in Ids : ballots'[i] = IF i \in BallotsOf(x) THEN [ballots[i] EXCEPT !.voter = NoPerson]
                                                         ELSE ballots[i]
  BY DEF DeleteAccount
<1>3. ASSUME NEW i \in Linked(p)
      PROVE  /\ i \in Linked(p)' /\ ballots'[i].choice = ballots[i].choice
             /\ ballots'[i].voter \in {NoPerson, ballots[i].voter}
  <2>1. i \in Ids /\ ballots[i] \in Ballot /\ ballots[i].poll = p /\ ballots[i] # NoBallot
    BY LinkedTyped DEF PollsKept
  <2>2. /\ ballots'[i].poll = p /\ ballots'[i].choice = ballots[i].choice
        /\ ballots'[i].voter \in {NoPerson, ballots[i].voter}
    BY <1>2, <2>1 DEF Ballot
  <2>3. ballots'[i] \in Ballot
    BY <1>2, <2>1 DEF Ballot
  <2> QED BY <2>1, <2>2, <2>3, PollNullsAreNone DEF Linked
<1>4. \A i \in Linked(p)' : i \in Linked(p)
  BY <1>2 DEF Linked, BallotsOf, PollsKept, TypeOK, Ballot
<1>5. \A i \in Linked(p) : Later(p, i)' => Later(p, i)
  BY <1>3, <1>4 DEF Later
<1>6. \A i \in Counted(p) : i \in Counted(p)' /\ ballots'[i].choice = ballots[i].choice
  BY <1>3, <1>5 DEF Counted
<1> QED BY <1>1, <1>6 DEF StandsFor

\* What a poll shows of its results (countedBallots) is changed by votes and
\* by the leaving of people alone: no edit, no removal of voters and no
\* restart adds a ballot to it or takes one away.
THEOREM ResultsAreKept == Spec => ResultsStand
<1> DEFINE Stand == \A p \in Polls : StandsFor(p)
<1>1. ASSUME PollsKept, Next PROVE Stand
  <2> SUFFICES ASSUME NEW p \in Polls PROVE StandsFor(p)
    OBVIOUS
  <2>1. ASSUME NEW r \in Requests, Voting(r) PROVE StandsFor(p)
    BY <1>1, <2>1, CommitStands, SameBallotsStand DEF Voting, Judge, Refuse, store
  <2>2. CASE Authoring
    <3>1. PICK o \in Polls :
            \/ \E carried \in SUBSET (Frozen \cup {"closes"}), ol \in OptionLists, m \in Modes,
                  c \in ClosingTimes, publishes \in BOOLEAN :
                 Update(o, carried, [options |-> ol, mode |-> m, closes |-> c], publishes)
            \/ Publish(o) \/ Unpublish(o) \/ DiscardDraft(o) \/ Delete(o)
            \/ \E ol \in OptionLists, m \in Modes, c \in ClosingTimes, publishes \in BOOLEAN :
                 Create(o, [options |-> ol, mode |-> m, closes |-> c, removed |-> FALSE], publishes)
      BY <2>2 DEF Authoring
    <3>2. ASSUME NEW carried, NEW to, NEW publishes, Update(o, carried, to, publishes)
          PROVE  UNCHANGED ballots
      BY <3>2 DEF Update, store
    <3>3. ASSUME NEW row, NEW publishes, Create(o, row, publishes) PROVE UNCHANGED ballots
      BY <3>3 DEF Create, store
    <3>4. CASE Publish(o) \/ Unpublish(o) \/ DiscardDraft(o)
      BY <3>4, SameBallotsStand DEF Publish, Unpublish, DiscardDraft, store
    <3>5. CASE Delete(o)
      BY <1>1, <3>5, DeleteStands
    <3> QED BY <3>1, <3>2, <3>3, <3>4, <3>5, SameBallotsStand
  <2>3. CASE Janitor
    BY <1>1, <2>3, RemoveVotersStands, DeleteOrphansStand, SameBallotsStand
    DEF Janitor, StartRun, FailPoll, store
  <2>4. ASSUME NEW x \in People, Erase(x) \/ SweepErased(x) \/ DeleteAccount(x)
        PROVE  StandsFor(p)
    BY <1>1, <2>4, EraseStands, DeleteAccountStands
  <2>5. CASE Tick \/ Restart
    BY <2>5, SameBallotsStand DEF Tick, Restart, store
  <2>6. ASSUME NEW r \in Requests, NEW x \in People, NEW o \in Polls, NEW choice \in Choices,
               NEW shown \in Texts \cup {OldWeb}, Ask(r, x, o, choice, shown)
        PROVE  StandsFor(p)
    BY <2>6, SameBallotsStand DEF Ask, store
  <2> QED BY <1>1, <2>1, <2>2, <2>3, <2>4, <2>5, <2>6 DEF Next
<1>2. PollsKept /\ [Next]_vars => [Stand]_vars
  BY <1>1
<1>3. ResultsStand <=> [][Stand]_vars
  BY DEF ResultsStand, StandsFor
<1> QED BY <1>2, <1>3, PollsAreKept, PTL DEF Spec

=============================================================================
