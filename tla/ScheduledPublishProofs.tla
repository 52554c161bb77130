----------------------- MODULE ScheduledPublishProofs -----------------------
(***************************************************************************)
(* The types of ScheduledPublish and what goes with them, for any          *)
(* documents, kinds, plans, limits and bounds.                             *)
(***************************************************************************)
EXTENDS ScheduledPublish, FiniteSetTheorems, SequenceTheorems, TLAPS

Run == [step : Steps, pass : Passes, start : Times, todo : Seq(Docs),
        r : Nat, at : Times, code : Codes]

\* TypeOK in the parts that steps change together.
ContentType ==
  /\ stored \subseteq Docs /\ published \subseteq stored
  /\ draft \in [Docs -> Plan] /\ live \in [Docs -> Plan]
  /\ revision \in [Docs -> Nat]

MemoryType ==
  /\ tries \in [Docs -> [Passes -> [revision : Nat, count : Nat]]]
  /\ deferred \in [Docs -> [failures : Nat, at : Times, revision : Nat]]
  /\ cursor \in Nat
  /\ passedOver \in [Docs -> Nat]

OtherType ==
  /\ kind \in DOMAIN Parents /\ parent \in Parents[kind]
  /\ clock \in Times
  /\ edits \in 0..MaxEdits /\ faults \in 0..MaxFaults
  /\ superseded \in BOOLEAN /\ idleSeen \in BOOLEAN

RunType == run \in Run

\* The parts are the whole.
LEMMA TypeParts == TypeOK <=> ContentType /\ MemoryType /\ OtherType /\ RunType
BY DEF TypeOK, ContentType, MemoryType, OtherType, RunType, Run

-----------------------------------------------------------------------------
(* Types.                                                                   *)

\* An order of a query's rows is a sequence of documents.
LEMMA OrdersAreSequences ==
  ASSUME NEW S \in SUBSET Docs, NEW rank
  PROVE  Orders(S, rank) \subseteq Seq(Docs)
<1>1. Cardinality(S) \in Nat
  BY DocsAreRowIds, FS_Subset, FS_CardinalityType
<1>2. Orders(S, rank) \subseteq Seq(S)
  BY <1>1, SeqDef DEF Orders
<1> QED BY <1>2, SeqMonotonic

\* The document at hand is one of the documents.
LEMMA DocType ==
  ASSUME RunType, run.todo # <<>>
  PROVE  Doc \in Docs /\ Tail(run.todo) \in Seq(Docs)
BY HeadTailProperties DEF RunType, Run, Doc

\* Turning to the next document keeps the run typed and out of flight.
LEMMA NextDocumentTyped ==
  ASSUME RunType, run.todo # <<>>, NextDocument
  PROVE  /\ RunType' /\ run'.step = "next"
         /\ superseded' = FALSE /\ idleSeen' = FALSE
<1>1. Tail(run.todo) \in Seq(Docs)
  BY DocType
<1>2. 0 \in Times /\ "none" \in Codes /\ "next" \in Steps
  BY LimitsArePositive DEF Times, Codes, Steps
<1> QED BY <1>1, <1>2 DEF RunType, Run, NextDocument

\* Plans stay plans when a field of them changes.
LEMMA PlanFields ==
  ASSUME NEW p \in Plan, NEW t \in Times \cup {Never}, NEW code \in Codes
  PROVE  /\ [p EXCEPT !.publishAt = t] \in Plan
         /\ [p EXCEPT !.error = code, !.publishAt = t] \in Plan
         /\ p.publishAt \in Times \cup {Never} /\ p.unpublishAt \in Times \cup {Never}
BY DEF Plan

\* A draft or a published row without a plan is a plan too.
LEMMA UnplannedIsPlan == Unplanned \in Plan
BY DEF Unplanned, Plan, Codes

\* Times are numbers.
LEMMA TimesAreNumbers == MaxTime \in Nat /\ Never \in Nat /\ 0 \in Times /\ Times \subseteq Nat
BY LimitsArePositive DEF Never, Times

\* The planned windows of any kind are times.
LEMMA WindowsAreTimes == Windows \subseteq Times \cup {Never} /\ PublishTimes \subseteq Times \cup {Never}
BY PlansAreTimes DEF Windows

\* The rows of the documents, changed at one of them, stay typed.
LEMMA ContentChange ==
  ASSUME ContentType, NEW d \in Docs, NEW p \in Plan, NEW q \in Plan, NEW n \in Nat,
         stored' \subseteq Docs, published' \subseteq stored',
         draft' \in {draft, [draft EXCEPT ![d] = p]},
         live' \in {live, [live EXCEPT ![d] = q]},
         revision' \in {revision, [revision EXCEPT ![d] = n]}
  PROVE  ContentType'
BY DEF ContentType

\* What authors do keeps the types.
LEMMA AuthorTyped ==
  ASSUME TypeOK, NEW d \in Docs, Author(d)
  PROVE  TypeOK'
<1>0. ContentType /\ MemoryType /\ OtherType /\ RunType
  BY TypeParts
<1>1. Edits(d)
  BY DEF Author, Save, PublishNow, Unpublish, Discard, Delete
<1>2. MemoryType' /\ OtherType' /\ RunType'
  BY <1>0, <1>1, LimitsArePositive DEF Edits, MemoryType, OtherType, memory, RunType
<1>3. ContentType'
  <2>1. draft[d] \in Plan /\ live[d] \in Plan /\ revision[d] + 1 \in Nat /\ 0 \in Nat
    BY <1>0 DEF ContentType
  <2>2. Never \in Times \cup {Never} /\ "none" \in Codes
    BY DEF Codes
  <2>3. CASE \E p \in PublishTimes, u \in Windows : Save(d, p, u)
    <3> PICK p \in PublishTimes, u \in Windows : Save(d, p, u)
      BY <2>3
    <3>1. [publishAt |-> p, unpublishAt |-> u, error |-> "none"] \in Plan
      BY WindowsAreTimes, <2>2 DEF Plan
    <3> QED BY <1>0, <2>1, <3>1, ContentChange DEF Save, Advance, ContentType
  <2>4. CASE \E u \in Windows \cup {draft[d].unpublishAt} : PublishNow(d, u)
    <3> PICK u \in Windows \cup {draft[d].unpublishAt} : PublishNow(d, u)
      BY <2>4
    <3>1. u \in Times \cup {Never}
      BY WindowsAreTimes, <2>1 DEF Plan
    <3>2. [Unplanned EXCEPT !.unpublishAt = u] \in Plan
      BY <3>1, <2>2 DEF Plan, Unplanned
    <3>3. d \in stored
      BY DEF PublishNow, Edits
    <3>4. live' = [live EXCEPT ![d] = [Unplanned EXCEPT !.unpublishAt = u]]
      BY <1>0 DEF PublishNow, ContentType
    <3>5. stored' \subseteq Docs /\ published' \subseteq stored'
      BY <1>0, <3>3 DEF PublishNow, ContentType
    <3> QED BY <1>0, <2>1, <3>2, <3>4, <3>5, ContentChange DEF PublishNow, Advance
  <2>5. CASE Unpublish(d)
    <3>1. [draft[d] EXCEPT !.publishAt = Never] \in Plan
      BY <2>1, PlanFields, <2>2
    <3>2. draft' = [draft EXCEPT ![d] = [draft[d] EXCEPT !.publishAt = Never]]
      BY <2>5 DEF Unpublish
    <3>3. stored' \subseteq Docs /\ published' \subseteq stored'
      BY <1>0, <2>5 DEF Unpublish, ContentType
    <3> QED BY <1>0, <2>1, <2>5, <3>1, <3>2, <3>3, UnplannedIsPlan, ContentChange
            DEF Unpublish, Advance
  <2>6. CASE Discard(d)
    BY <1>0, <2>1, <2>6, ContentChange DEF Discard, Advance, ContentType
  <2>7. CASE Delete(d)
    <3>1. stored' \subseteq Docs /\ published' \subseteq stored'
      BY <1>0, <2>7 DEF Delete, ContentType
    <3> QED BY <1>0, <2>1, <2>7, <3>1, UnplannedIsPlan, ContentChange DEF Delete
  <2> QED BY <2>3, <2>4, <2>5, <2>6, <2>7 DEF Author
<1> QED BY <1>2, <1>3, TypeParts, PTL

\* Selections, time and restarts, which change no document, keep the types.
LEMMA SelectionTyped ==
  ASSUME TypeOK, RunInPlace,
         StartRun \/ SelectRetries \/ SelectHealthy \/ SelectPublishes \/ EndPass \/ Take
           \/ RunFails \/ Restart \/ Tick
  PROVE  TypeOK'
<1>0. ContentType /\ MemoryType /\ OtherType /\ RunType
  BY TypeParts
<1>1. UNCHANGED content
  BY DEF StartRun, SelectRetries, SelectHealthy, SelectPublishes, EndPass, Take, RunFails,
         Restart, Tick
<1>2. ContentType'
  BY <1>0, <1>1 DEF ContentType, content
<1>3. OtherType'
  <2>1. kind' = kind /\ parent' = parent /\ edits' = edits /\ faults' \in 0..MaxFaults
    <3>1. Runs \/ Fault
      BY DEF StartRun, SelectRetries, SelectHealthy, SelectPublishes, EndPass, Take, RunFails,
             Restart, Tick
    <3> QED BY <1>0, <3>1, LimitsArePositive DEF Runs, Fault, OtherType
  <2>2. clock' \in Times
    <3>1. clock' = clock \/ (clock < MaxTime /\ clock' = clock + 1)
      BY DEF StartRun, SelectRetries, SelectHealthy, SelectPublishes, EndPass, Take, RunFails,
             Restart, Tick
    <3> QED BY <1>0, <3>1, LimitsArePositive DEF OtherType, Times
  <2>3. superseded' \in BOOLEAN /\ idleSeen' \in BOOLEAN
    BY <1>0, Zenon
       DEF StartRun, SelectRetries, SelectHealthy, SelectPublishes, EndPass, Take, RunFails,
           Restart, Tick, OtherType, history
  <2> QED BY <1>0, <2>1, <2>2, <2>3 DEF OtherType
<1>4. MemoryType'
  <2>1. CASE SelectRetries
    <3>1. Examined \subseteq Docs
      BY <1>0 DEF Examined, Failing, Withdrawals, ContentType
    <3>2. NextCursor \subseteq Nat
      <4>1. NextCursor \subseteq Examined \cup {0}
        BY Zenon DEF NextCursor
      <4> QED BY <3>1, <4>1, DocsAreRowIds
    <3>3. passedOver' \in [Docs -> Nat]
      <4>1. passedOver' = [d \in Docs |-> IF d \in Ready \ Picked THEN passedOver[d] + 1 ELSE 0]
        BY <2>1 DEF SelectRetries
      <4> QED BY <1>0, <4>1 DEF MemoryType
    <3>4. cursor' \in Nat /\ tries' = tries /\ deferred' = deferred
      BY <2>1, <3>2 DEF SelectRetries
    <3> QED BY <1>0, <3>3, <3>4 DEF MemoryType
  <2>2. CASE Restart
    BY <2>2, TimesAreNumbers DEF Restart, MemoryType, NoTries, NotDeferred
  <2>3. CASE UNCHANGED <<memory, passedOver>>
    BY <1>0, <2>3 DEF MemoryType, memory
  <2> QED BY <2>1, <2>2, <2>3
          DEF StartRun, SelectHealthy, SelectPublishes, EndPass, Take, RunFails, Tick
<1>5. RunType'
  <2>0. /\ {"idle", "retries", "healthy", "publishes", "next", "taken"} \subseteq Steps
        /\ "publish" \in Passes /\ "unpublish" \in Passes /\ "none" \in Codes
        /\ <<>> \in Seq(Docs) /\ 0 \in Nat /\ 0 \in Times /\ clock \in Times
    BY <1>0, TimesAreNumbers DEF Steps, Passes, Codes, OtherType
  <2>1. Idle \in Run
    BY <2>0 DEF Idle, Run
  <2>2. CASE StartRun
    BY <2>0, <2>1, <2>2 DEF StartRun, Idle, RunType, Run
  <2>3. CASE SelectRetries
    <3>1. Picked \in SUBSET Docs
      BY <1>0 DEF Picked, Ready, Failing, Withdrawals, ContentType
    <3>2. PICK retries \in Orders(Picked, Circle) :
            run' = [run EXCEPT !.step = "healthy", !.todo = retries]
      BY <2>3 DEF SelectRetries
    <3>3. retries \in Seq(Docs)
      BY <3>1, <3>2, OrdersAreSequences
    <3> QED BY <1>0, <2>0, <3>2, <3>3 DEF RunType, Run
  <2>4. CASE SelectHealthy
    <3> DEFINE rows == First(Healthy, Batch - Len(run.todo), ByEnd)
               free == {d \in rows : BackoffOver(d, run.start)}
    <3>1. free \in SUBSET Docs
      BY <1>0 DEF First, Healthy, Withdrawals, ContentType
    <3>2. PICK healthy \in Orders(free, ByEnd) :
            run' = [run EXCEPT !.step = "next", !.todo = healthy \o @]
      BY <2>4 DEF SelectHealthy
    <3>3. healthy \in Seq(Docs) /\ run.todo \in Seq(Docs)
      BY <1>0, <3>1, <3>2, OrdersAreSequences DEF RunType, Run
    <3>4. healthy \o run.todo \in Seq(Docs)
      BY <3>3, ConcatProperties
    <3> QED BY <1>0, <2>0, <3>2, <3>4 DEF RunType, Run
  <2>5. CASE SelectPublishes
    <3> DEFINE rows == First(Publishable, Batch, ByStart)
    <3>1. rows \in SUBSET Docs
      BY <1>0 DEF First, Publishable, ContentType
    <3>2. PICK due \in Orders(rows, ByStart) :
            run' = [run EXCEPT !.step = "next", !.pass = "publish", !.todo = due]
      BY <2>5 DEF SelectPublishes
    <3>3. due \in Seq(Docs)
      BY <3>1, <3>2, OrdersAreSequences
    <3> QED BY <1>0, <2>0, <3>2, <3>3 DEF RunType, Run
  <2>6. CASE EndPass
    BY <1>0, <2>0, <2>1, <2>6 DEF EndPass, RunType, Run
  <2>7. CASE Take
    <3>1. revision[Doc] \in Nat
      BY <1>0, <2>7, DocType DEF Take, ContentType
    <3> QED BY <1>0, <2>0, <2>7, <3>1 DEF Take, RunType, Run
  <2>8. CASE RunFails \/ Restart
    BY <2>1, <2>8 DEF RunFails, Restart, RunType
  <2>9. CASE Tick
    BY <1>0, <2>9 DEF Tick, RunType
  <2> QED BY <2>2, <2>3, <2>4, <2>5, <2>6, <2>7, <2>8, <2>9
<1> QED BY <1>2, <1>3, <1>4, <1>5, TypeParts, PTL

\* Forgetting the attempts of a document keeps the counts typed.
LEMMA ClearTriesTyped ==
  ASSUME MemoryType, RunType, Doc \in Docs, ClearTries
  PROVE  tries' \in [Docs -> [Passes -> [revision : Nat, count : Nat]]]
<1>1. run.pass \in Passes
  BY DEF RunType, Run
<1> DEFINE c == IF tries[Doc][run.pass].revision = run.r THEN NoTries ELSE tries[Doc][run.pass]
<1>2. c \in [revision : Nat, count : Nat]
  BY <1>1 DEF MemoryType, NoTries
<1>3. tries' = [tries EXCEPT ![Doc] = [tries[Doc] EXCEPT ![run.pass] = c]]
  BY <1>1 DEF ClearTries, MemoryType
<1> HIDE DEF c
<1> QED BY <1>1, <1>2, <1>3 DEF MemoryType

\* The record of a failure keeps the types.
LEMMA RecordTyped ==
  ASSUME ContentType, MemoryType, RunType, clock \in Times, run.todo # <<>>, Record
  PROVE  ContentType' /\ MemoryType' /\ RunType'
<1>0. Doc \in Docs
  BY DocType
<1>1. ContentType'
  <2>1. draft[Doc] \in Plan /\ live[Doc] \in Plan /\ revision[Doc] + 1 \in Nat
    BY <1>0 DEF ContentType
  <2>2. run.code \in Codes /\ Never \in Times \cup {Never}
    BY DEF RunType, Run
  <2>3. stored' = stored /\ published' = published /\ live' = live
    BY DEF Record
  <2> DEFINE t == IF run.pass = "publish" THEN Never ELSE draft[Doc].publishAt
  <2>4. draft[Doc].publishAt \in Times \cup {Never}
    BY <2>1 DEF Plan
  <2>5. Marked = [draft[Doc] EXCEPT !.error = run.code, !.publishAt = t]
    BY <2>1 DEF Marked, Plan
  <2>6. Marked \in Plan
    BY <2>1, <2>2, <2>4, <2>5, PlanFields
  <2>7. draft' \in {draft, [draft EXCEPT ![Doc] = Marked]}
    BY DEF Record
  <2>8. revision' \in {revision, [revision EXCEPT ![Doc] = revision[Doc] + 1]}
    BY DEF Record, Advance
  <2>9. /\ stored' \subseteq Docs /\ published' \subseteq stored'
        /\ live' \in {live, [live EXCEPT ![Doc] = live[Doc]]}
    BY <2>3 DEF ContentType
  <2> HIDE DEF Doc
  <2> QED BY <1>0, <2>1, <2>6, <2>7, <2>8, <2>9, ContentChange
<1>2. MemoryType'
  <2>1. tries' \in [Docs -> [Passes -> [revision : Nat, count : Nat]]]
    BY <1>0, ClearTriesTyped DEF Record
  <2>2. deferred' \in [Docs -> [failures : Nat, at : Times, revision : Nat]]
    <3> DEFINE failures == deferred[Doc].failures + 1
               minutes == Backoff[Earlier(failures, Len(Backoff))]
               entry == [failures |-> failures, at |-> Earlier(clock + minutes, MaxTime),
                         revision |-> revision'[Doc]]
    <3>1. failures \in Nat /\ failures > 0
      BY <1>0 DEF MemoryType
    <3>2. Earlier(failures, Len(Backoff)) \in 1 .. Len(Backoff)
      BY <3>1, LimitsArePositive DEF Earlier
    <3>3. minutes \in Nat
      BY <3>2, LimitsArePositive
    <3>4. Earlier(clock + minutes, MaxTime) \in Times
      <4> HIDE DEF minutes
      <4> QED BY <3>3, LimitsArePositive DEF Earlier, Times
    <3>5. revision'[Doc] \in Nat
      BY <1>0, <1>1 DEF ContentType, Record, Doc
    <3>6. entry \in [failures : Nat, at : Times, revision : Nat]
      BY <3>1, <3>4, <3>5
    <3>7. deferred' \in {deferred, [deferred EXCEPT ![Doc] = entry]}
      BY DEF Record, Defer
    <3> HIDE DEF entry
    <3> QED BY <1>0, <3>6, <3>7 DEF MemoryType
  <2> QED BY <2>1, <2>2 DEF Record, MemoryType
<1>3. RunType'
  BY NextDocumentTyped DEF Record
<1> QED BY <1>1, <1>2, <1>3

\* A step of the scheduler that changes neither kinds, time nor authors'
\* changes, and counts its failures.
Worked ==
  /\ kind' = kind /\ parent' = parent /\ clock' = clock /\ edits' = edits
  /\ faults' \in 0..MaxFaults
  /\ superseded' \in BOOLEAN /\ idleSeen' \in BOOLEAN

DocumentStep ==
  \/ Skip \/ Expire \/ Claim \/ CommitWithdrawal \/ CommitPublish \/ Refused
  \/ Rejected \/ Transient \/ RecordSuperseded \/ RecordFailure
  \/ RecordReadsBlockers \/ RecordReadsPublished \/ RecordReadsDue \/ RecordFails

\* Every step on a document is of this form, and in flight before.
LEMMA DocumentStepWorks ==
  ASSUME OtherType, DocumentStep
  PROVE  Worked /\ run.step \in InFlight
<1>1. (Runs \/ Fault) /\ UNCHANGED clock
  BY DEF DocumentStep, Skip, Expire, Claim, CommitWithdrawal, CommitPublish, Refused, Rejected,
         Transient, RecordSuperseded, RecordFailure, RecordReadsBlockers, RecordReadsPublished,
         RecordReadsDue, RecordFails, Record, Stale
<1>2. kind' = kind /\ parent' = parent /\ edits' = edits /\ faults' \in 0..MaxFaults
  BY <1>1, LimitsArePositive DEF Runs, Fault, OtherType
<1>3. superseded' \in {FALSE, superseded} /\ idleSeen' \in BOOLEAN
  <2>1. \/ NextDocument \/ UNCHANGED history
        \/ superseded' = superseded /\ idleSeen' = ParentIdle(clock)
        \/ superseded' = superseded /\ idleSeen' = (idleSeen \/ ParentIdle(run.at))
    BY Zenon
       DEF DocumentStep, Skip, Expire, Claim, CommitWithdrawal, CommitPublish, Refused, Rejected,
           Transient, RecordSuperseded, RecordFailure, RecordReadsBlockers, RecordReadsPublished,
           RecordReadsDue, RecordFails, Record, Stale, Fails
  <2>2. ParentIdle(clock) \in BOOLEAN /\ ParentIdle(run.at) \in BOOLEAN
    BY Zenon DEF ParentIdle
  <2>3. CASE NextDocument
    BY <2>3 DEF NextDocument
  <2>4. CASE UNCHANGED history
    BY <2>4 DEF history, OtherType
  <2>5. CASE superseded' = superseded /\ idleSeen' = ParentIdle(clock)
    BY <2>2, <2>5
  <2>6. CASE superseded' = superseded /\ idleSeen' = (idleSeen \/ ParentIdle(run.at))
    BY <2>6
  <2> QED BY <2>1, <2>3, <2>4, <2>5, <2>6
<1>4. run.step \in InFlight
  BY DEF DocumentStep, Skip, Expire, Claim, CommitWithdrawal, CommitPublish, Refused, Rejected,
         Transient, RecordSuperseded, RecordFailure, RecordReadsBlockers, RecordReadsPublished,
         RecordReadsDue, RecordFails, InFlight
<1>5. superseded' \in BOOLEAN
  BY <1>3 DEF OtherType
<1> QED BY <1>1, <1>2, <1>3, <1>4, <1>5 DEF Worked

\* A step on a document keeps the types.
LEMMA DocumentTyped ==
  ASSUME TypeOK, RunInPlace, ClaimHolds, DocumentStep
  PROVE  TypeOK'
<1>0. ContentType /\ MemoryType /\ OtherType /\ RunType
  BY TypeParts
<1>1. Worked /\ run.todo # <<>>
  BY <1>0, DocumentStepWorks DEF RunInPlace
<1>2. OtherType'
  BY <1>0, <1>1 DEF Worked, OtherType
<1>3. Doc \in Docs /\ clock \in Times /\ run.r \in Nat /\ run.pass \in Passes
  BY <1>0, <1>1, DocType DEF OtherType, RunType, Run
<1>4. draft[Doc] \in Plan /\ live[Doc] \in Plan /\ revision[Doc] + 1 \in Nat
  BY <1>0, <1>3 DEF ContentType
<1>a. CASE Record
  BY <1>0, <1>1, <1>2, <1>3, <1>a, RecordTyped, TypeParts, PTL
<1>b. CASE UNCHANGED <<content, memory, passedOver>>
  <2>1. ContentType' /\ MemoryType'
    BY <1>0, <1>b DEF ContentType, MemoryType, content, memory
  <2>2. RunType'
    <3>1. CASE NextDocument
      BY <1>0, <1>1, <3>1, NextDocumentTyped
    <3>2. CASE ~NextDocument
      <4>1. \/ run' \in {[run EXCEPT !.step = "claimed", !.at = clock],
                         [run EXCEPT !.step = "weighing", !.at = clock],
                         [run EXCEPT !.step = "weighed"]}
            \/ \E code \in {"notPublishable", "rejected", "retryExhausted"} : Fails(code)
        BY <3>2 DEF DocumentStep, Skip, Expire, Claim, CommitWithdrawal, CommitPublish, Refused,
             Rejected, Transient, RecordSuperseded, RecordFailure, RecordReadsBlockers,
             RecordReadsPublished, RecordReadsDue, RecordFails, Record, Stale
      <4>2. /\ {"claimed", "failed", "weighing", "weighed"} \subseteq Steps
            /\ {"notPublishable", "rejected", "retryExhausted"} \subseteq Codes
        BY DEF Steps, Codes
      <4>3. /\ [run EXCEPT !.step = "claimed", !.at = clock] \in Run
            /\ [run EXCEPT !.step = "weighing", !.at = clock] \in Run
        BY <1>0, <1>3, <4>2 DEF RunType, Run
      <4>4. [run EXCEPT !.step = "weighed"] \in Run
        BY <1>0, <4>2 DEF RunType, Run
      <4>5. ASSUME NEW code \in {"notPublishable", "rejected", "retryExhausted"}, Fails(code)
            PROVE  run' \in Run
        <5>1. code \in Codes /\ "failed" \in Steps
          BY <4>2
        <5> QED BY <1>0, <4>5, <5>1, TimesAreNumbers DEF Fails, RunType, Run
      <4> QED BY <4>1, <4>3, <4>4, <4>5 DEF RunType
    <3> QED BY <3>1, <3>2
  <2> QED BY <1>2, <2>1, <2>2, TypeParts, PTL
<1>c. CASE Expire
  <2> DEFINE p == [publishAt |-> Never,
                   unpublishAt |-> IF Withdraws THEN Never ELSE draft[Doc].unpublishAt,
                   error |-> "windowExpired"]
  <2>1. p \in Plan
    BY <1>4 DEF Plan, Codes
  <2>2. stored' \subseteq Docs /\ published' \subseteq stored'
    BY <1>0, <1>c DEF Expire, ContentType
  <2>3. draft' = [draft EXCEPT ![Doc] = p]
    BY <1>c DEF Expire
  <2>4. ContentType'
    <3> HIDE DEF Doc, p
    <3> QED BY <1>0, <1>3, <1>4, <1>c, <2>1, <2>2, <2>3, ContentChange DEF Expire, Advance
  <2>5. MemoryType'
    BY <1>0, <1>3, <1>c, ClearTriesTyped DEF Expire, MemoryType
  <2>6. RunType'
    BY <1>0, <1>1, <1>c, NextDocumentTyped DEF Expire
  <2> QED BY <1>2, <2>4, <2>5, <2>6, TypeParts, PTL
<1>d. CASE CommitWithdrawal
  <2>1. stored' \subseteq Docs /\ published' \subseteq stored'
    BY <1>0, <1>d DEF CommitWithdrawal, ContentType
  <2>2. ContentType'
    BY <1>0, <1>3, <1>4, <1>d, <2>1, UnplannedIsPlan, ContentChange DEF CommitWithdrawal, Advance
  <2>3. tries' \in [Docs -> [Passes -> [revision : Nat, count : Nat]]]
    BY <1>0, <1>3, <1>d, ClearTriesTyped DEF CommitWithdrawal
  <2>4. NotDeferred \in [failures : Nat, at : Times, revision : Nat]
    BY TimesAreNumbers DEF NotDeferred
  <2>5. MemoryType'
    BY <1>0, <1>d, <2>3, <2>4 DEF CommitWithdrawal, MemoryType
  <2>6. RunType'
    BY <1>0, <1>1, <1>d, NextDocumentTyped DEF CommitWithdrawal
  <2> QED BY <1>2, <2>2, <2>5, <2>6, TypeParts, PTL
<1>e. CASE CommitPublish
  <2> DEFINE p == [draft[Doc] EXCEPT !.publishAt = Never, !.error = "none"]
  <2>1. p \in Plan
    BY <1>4 DEF Plan, Codes
  <2>2. draft' = [draft EXCEPT ![Doc] = p] /\ live' = [live EXCEPT ![Doc] = p]
    BY <1>0, <1>3, <1>e DEF CommitPublish, ContentType
  <2>3. stored' \subseteq Docs /\ published' \subseteq stored'
    BY <1>0, <1>e DEF CommitPublish, ClaimHolds, ContentType
  <2>4. ContentType'
    <3> HIDE DEF Doc, p
    <3> QED BY <1>0, <1>3, <1>4, <1>e, <2>1, <2>2, <2>3, ContentChange DEF CommitPublish, Advance
  <2>5. MemoryType'
    BY <1>0, <1>3, <1>e, ClearTriesTyped DEF CommitPublish, MemoryType
  <2>6. RunType'
    BY <1>0, <1>1, <1>e, NextDocumentTyped DEF CommitPublish
  <2> QED BY <1>2, <2>4, <2>5, <2>6, TypeParts, PTL
<1>f. CASE Transient
  <2>1. ContentType'
    BY <1>0, <1>f DEF Transient, ContentType, content
  <2>2. MemoryType'
    <3> DEFINE c == [revision |-> run.r, count |-> Count]
    <3>1. Count \in Nat
      BY <1>0, <1>3 DEF Count, MemoryType
    <3>2. c \in [revision : Nat, count : Nat]
      BY <1>3, <3>1
    <3>3. tries' \in {tries, [tries EXCEPT ![Doc] = [tries[Doc] EXCEPT ![run.pass] = c]]}
      BY <1>f DEF Transient
    <3>4. tries' \in [Docs -> [Passes -> [revision : Nat, count : Nat]]]
      <4>1. [tries[Doc] EXCEPT ![run.pass] = c] \in [Passes -> [revision : Nat, count : Nat]]
        <5> HIDE DEF c
        <5> QED BY <1>0, <1>3, <3>2 DEF MemoryType
      <4> HIDE DEF c, Doc
      <4> QED BY <1>0, <1>3, <3>3, <4>1 DEF MemoryType
    <3> QED BY <1>0, <1>f, <3>4 DEF Transient, MemoryType
  <2>3. RunType'
    <3>1. NextDocument \/ Fails("retryExhausted")
      BY <1>f DEF Transient
    <3>2. CASE Fails("retryExhausted")
      BY <1>0, <3>2, TimesAreNumbers DEF Fails, RunType, Run, Steps, Codes
    <3> QED BY <1>0, <1>1, <3>1, <3>2, NextDocumentTyped
  <2> QED BY <1>2, <2>1, <2>2, <2>3, TypeParts, PTL
<1>g. Record \/ UNCHANGED <<content, memory, passedOver>> \/ Expire \/ CommitWithdrawal
        \/ CommitPublish \/ Transient
  BY DEF DocumentStep, Skip, Claim, Refused, Rejected, RecordSuperseded, RecordFailure,
         RecordReadsBlockers, RecordReadsPublished, RecordReadsDue, RecordFails, Stale
<1> QED BY <1>a, <1>b, <1>c, <1>d, <1>e, <1>f, <1>g

-----------------------------------------------------------------------------
(* The invariant.                                                           *)

\* The first state satisfies it.
LEMMA InitScheduled == Init => Scheduled
<1> SUFFICES ASSUME Init PROVE Scheduled
  OBVIOUS
<1>1. ContentType
  <2>1. draft \in [Docs -> Plan]
    <3>1. [publishAt : PublishTimes, unpublishAt : Windows, error : InitialErrors] \subseteq Plan
      BY WindowsAreTimes, ErrorsAreCodes DEF Plan
    <3> QED BY <3>1 DEF Init
  <2>2. live \in [Docs -> Plan]
    BY UnplannedIsPlan DEF Init
  <2> QED BY <2>1, <2>2 DEF Init, ContentType
<1>2. MemoryType
  BY TimesAreNumbers DEF Init, MemoryType, NoTries, NotDeferred
<1>3. OtherType
  <2>1. kind \in DOMAIN Parents /\ parent \in Parents[kind]
    BY DEF Init
  <2>2. clock \in Times /\ edits \in 0..MaxEdits /\ faults \in 0..MaxFaults
    BY LimitsArePositive DEF Init, Times
  <2>3. superseded \in BOOLEAN /\ idleSeen \in BOOLEAN
    BY DEF Init
  <2> QED BY <2>1, <2>2, <2>3 DEF OtherType
<1>4. RunType
  <2>1. <<>> \in Seq(Docs) /\ "idle" \in Steps /\ "publish" \in Passes /\ "none" \in Codes
    BY DEF Steps, Passes, Codes
  <2> QED BY <2>1, TimesAreNumbers DEF Init, RunType, Run, Idle
<1>5. run.step = "idle" /\ ~superseded
  BY DEF Init, Idle
<1>6. RunInPlace /\ RevisionTells /\ ClaimHolds
  BY <1>5 DEF RunInPlace, RevisionTells, ClaimHolds, InFlight, Locked
<1>7. SavedOnce /\ GoneUnplanned /\ PublishedCarriesNoPlan
  BY DEF Init, SavedOnce, GoneUnplanned, PublishedCarriesNoPlan, Unplanned
<1> QED BY <1>1, <1>2, <1>3, <1>4, <1>6, <1>7, TypeParts DEF Scheduled

\* Nothing of the other documents changes.
OthersKept(d) ==
  \A e \in Docs \ {d} :
    /\ e \in stored' <=> e \in stored
    /\ e \in published' <=> e \in published
    /\ draft'[e] = draft[e] /\ live'[e] = live[e] /\ revision'[e] = revision[e]

\* An author raises the document's revision or deletes it, and copies no plan
\* to the published row.
LEMMA AuthorEffect ==
  ASSUME TypeOK, PublishedCarriesNoPlan, NEW d \in Docs, Author(d)
  PROVE  /\ Edits(d) /\ OthersKept(d)
         /\ \/ d \in stored' /\ revision'[d] = revision[d] + 1
            \/ d \notin stored' /\ revision'[d] = 0 /\ draft'[d] = Unplanned
         /\ d \in published' => live'[d].publishAt = Never /\ live'[d].error = "none"
<1>0. ContentType
  BY TypeParts
<1>1. Edits(d)
  BY DEF Author, Save, PublishNow, Unpublish, Discard, Delete
<1>2. OthersKept(d)
  BY <1>0 DEF Author, Save, PublishNow, Unpublish, Discard, Delete, OthersKept, Advance, ContentType
<1>3. \/ d \in stored' /\ revision'[d] = revision[d] + 1
      \/ d \notin stored' /\ revision'[d] = 0 /\ draft'[d] = Unplanned
  BY <1>0, <1>1
     DEF Author, Save, PublishNow, Unpublish, Discard, Delete, Edits, Advance, ContentType
<1>4. d \in published' => live'[d].publishAt = Never /\ live'[d].error = "none"
  <2>1. CASE \E u \in Windows \cup {draft[d].unpublishAt} : PublishNow(d, u)
    <3> PICK u : PublishNow(d, u)
      BY <2>1
    <3>1. live'[d] = [Unplanned EXCEPT !.unpublishAt = u]
      BY <1>0 DEF PublishNow, ContentType
    <3> QED BY <3>1 DEF Unplanned
  <2>2. CASE \/ Discard(d) \/ Unpublish(d) \/ Delete(d)
             \/ \E p \in PublishTimes, u \in Windows : Save(d, p, u)
    BY <2>2 DEF Save, Discard, Unpublish, Delete, PublishedCarriesNoPlan
  <2> QED BY <2>1, <2>2 DEF Author
<1> QED BY <1>1, <1>2, <1>3, <1>4

\* Authors keep the invariant: who holds the lock is not disturbed, and whose
\* revision was read is superseded.
LEMMA AuthorKeeps ==
  ASSUME Scheduled, NEW d \in Docs, Author(d)
  PROVE  Scheduled'
<1>0. ContentType /\ OtherType /\ RunType /\ TypeOK'
  BY TypeParts, AuthorTyped DEF Scheduled
<1>1. /\ Edits(d) /\ OthersKept(d)
      /\ \/ d \in stored' /\ revision'[d] = revision[d] + 1
         \/ d \notin stored' /\ revision'[d] = 0 /\ draft'[d] = Unplanned
      /\ d \in published' => live'[d].publishAt = Never /\ live'[d].error = "none"
  BY AuthorEffect DEF Scheduled
<1>2. /\ run' = run /\ clock' = clock /\ kind' = kind /\ d \in stored /\ Free(d)
      /\ superseded' = (superseded \/ (run.step \in InFlight /\ d = Doc))
  BY <1>1 DEF Edits
<1>3. stored' \subseteq Docs /\ published' \subseteq Docs
  BY <1>0, TypeParts DEF TypeOK
<1>4. RunInPlace'
  BY <1>2 DEF Scheduled, RunInPlace
<1>5. SavedOnce'
  BY <1>0, <1>1, <1>3 DEF Scheduled, SavedOnce, OthersKept, ContentType
<1>6. GoneUnplanned'
  BY <1>1 DEF Scheduled, GoneUnplanned, OthersKept
<1>7. PublishedCarriesNoPlan'
  BY <1>1, <1>3 DEF Scheduled, PublishedCarriesNoPlan, OthersKept
<1>8. RevisionTells'
  <2> SUFFICES ASSUME run.step \in InFlight
               PROVE  IF ~superseded' THEN revision'[Doc] = run.r
                      ELSE /\ run.r > 0
                           /\ IF Doc \in stored' THEN run.r < revision'[Doc]
                              ELSE revision'[Doc] = 0
    BY <1>2 DEF RevisionTells, Doc
  <2>1. /\ IF ~superseded THEN revision[Doc] = run.r
           ELSE /\ run.r > 0
                /\ IF Doc \in stored THEN run.r < revision[Doc] ELSE revision[Doc] = 0
        /\ Doc \in Docs /\ run.r \in Nat /\ revision[Doc] \in Nat
    BY <1>0, DocType DEF Scheduled, RevisionTells, RunInPlace, RunType, Run, ContentType
  <2>2. CASE Doc = d
    <3>1. superseded'
      BY <1>2, <2>2, Zenon
    <3>2. revision[d] > 0 /\ d \in stored
      BY <1>2 DEF Scheduled, SavedOnce
    <3> HIDE DEF Doc
    <3>3. run.r <= revision[d]
      BY <2>1, <2>2, <3>2
    <3>4. run.r > 0
      BY <2>1, <2>2, <3>2
    <3> QED BY <1>1, <2>1, <2>2, <3>1, <3>3, <3>4
  <2>3. CASE Doc # d
    <3> HIDE DEF Doc
    <3> QED BY <1>1, <1>2, <2>1, <2>3 DEF OthersKept
  <2> QED BY <2>2, <2>3
<1>9. ClaimHolds'
  <2>1. CASE run.step \in {"claimed", "weighing", "weighed"}
    <3>1. Doc # d /\ Doc \in Docs
      BY <1>0, <1>2, <2>1, DocType DEF Free, Scheduled, RunInPlace, InFlight
    <3>2. /\ draft'[Doc] = draft[Doc]
          /\ Doc \in published' <=> Doc \in published
          /\ Doc \in stored' <=> Doc \in stored
      BY <1>1, <3>1 DEF OthersKept
    <3>3. superseded' = superseded
      BY <1>0, <1>2, <3>1 DEF OtherType
    <3> QED BY <1>2, <3>2, <3>3 DEF Scheduled, ClaimHolds, Locked, PublishFirst, Doc
  <2>2. CASE run.step \notin {"claimed", "weighing", "weighed"}
    BY <1>2, <2>2 DEF ClaimHolds, Locked
  <2> QED BY <2>1, <2>2
<1> QED BY <1>0, <1>4, <1>5, <1>6, <1>7, <1>8, <1>9 DEF Scheduled

\* A run that is between documents has nothing to hold.
LEMMA NothingInFlight ==
  ASSUME run'.step \notin InFlight, ~superseded'
  PROVE  RunInPlace' /\ RevisionTells' /\ ClaimHolds'
BY DEF RunInPlace, RevisionTells, ClaimHolds, Locked, InFlight

\* Selections, time and restarts keep the invariant.
LEMMA SelectionKeeps ==
  ASSUME Scheduled,
         StartRun \/ SelectRetries \/ SelectHealthy \/ SelectPublishes \/ EndPass \/ Take
           \/ RunFails \/ Restart \/ Tick
  PROVE  Scheduled'
<1>0. ContentType /\ OtherType /\ RunType /\ TypeOK'
  BY TypeParts, SelectionTyped DEF Scheduled
<1>1. /\ stored' = stored /\ published' = published /\ draft' = draft /\ live' = live
      /\ revision' = revision
  BY DEF StartRun, SelectRetries, SelectHealthy, SelectPublishes, EndPass, Take, RunFails,
         Restart, Tick, content
<1>2. SavedOnce' /\ GoneUnplanned' /\ PublishedCarriesNoPlan'
  BY <1>1 DEF Scheduled, SavedOnce, GoneUnplanned, PublishedCarriesNoPlan
<1>3. RunInPlace' /\ RevisionTells' /\ ClaimHolds'
  <2>1. CASE Tick
    <3>1. run' = run /\ superseded' = superseded /\ clock' = clock + 1 /\ kind' = kind
      BY <2>1 DEF Tick, history, Runs
    <3>2. RunInPlace' /\ RevisionTells'
      BY <1>1, <3>1 DEF Scheduled, RunInPlace, RevisionTells, Doc
    <3>3. run.at <= clock => run.at <= clock'
      <4>1. run.at \in Nat /\ clock \in Nat
        BY <1>0, TimesAreNumbers DEF OtherType, RunType, Run
      <4> QED BY <3>1, <4>1
    <3>4. ClaimHolds'
      BY <1>1, <3>1, <3>3 DEF Scheduled, ClaimHolds, Locked, PublishFirst, Doc
    <3> QED BY <3>2, <3>4
  <2>2. CASE Take
    <3>1. /\ run' = [run EXCEPT !.step = "taken", !.r = revision[Doc]]
          /\ superseded' = superseded /\ run.step = "next" /\ run.todo # <<>>
      BY <2>2 DEF Take, history
    <3>2. /\ run'.step = "taken" /\ run'.r = revision[Doc] /\ run'.todo = run.todo
          /\ run'.code = run.code
      BY <1>0, <3>1 DEF RunType, Run
    <3>3. ~superseded'
      BY <3>1 DEF Scheduled, RunInPlace, InFlight
    <3>4. RunInPlace'
      BY <3>1, <3>2, <3>3 DEF RunInPlace, InFlight
    <3>5. RevisionTells'
      BY <1>1, <3>2, <3>3 DEF RevisionTells, Doc
    <3>6. ClaimHolds'
      BY <3>2 DEF ClaimHolds, Locked
    <3> QED BY <3>4, <3>5, <3>6
  <2>3. CASE ~Tick /\ ~Take
    <3>1. run'.step \in {"idle", "retries", "healthy", "publishes", "next"}
      <4>1. CASE StartRun
        BY <4>1 DEF StartRun, Idle
      <4>2. CASE SelectRetries
        BY <1>0, <4>2 DEF SelectRetries, RunType, Run
      <4>3. CASE SelectHealthy
        BY <1>0, <4>3 DEF SelectHealthy, RunType, Run
      <4>4. CASE SelectPublishes
        BY <1>0, <4>4 DEF SelectPublishes, RunType, Run
      <4>5. CASE EndPass \/ RunFails \/ Restart
        BY <1>0, <4>5 DEF EndPass, RunFails, Restart, Idle, RunType, Run
      <4> QED BY <2>3, <4>1, <4>2, <4>3, <4>4, <4>5
    <3>2. ~superseded'
      <4>1. run.step \in InFlight => Restart
        BY <2>3 DEF StartRun, SelectRetries, SelectHealthy, SelectPublishes, EndPass, RunFails,
           InFlight
      <4>2. superseded' = FALSE \/ (superseded' = superseded /\ run.step \notin InFlight)
        BY <2>3, <4>1 DEF StartRun, SelectRetries, SelectHealthy, SelectPublishes, EndPass,
           RunFails, Restart, history
      <4> QED BY <4>2 DEF Scheduled, RunInPlace
    <3> QED BY <3>1, <3>2, NothingInFlight DEF InFlight
  <2> QED BY <2>1, <2>2, <2>3
<1> QED BY <1>0, <1>2, <1>3 DEF Scheduled

\* What the run found at Claim: the document exists, nobody changed it since
\* its revision was read, and its plan asks for this pass.
LEMMA ClaimJudged ==
  ASSUME Scheduled, run.step = "taken", ~Skips
  PROVE  /\ Doc \in stored /\ ~superseded /\ revision[Doc] = run.r
         /\ run.pass = "publish" => draft[Doc].publishAt <= clock
         /\ run.pass = "unpublish" => draft[Doc].unpublishAt <= clock /\ ~PublishFirst(Doc)
<1>0. /\ ContentType /\ clock \in Times /\ run.pass \in Passes
      /\ Doc \in Docs /\ draft[Doc] \in Plan /\ run.r \in Nat /\ revision[Doc] \in Nat
  BY TypeParts, DocType
     DEF Scheduled, OtherType, ContentType, RunType, Run, RunInPlace, InFlight
<1>1. revision[Doc] = run.r /\ ~superseded
  BY <1>0 DEF Skips, Moved, Scheduled, RevisionTells, InFlight
<1>2. /\ run.pass = "publish" => draft[Doc].publishAt <= clock
      /\ run.pass = "unpublish" => draft[Doc].unpublishAt <= clock /\ ~PublishFirst(Doc)
  <2>1. draft[Doc].publishAt \in Nat /\ draft[Doc].unpublishAt \in Nat /\ clock \in Nat
    BY <1>0, TimesAreNumbers DEF Plan
  <2> QED BY <2>1 DEF Skips
<1>3. Doc \in stored
  <2>1. ASSUME Doc \notin stored PROVE FALSE
    <3>1. draft[Doc].publishAt = Never /\ draft[Doc].unpublishAt = Never
      BY <1>0, <2>1 DEF Scheduled, GoneUnplanned, Unplanned
    <3> QED BY <1>0, <1>2, <3>1, TimesAreNumbers DEF Passes, Never, Times
  <2> QED BY <2>1
<1> QED BY <1>1, <1>2, <1>3

\* What a step of the scheduler writes is the document at hand.
LEMMA DocumentEffect ==
  ASSUME Scheduled, DocumentStep
  PROVE  /\ Doc \in Docs /\ OthersKept(Doc) /\ stored' = stored
         /\ revision'[Doc] \in {revision[Doc], revision[Doc] + 1}
         /\ Doc \notin stored => draft'[Doc] = draft[Doc]
         /\ Doc \in published' => live'[Doc].publishAt = Never /\ live'[Doc].error = "none"
<1>0. ContentType /\ RunType /\ OtherType
  BY TypeParts DEF Scheduled
<1>1. run.step \in InFlight /\ Doc \in Docs
  BY <1>0, DocumentStepWorks, DocType DEF Scheduled, RunInPlace
<1>2. draft[Doc] \in Plan
  BY <1>0, <1>1 DEF ContentType
<1>a. CASE UNCHANGED content
  BY <1>1, <1>a DEF content, OthersKept, Scheduled, PublishedCarriesNoPlan
<1>b. CASE Expire
  <2>1. Doc \in stored
    BY <1>b, ClaimJudged DEF Expire
  <2> HIDE DEF Doc
  <2> QED BY <1>0, <1>1, <1>b, <2>1
          DEF Expire, Advance, ContentType, OthersKept, Scheduled, PublishedCarriesNoPlan
<1>c. CASE CommitWithdrawal
  <2>1. Doc \in stored
    BY <1>c DEF CommitWithdrawal, Scheduled, ClaimHolds
  <2> HIDE DEF Doc
  <2> QED BY <1>0, <1>1, <1>c, <2>1 DEF CommitWithdrawal, Advance, ContentType, OthersKept
<1>d. CASE CommitPublish
  <2>1. Doc \in stored
    BY <1>d DEF CommitPublish, Scheduled, ClaimHolds
  <2>2. live'[Doc] = [draft[Doc] EXCEPT !.publishAt = Never, !.error = "none"]
    BY <1>0, <1>1, <1>d DEF CommitPublish, ContentType
  <2>3. live'[Doc].publishAt = Never /\ live'[Doc].error = "none"
    BY <1>2, <2>2 DEF Plan
  <2> HIDE DEF Doc
  <2> QED BY <1>0, <1>1, <1>d, <2>1, <2>3 DEF CommitPublish, Advance, ContentType, OthersKept
<1>e. CASE Record
  <2>1. /\ stored' = stored /\ published' = published /\ live' = live
        /\ draft' \in {draft, [draft EXCEPT ![Doc] = Marked]}
        /\ revision' \in {revision, [revision EXCEPT ![Doc] = revision[Doc] + 1]}
        /\ Doc \notin stored => draft' = draft
    BY <1>e DEF Record, Advance
  <2> HIDE DEF Doc
  <2> QED BY <1>0, <1>1, <2>1
          DEF ContentType, OthersKept, Scheduled, PublishedCarriesNoPlan
<1>f. Record \/ UNCHANGED content \/ Expire \/ CommitWithdrawal \/ CommitPublish
  BY DEF DocumentStep, Skip, Claim, Refused, Rejected, Transient, RecordSuperseded, RecordFailure,
         RecordReadsBlockers, RecordReadsPublished, RecordReadsDue, RecordFails, Stale
<1> QED BY <1>a, <1>b, <1>c, <1>d, <1>e, <1>f

\* A step on a document keeps the invariant.
LEMMA DocumentKeeps ==
  ASSUME Scheduled, DocumentStep
  PROVE  Scheduled'
<1>0. ContentType /\ OtherType /\ RunType /\ TypeOK'
  BY TypeParts, DocumentTyped DEF Scheduled
<1>1. /\ Doc \in Docs /\ OthersKept(Doc) /\ stored' = stored
      /\ revision'[Doc] \in {revision[Doc], revision[Doc] + 1}
      /\ Doc \notin stored => draft'[Doc] = draft[Doc]
      /\ Doc \in published' => live'[Doc].publishAt = Never /\ live'[Doc].error = "none"
  BY DocumentEffect
<1>2. SavedOnce' /\ GoneUnplanned' /\ PublishedCarriesNoPlan'
  <2>1. published' \subseteq Docs
    BY <1>0, TypeParts DEF TypeOK
  <2> DEFINE d == Doc
  <2>2. \A e \in stored : revision[e] > 0 /\ e \in Docs /\ revision[e] \in Nat
    BY <1>0 DEF Scheduled, SavedOnce, ContentType
  <2>3. \A e \in Docs \ stored : draft[e] = Unplanned
    BY DEF Scheduled, GoneUnplanned
  <2>4. \A e \in published : live[e].publishAt = Never /\ live[e].error = "none"
    BY DEF Scheduled, PublishedCarriesNoPlan
  <2> HIDE DEF d
  <2>5. /\ OthersKept(d) /\ stored' = stored
        /\ revision'[d] \in {revision[d], revision[d] + 1}
        /\ d \notin stored => draft'[d] = draft[d]
        /\ d \in published' => live'[d].publishAt = Never /\ live'[d].error = "none"
    BY <1>1 DEF d
  <2>6. SavedOnce'
    BY <2>2, <2>5 DEF SavedOnce, OthersKept
  <2>7. GoneUnplanned'
    BY <2>3, <2>5 DEF GoneUnplanned, OthersKept
  <2>8. PublishedCarriesNoPlan'
    BY <2>1, <2>4, <2>5 DEF PublishedCarriesNoPlan, OthersKept
  <2> QED BY <2>6, <2>7, <2>8
<1>3. RunInPlace' /\ RevisionTells' /\ ClaimHolds'
  <2>0. run.step \in InFlight /\ run.todo # <<>>
    BY <1>0, DocumentStepWorks DEF Scheduled, RunInPlace
  <2>a. CASE NextDocument
    <3>1. run'.step = "next" /\ ~superseded'
      BY <1>0, <2>0, <2>a, NextDocumentTyped
    <3> QED BY <3>1, NothingInFlight DEF InFlight
  <2>b. CASE ~NextDocument
    <3>1. /\ stored' = stored /\ published' = published /\ draft' = draft /\ revision' = revision
          /\ kind' = kind /\ superseded' = superseded /\ clock' = clock
      BY <2>b DEF DocumentStep, Skip, Expire, Claim, CommitWithdrawal, CommitPublish, Refused,
         Rejected, Transient, RecordSuperseded, RecordFailure, RecordReadsBlockers,
         RecordReadsPublished, RecordReadsDue, RecordFails, Record, Stale, Fails, content, history,
         Runs, Fault
    <3>2. CASE Claim
      <4>1. run.step = "taken" /\ ~Skips /\ ~Expires /\ run' = [run EXCEPT !.step = "claimed", !.at = clock]
        BY <3>2 DEF Claim
      <4>2. /\ run'.step = "claimed" /\ run'.at = clock /\ run'.todo = run.todo /\ run'.r = run.r
            /\ run'.pass = run.pass
        BY <1>0, <4>1 DEF RunType, Run
      <4>3. /\ Doc \in stored /\ ~superseded /\ revision[Doc] = run.r
            /\ run.pass = "publish" => draft[Doc].publishAt <= clock
            /\ run.pass = "unpublish" => draft[Doc].unpublishAt <= clock /\ ~PublishFirst(Doc)
        BY <4>1, ClaimJudged
      <4>4. run.pass = "publish" => clock < draft[Doc].unpublishAt
        <5>1. clock \in Nat /\ draft[Doc].unpublishAt \in Nat
          BY <1>0, <1>1, TimesAreNumbers DEF OtherType, ContentType, Plan
        <5> QED BY <4>1, <5>1 DEF Expires, WindowExpired
      <4>5. clock <= clock'
        BY <1>0, <3>1, TimesAreNumbers DEF OtherType
      <4>6. RunInPlace'
        BY <2>0, <3>1, <4>2, <4>3 DEF RunInPlace, InFlight
      <4>7. RevisionTells'
        BY <3>1, <4>2, <4>3 DEF RevisionTells, Doc
      <4>8. ClaimHolds'
        BY <3>1, <4>2, <4>3, <4>4, <4>5 DEF ClaimHolds, Locked, PublishFirst, Doc
      <4> QED BY <4>6, <4>7, <4>8
    <3>3. CASE \E code \in {"notPublishable", "rejected", "retryExhausted"} :
                 Fails(code) /\ (code = "notPublishable" => run.pass = "publish")
      <4>1. /\ run'.step = "failed" /\ run'.code # "none" /\ run'.todo = run.todo /\ run'.r = run.r
            /\ run'.code = "notPublishable" => run'.pass = "publish"
        BY <1>0, <3>3 DEF Fails, RunType, Run
      <4>2. RunInPlace'
        BY <2>0, <4>1 DEF RunInPlace, InFlight
      <4>3. RevisionTells'
        BY <2>0, <3>1, <4>1 DEF Scheduled, RevisionTells, Doc
      <4>4. ClaimHolds'
        BY <4>1 DEF ClaimHolds, Locked
      <4> QED BY <4>2, <4>3, <4>4
    <3>4. CASE RecordReadsBlockers
      <4>1. /\ run.step = "failed" /\ ~Moved /\ run.code = "notPublishable"
            /\ run' = [run EXCEPT !.step = "weighing", !.at = clock]
        BY <2>b, <3>4 DEF RecordReadsBlockers, Stale
      <4>2. /\ run'.step = "weighing" /\ run'.at = clock /\ run'.todo = run.todo
            /\ run'.r = run.r /\ run'.pass = run.pass /\ run'.code = run.code
        BY <1>0, <4>1 DEF RunType, Run
      <4>3. run.pass = "publish" /\ revision[Doc] = run.r /\ ~superseded
        BY <1>0, <1>1, <2>0, <4>1
           DEF Scheduled, RunInPlace, RevisionTells, Moved, RunType, Run, ContentType
      <4>4. clock <= clock'
        BY <1>0, <3>1, TimesAreNumbers DEF OtherType
      <4>5. RunInPlace'
        BY <2>0, <3>1, <4>1, <4>2, <4>3 DEF RunInPlace, InFlight
      <4>6. RevisionTells'
        BY <3>1, <4>2, <4>3 DEF RevisionTells, Doc
      <4>7. ClaimHolds'
        BY <3>1, <4>2, <4>3, <4>4 DEF ClaimHolds, Locked
      <4> QED BY <4>5, <4>6, <4>7
    <3>5. CASE RecordReadsPublished
      <4>1. run.step = "weighing" /\ run' = [run EXCEPT !.step = "weighed"]
        BY <2>b, <3>5 DEF RecordReadsPublished, Stale, Record
      <4>2. /\ run'.step = "weighed" /\ run'.at = run.at /\ run'.todo = run.todo
            /\ run'.r = run.r /\ run'.pass = run.pass /\ run'.code = run.code
        BY <1>0, <4>1 DEF RunType, Run
      <4>3. RunInPlace' /\ RevisionTells' /\ ClaimHolds'
        BY <2>0, <3>1, <4>1, <4>2
           DEF Scheduled, RunInPlace, RevisionTells, ClaimHolds, Locked, Doc, InFlight
      <4> QED BY <4>3
    <3>6. \/ Claim \/ RecordReadsBlockers \/ RecordReadsPublished
          \/ \E code \in {"notPublishable", "rejected", "retryExhausted"} :
                Fails(code) /\ (code = "notPublishable" => run.pass = "publish")
      BY <2>b DEF DocumentStep, Skip, Expire, CommitWithdrawal, CommitPublish, Refused,
         Rejected, Transient, RecordSuperseded, RecordFailure, RecordReadsDue, RecordFails,
         Record, Stale
    <3> QED BY <3>2, <3>3, <3>4, <3>5, <3>6
  <2> QED BY <2>a, <2>b
<1> QED BY <1>0, <1>2, <1>3 DEF Scheduled

\* Every step is one of these.
LEMMA StepCases ==
  Next => \/ StartRun \/ SelectRetries \/ SelectHealthy \/ SelectPublishes \/ EndPass \/ Take
             \/ RunFails \/ Restart \/ Tick
          \/ DocumentStep
          \/ \E d \in Docs : Author(d)
BY DEF Next, Works, Breaks, DocumentStep

\* The invariant holds in every state: no step of authors, of a run, of time
\* or of a failure breaks it.
THEOREM ScheduleHolds == Spec => []Scheduled
<1>1. Scheduled /\ [Next]_vars => Scheduled'
  <2> SUFFICES ASSUME Scheduled, [Next]_vars PROVE Scheduled'
    OBVIOUS
  <2>1. CASE Next
    BY <2>1, StepCases, SelectionKeeps, DocumentKeeps, AuthorKeeps
  <2>2. CASE UNCHANGED vars
    BY <2>2 DEF vars, content, memory, history, Scheduled, TypeOK, RunInPlace, SavedOnce,
       GoneUnplanned, RevisionTells, ClaimHolds, Locked, PublishFirst, PublishedCarriesNoPlan, Doc
  <2> QED BY <2>1, <2>2
<1> QED BY <1>1, InitScheduled, PTL DEF Spec

\* Every state is typed.
THEOREM ScheduleTyped == Spec => []TypeOK
<1>1. Scheduled => TypeOK
  BY DEF Scheduled
<1> QED BY <1>1, ScheduleHolds, PTL

\* No published row carries a pending publish or a marker: a discard brings
\* no old plan back.
THEOREM NoPlanPublished == Spec => []PublishedCarriesNoPlan
<1>1. Scheduled => PublishedCarriesNoPlan
  BY DEF Scheduled
<1> QED BY <1>1, ScheduleHolds, PTL

-----------------------------------------------------------------------------
(* What a step of the scheduler may write.                                  *)

\* Only four steps of the scheduler write a document; each holds its lock at
\* the revision the run read.
LEMMA SchedulerWrites ==
  ASSUME Scheduled, [Next]_vars, ByScheduler
  PROVE  \/ UNCHANGED content
         \/ /\ Expire \/ CommitWithdrawal \/ CommitPublish \/ (Record /\ run.code # "none")
            /\ Doc \in Docs /\ OthersKept(Doc) /\ ~superseded
<1>0. ContentType /\ OtherType /\ RunType
  BY TypeParts DEF Scheduled
<1>1. CASE UNCHANGED vars
  BY <1>1 DEF vars, content
<1>2. CASE StartRun \/ SelectRetries \/ SelectHealthy \/ SelectPublishes \/ EndPass \/ Take
             \/ RunFails \/ Restart \/ Tick
  BY <1>2 DEF StartRun, SelectRetries, SelectHealthy, SelectPublishes, EndPass, Take, RunFails,
     Restart, Tick
<1>3. CASE \E d \in Docs : Author(d)
  <2>1. edits' = edits + 1
    BY <1>3 DEF Author, Save, PublishNow, Unpublish, Discard, Delete, Edits
  <2> QED BY <1>0, <2>1 DEF ByScheduler, OtherType
<1>4. CASE DocumentStep
  <2>1. Doc \in Docs /\ OthersKept(Doc)
    BY <1>4, DocumentEffect
  <2>2. \/ UNCHANGED content
        \/ Expire \/ CommitWithdrawal \/ CommitPublish
        \/ Record /\ ((run.step = "failed" /\ ~Moved) \/ run.step \in {"weighing", "weighed"})
    BY <1>4
       DEF DocumentStep, Skip, Claim, Refused, Rejected, Transient, RecordSuperseded,
           RecordFailure, RecordReadsBlockers, RecordReadsPublished, RecordReadsDue, RecordFails,
           Stale
  <2>3. CASE Expire
    BY <2>1, <2>3, ClaimJudged DEF Expire
  <2>4. CASE CommitWithdrawal \/ CommitPublish
    BY <2>1, <2>4 DEF CommitWithdrawal, CommitPublish, Scheduled, ClaimHolds, Locked
  <2>5. CASE Record /\ run.step = "failed" /\ ~Moved
    <3>1. run.r \in Nat /\ revision[Doc] \in Nat
      BY <1>0, <2>1 DEF RunType, Run, ContentType
    <3>2. ~superseded
      BY <2>5, <3>1 DEF Scheduled, RevisionTells, Moved, InFlight
    <3> QED BY <2>1, <2>5, <3>2 DEF Scheduled, RunInPlace
  <2>6. CASE Record /\ run.step \in {"weighing", "weighed"}
    BY <2>1, <2>6 DEF Scheduled, ClaimHolds, Locked, RunInPlace
  <2> QED BY <2>2, <2>3, <2>4, <2>5, <2>6
<1> QED BY <1>1, <1>2, <1>3, <1>4, StepCases

\* Nothing a run writes, a failure's record included, goes over what an
\* author saved since the run read the document's revision.
THEOREM NewerPlanKept == Spec => NewerPlanStands
<1>1. Scheduled /\ [Next]_vars =>
        [\A d \in Docs : ByScheduler /\ (draft'[d] # draft[d] \/ live'[d] # live[d]) =>
           ~superseded]_vars
  BY SchedulerWrites DEF content
<1> QED BY <1>1, ScheduleHolds, PTL DEF Spec, NewerPlanStands

\* A scheduled publish follows the plan stored in its moment.
LEMMA PublishFollows ==
  ASSUME Scheduled, CommitPublish
  PROVE  /\ draft[Doc].publishAt <= clock /\ run.at < draft[Doc].unpublishAt
         /\ draft'[Doc] = [draft[Doc] EXCEPT !.publishAt = Never, !.error = "none"]
         /\ live'[Doc] = draft'[Doc] /\ ~Blocked(Doc) /\ Doc \in published'
<1>0. ContentType /\ RunType /\ OtherType
  BY TypeParts DEF Scheduled
<1>1. Doc \in Docs
  BY <1>0, DocType DEF CommitPublish, Scheduled, RunInPlace, InFlight
<1>2. draft[Doc].publishAt \in Nat /\ run.at \in Nat /\ clock \in Nat
  BY <1>0, <1>1, TimesAreNumbers DEF ContentType, Plan, RunType, Run, OtherType
<1>3. /\ draft[Doc].publishAt <= run.at /\ run.at < draft[Doc].unpublishAt
      /\ run.at <= clock /\ ~Blocked(Doc) /\ Doc \in published'
  BY DEF CommitPublish, Scheduled, ClaimHolds, Locked
<1>4. /\ draft'[Doc] = [draft[Doc] EXCEPT !.publishAt = Never, !.error = "none"]
      /\ live'[Doc] = draft'[Doc]
  BY <1>0, <1>1 DEF CommitPublish, ContentType
<1> HIDE DEF Doc
<1> QED BY <1>2, <1>3, <1>4

\* A scheduled withdrawal is due, and takes a pending publish along only from
\* a published document.
LEMMA WithdrawalFollows ==
  ASSUME Scheduled, CommitWithdrawal
  PROVE  /\ draft[Doc].unpublishAt <= clock /\ Doc \notin published'
         /\ draft[Doc].publishAt # Never => Doc \in published
         /\ draft'[Doc] = Unplanned
<1>0. ContentType /\ RunType /\ OtherType
  BY TypeParts DEF Scheduled
<1>1. Doc \in Docs
  BY <1>0, DocType DEF CommitWithdrawal, Scheduled, RunInPlace, InFlight
<1>2. draft[Doc].unpublishAt \in Nat /\ run.at \in Nat /\ clock \in Nat
  BY <1>0, <1>1, TimesAreNumbers DEF ContentType, Plan, RunType, Run, OtherType
<1>3. draft[Doc].unpublishAt <= run.at /\ run.at <= clock /\ ~PublishFirst(Doc)
  BY DEF CommitWithdrawal, Scheduled, ClaimHolds, Locked
<1>4. Doc \notin published' /\ draft'[Doc] = Unplanned
  BY <1>0, <1>1 DEF CommitWithdrawal, ContentType
<1> HIDE DEF Doc
<1> QED BY <1>2, <1>3, <1>4 DEF PublishFirst

\* A window that ended is closed in the open, and a due withdrawal of a
\* published document is left to its pass.
LEMMA ExpiryFollows ==
  ASSUME Scheduled, Expire
  PROVE  /\ draft'[Doc].error = "windowExpired" /\ published' = published
         /\ ~Withdraws => draft'[Doc].unpublishAt = draft[Doc].unpublishAt
         /\ Withdraws => Doc \notin published /\ draft[Doc].unpublishAt <= clock
<1>0. ContentType /\ RunType
  BY TypeParts DEF Scheduled
<1>1. Doc \in Docs
  BY <1>0, DocType DEF Expire, Scheduled, RunInPlace, InFlight
<1>2. run.pass = "publish" /\ draft[Doc].unpublishAt <= clock /\ ~Skips
  BY DEF Expire, Expires, WindowExpired
<1>3. Withdraws => Doc \notin published
  BY <1>2 DEF Skips
<1>4. /\ draft'[Doc].error = "windowExpired" /\ published' = published
      /\ ~Withdraws => draft'[Doc].unpublishAt = draft[Doc].unpublishAt
  BY <1>0, <1>1 DEF Expire, ContentType
<1> QED BY <1>2, <1>3, <1>4

\* A record marks a document that exists and leaves its end alone.
LEMMA RecordFollows ==
  ASSUME Scheduled, Record, run.code # "none", Doc \in Docs
  PROVE  /\ published' = published
         /\ \/ draft' = draft /\ Doc \notin stored
            \/ draft' = draft /\ revision' = revision
            \/ draft'[Doc].error # "none" /\ draft'[Doc].unpublishAt = draft[Doc].unpublishAt
<1>0. ContentType
  BY TypeParts DEF Scheduled
<1>1. draft[Doc] \in Plan
  BY <1>0 DEF ContentType
<1>2. Marked.error = run.code /\ Marked.unpublishAt = draft[Doc].unpublishAt
  BY <1>1 DEF Marked, Plan
<1>3. /\ published' = published
      /\ \/ draft' = draft /\ Doc \notin stored
         \/ draft' = draft /\ revision' = revision
         \/ draft' = [draft EXCEPT ![Doc] = Marked]
  BY DEF Record
<1> HIDE DEF Doc
<1> QED BY <1>0, <1>2, <1>3 DEF ContentType

\* What the run publishes is due by the stored plan, inside its window, and
\* goes out as it is stored.
THEOREM PlanIsFollowed == Spec => PlanFollowed
<1>1. ASSUME Scheduled, [Next]_vars, NEW d \in Docs, PublishesNow(d)
      PROVE  /\ draft[d].publishAt <= clock
             /\ run.at < draft[d].unpublishAt
             /\ live'[d] = [draft[d] EXCEPT !.publishAt = Never, !.error = "none"]
             /\ ~Blocked(d)
  <2>1. /\ Expire \/ CommitWithdrawal \/ CommitPublish \/ (Record /\ run.code # "none")
        /\ Doc \in Docs /\ OthersKept(Doc)
    BY <1>1, SchedulerWrites DEF PublishesNow, content
  <2>2. d = Doc
    BY <1>1, <2>1 DEF OthersKept, PublishesNow
  <2>3. CASE CommitPublish
    BY <1>1, <2>2, <2>3, PublishFollows
  <2>4. CASE CommitWithdrawal
    BY <1>1, <2>2, <2>4, WithdrawalFollows DEF PublishesNow
  <2>5. CASE Expire
    BY <1>1, <2>2, <2>5, ExpiryFollows DEF PublishesNow
  <2>6. CASE Record /\ run.code # "none"
    <3>1. published \subseteq stored
      BY <1>1 DEF Scheduled, TypeOK
    <3> QED BY <1>1, <2>1, <2>2, <2>6, <3>1, RecordFollows DEF PublishesNow
  <2> QED BY <2>1, <2>3, <2>4, <2>5, <2>6
<1>2. Scheduled /\ [Next]_vars =>
        [\A d \in Docs : PublishesNow(d) =>
           /\ draft[d].publishAt <= clock
           /\ run.at < draft[d].unpublishAt
           /\ live'[d] = [draft[d] EXCEPT !.publishAt = Never, !.error = "none"]
           /\ ~Blocked(d)]_vars
  BY <1>1
<1> QED BY <1>2, ScheduleHolds, PTL DEF Spec, PlanFollowed

\* The scheduler drops a deadline only with the published row.
THEOREM WithdrawalIsKept == Spec => WithdrawalKept
<1>1. ASSUME Scheduled, [Next]_vars, NEW d \in Docs, ByScheduler, Withdraws,
             draft'[d].unpublishAt # draft[d].unpublishAt
      PROVE  d \notin published' /\ draft[d].unpublishAt <= clock
  <2>1. /\ Expire \/ CommitWithdrawal \/ CommitPublish \/ (Record /\ run.code # "none")
        /\ Doc \in Docs /\ OthersKept(Doc)
    BY <1>1, SchedulerWrites DEF content
  <2>2. d = Doc
    BY <1>1, <2>1 DEF OthersKept
  <2>3. CASE CommitPublish
    <3>1. draft[Doc] \in Plan
      BY <1>1, <2>1 DEF Scheduled, TypeOK
    <3>2. draft'[Doc].unpublishAt = draft[Doc].unpublishAt
      BY <1>1, <2>3, <3>1, PublishFollows DEF Plan
    <3> QED BY <1>1, <2>2, <3>2
  <2>4. CASE CommitWithdrawal
    BY <1>1, <2>2, <2>4, WithdrawalFollows
  <2>5. CASE Expire
    BY <1>1, <2>2, <2>5, ExpiryFollows
  <2>6. CASE Record /\ run.code # "none"
    BY <1>1, <2>1, <2>2, <2>6, RecordFollows
  <2> QED BY <2>1, <2>3, <2>4, <2>5, <2>6
<1>2. Scheduled /\ [Next]_vars =>
        [\A d \in Docs :
           ByScheduler /\ Withdraws /\ draft'[d].unpublishAt # draft[d].unpublishAt =>
             d \notin published' /\ draft[d].unpublishAt <= clock]_vars
  BY <1>1
<1> QED BY <1>2, ScheduleHolds, PTL DEF Spec, WithdrawalKept

\* A planned publish never goes without a published row, a marker or the
\* withdrawal that took it along.
THEOREM NoDropIsSilent == Spec => NoSilentDrop
<1>1. ASSUME Scheduled, [Next]_vars, NEW d \in Docs, ByScheduler,
             draft'[d].publishAt # draft[d].publishAt
      PROVE  \/ d \in published' /\ live'[d] = draft'[d]
             \/ draft'[d].error # "none"
             \/ d \in published /\ draft[d].unpublishAt <= clock
  <2>1. /\ Expire \/ CommitWithdrawal \/ CommitPublish \/ (Record /\ run.code # "none")
        /\ Doc \in Docs /\ OthersKept(Doc)
    BY <1>1, SchedulerWrites DEF content
  <2>2. d = Doc
    BY <1>1, <2>1 DEF OthersKept
  <2>3. CASE CommitPublish
    BY <1>1, <2>2, <2>3, PublishFollows
  <2>4. CASE CommitWithdrawal
    BY <1>1, <2>2, <2>4, WithdrawalFollows DEF Unplanned
  <2>5. CASE Expire
    BY <1>1, <2>2, <2>5, ExpiryFollows
  <2>6. CASE Record /\ run.code # "none"
    BY <1>1, <2>1, <2>2, <2>6, RecordFollows
  <2> QED BY <2>1, <2>3, <2>4, <2>5, <2>6
<1>2. Scheduled /\ [Next]_vars =>
        [\A d \in Docs : ByScheduler /\ draft'[d].publishAt # draft[d].publishAt =>
           \/ d \in published' /\ live'[d] = draft'[d]
           \/ draft'[d].error # "none"
           \/ d \in published /\ draft[d].unpublishAt <= clock]_vars
  BY <1>1
<1> QED BY <1>2, ScheduleHolds, PTL DEF Spec, NoSilentDrop

-----------------------------------------------------------------------------
(* The scheduler keeps the timetable.                                       *)

\* Only documents to withdraw have a pass that withdraws.
PassesMatch == run.pass = "unpublish" => Withdraws

Timed == Scheduled /\ PassesMatch

\* A run changes its pass only when it starts one.
LEMMA PassStays ==
  ASSUME RunType, [Next]_vars
  PROVE  /\ kind' = kind
         /\ \/ run'.pass \in {run.pass, "publish"}
            \/ run'.pass = "unpublish" /\ Withdraws
<1>1. kind' = kind
  BY DEF Next, Works, Breaks, StartRun, SelectRetries, SelectHealthy, SelectPublishes, EndPass,
     Take, Skip, Expire, Claim, CommitWithdrawal, CommitPublish, Refused, Rejected, Transient,
     RecordSuperseded, RecordFailure, RecordReadsBlockers, RecordReadsPublished, RecordReadsDue,
     RecordFails, RunFails, Restart, Tick, Runs, Fault, Author, Save, PublishNow, Unpublish,
     Discard, Delete, Edits, vars
<1>2. CASE StartRun
  BY <1>1, <1>2 DEF StartRun, Idle
<1>3. CASE SelectRetries \/ SelectHealthy \/ SelectPublishes
  <2>1. \/ \E q : run' = [run EXCEPT !.step = "healthy", !.todo = q]
        \/ \E q : run' = [run EXCEPT !.step = "next", !.todo = q]
        \/ \E q : run' = [run EXCEPT !.step = "next", !.pass = "publish", !.todo = q]
    BY <1>3 DEF SelectRetries, SelectHealthy, SelectPublishes
  <2>2. run \in Run
    BY DEF RunType
  <2>3. \A q : /\ [run EXCEPT !.step = "healthy", !.todo = q].pass = run.pass
               /\ [run EXCEPT !.step = "next", !.todo = q].pass = run.pass
               /\ [run EXCEPT !.step = "next", !.pass = "publish", !.todo = q].pass = "publish"
    BY <2>2 DEF Run
  <2> QED BY <1>1, <2>1, <2>3, Zenon
<1>4. CASE EndPass \/ Take \/ RunFails \/ Restart \/ Tick
  <2>1. \/ run' = [run EXCEPT !.step = "publishes"] \/ run' = Idle
        \/ run' = [run EXCEPT !.step = "taken", !.r = revision[Doc]] \/ run' = run
    BY <1>4 DEF EndPass, Take, RunFails, Restart, Tick
  <2>2. /\ [run EXCEPT !.step = "publishes"].pass = run.pass /\ Idle.pass = "publish"
        /\ [run EXCEPT !.step = "taken", !.r = revision[Doc]].pass = run.pass
    BY DEF RunType, Run, Idle
  <2> QED BY <1>1, <2>1, <2>2, Zenon
<1>5. CASE DocumentStep
  <2>1. \/ NextDocument
        \/ \E code \in {"notPublishable", "rejected", "retryExhausted"} : Fails(code)
        \/ run' = [run EXCEPT !.step = "claimed", !.at = clock]
        \/ run' = [run EXCEPT !.step = "weighing", !.at = clock]
        \/ run' = [run EXCEPT !.step = "weighed"]
    BY <1>5 DEF DocumentStep, Skip, Expire, Claim, CommitWithdrawal, CommitPublish, Refused,
       Rejected, Transient, RecordSuperseded, RecordFailure, RecordReadsBlockers,
       RecordReadsPublished, RecordReadsDue, RecordFails, Record, Stale
  <2> QED BY <1>1, <2>1 DEF NextDocument, Fails, RunType, Run
<1>6. CASE (\E d \in Docs : Author(d)) \/ UNCHANGED vars
  BY <1>1, <1>6 DEF Author, Save, PublishNow, Unpublish, Discard, Delete, Edits, vars
<1> QED BY <1>1, <1>2, <1>3, <1>4, <1>5, <1>6, StepCases

\* The invariant, and that passes match, in every state.
LEMMA TimedHolds == Spec => []Timed
<1>1. Init => PassesMatch
  BY DEF Init, Idle, PassesMatch
<1>2. Scheduled /\ PassesMatch /\ [Next]_vars => PassesMatch'
  BY TypeParts, PassStays DEF Scheduled, PassesMatch, Withdraws
<1>3. Spec => []Scheduled
  BY ScheduleHolds
<1> QED BY <1>1, <1>2, <1>3, PTL DEF Spec, Timed

\* The copies of the other documents stay as they are.
LEMMA OneWritten ==
  ASSUME ContentType, ContentType', NEW d \in Docs, OthersKept(d)
  PROVE  /\ draft' = [draft EXCEPT ![d] = draft'[d]]
         /\ Copies' = [Copies EXCEPT ![d] = Copies'[d]]
         /\ d \in published' => published' = published \cup {d}
         /\ d \notin published' => published' = published \ {d}
<1>1. draft' = [draft EXCEPT ![d] = draft'[d]]
  BY DEF ContentType, OthersKept
<1>2. Copies' = [Copies EXCEPT ![d] = Copies'[d]]
  BY DEF OthersKept, Copies
<1>3. published \subseteq Docs /\ published' \subseteq Docs
  BY DEF ContentType
<1>4. /\ d \in published' => published' = published \cup {d}
      /\ d \notin published' => published' = published \ {d}
  BY <1>3 DEF OthersKept
<1> QED BY <1>1, <1>2, <1>4

\* A document that is out shows its live row, another nothing.
LEMMA CopyOf ==
  ASSUME NEW d \in Docs
  PROVE  /\ d \in published' => Copies'[d] = live'[d]
         /\ d \notin published' => Copies'[d] = Unplanned
         /\ (d \in published' <=> d \in published) /\ live'[d] = live[d] => Copies'[d] = Copies[d]
BY DEF Copies

\* Rows whose document keeps both its sides are kept.
LEMMA CopiesKept ==
  ASSUME ContentType, ContentType', NEW d \in Docs, OthersKept(d),
         d \in published' <=> d \in published, live'[d] = live[d]
  PROVE  published' = published /\ Copies' = Copies
<1>1. published' = published
  BY DEF ContentType, OthersKept
<1>2. \A e \in Docs : live'[e] = live[e]
  BY DEF OthersKept
<1> QED BY <1>1, <1>2 DEF Copies

\* What an author does is a change.
LEMMA AuthorChanges ==
  ASSUME Timed, ContentType', NEW d \in Docs, Author(d)
  PROVE  Kept!Change(d)
<1>0. ContentType
  BY TypeParts DEF Timed, Scheduled
<1>1. Edits(d) /\ OthersKept(d)
  BY AuthorEffect DEF Timed, Scheduled
<1>2. Kept!Put(d, draft'[d]) /\ edits' = edits + 1 /\ Withdraws' = Withdraws /\ clock' = clock
  BY <1>0, <1>1, OneWritten DEF Kept!Put, Edits, Withdraws
<1>3. \/ draft'[d].error = "none" /\ Kept!Keep
      \/ draft'[d].publishAt = Never /\ draft'[d].error = "none" /\ Kept!PutOut(d)
      \/ draft'[d].publishAt = Never /\ Kept!TakeIn(d)
  <2>1. CASE \E p \in PublishTimes, u \in Windows : Save(d, p, u)
    <3>1. draft'[d].error = "none" /\ published' = published /\ live' = live
      BY <1>0, <2>1 DEF Save, ContentType
    <3> QED BY <3>1 DEF Kept!Keep, Copies
  <2>2. CASE \E u \in Windows \cup {draft[d].unpublishAt} : PublishNow(d, u)
    <3> PICK u : PublishNow(d, u)
      BY <2>2
    <3>1. /\ draft'[d] = [Unplanned EXCEPT !.unpublishAt = u]
          /\ live'[d] = draft'[d] /\ d \in published'
      BY <1>0 DEF PublishNow, ContentType
    <3>2. draft'[d].publishAt = Never /\ draft'[d].error = "none"
      BY <3>1 DEF Unplanned
    <3>3. Copies'[d] = draft'[d]
      BY <3>1, CopyOf
    <3> QED BY <1>0, <1>1, <3>1, <3>2, <3>3, OneWritten DEF Kept!PutOut
  <2>3. CASE Unpublish(d) \/ Delete(d)
    <3>1. draft[d] \in Plan
      BY <1>0 DEF ContentType
    <3>2. draft'[d].publishAt = Never /\ d \notin published'
      BY <1>0, <2>3, <3>1 DEF Unpublish, Delete, ContentType, Unplanned, Plan
    <3>3. Copies'[d] = Kept!Blank
      BY <3>2, CopyOf DEF Kept!Blank, Unplanned
    <3> QED BY <1>0, <1>1, <3>2, <3>3, OneWritten DEF Kept!TakeIn
  <2>4. CASE Discard(d)
    <3>1. draft'[d] = live[d] /\ d \in published /\ published' = published /\ live' = live
      BY <1>0, <2>4 DEF Discard, ContentType
    <3>2. draft'[d].error = "none"
      BY <3>1 DEF Timed, Scheduled, PublishedCarriesNoPlan
    <3> QED BY <3>1, <3>2 DEF Kept!Keep, Copies
  <2> QED BY <2>1, <2>2, <2>3, <2>4 DEF Author
<1> QED BY <1>2, <1>3 DEF Kept!Change

\* A commit of the publish pass puts a document out that is due.
LEMMA CommitPutsOut ==
  ASSUME Timed, ContentType', CommitPublish, Doc \in Docs, OthersKept(Doc)
  PROVE  Kept!Publish(Doc)
<1>0. ContentType
  BY TypeParts DEF Timed, Scheduled
<1>1. /\ draft[Doc].publishAt <= clock
      /\ draft'[Doc] = [draft[Doc] EXCEPT !.publishAt = Never, !.error = "none"]
      /\ live'[Doc] = draft'[Doc] /\ Doc \in published'
  BY PublishFollows DEF Timed
<1>2. draft[Doc].publishAt < draft[Doc].unpublishAt
  <2>1. draft[Doc].publishAt <= run.at /\ run.at < draft[Doc].unpublishAt
    BY DEF Timed, Scheduled, ClaimHolds, CommitPublish
  <2>2. draft[Doc].publishAt \in Nat /\ draft[Doc].unpublishAt \in Nat /\ run.at \in Nat
    BY <1>0, TypeParts, TimesAreNumbers DEF Timed, Scheduled, ContentType, Plan, RunType, Run
  <2> HIDE DEF Doc
  <2> QED BY <2>1, <2>2
<1> DEFINE d == Doc
<1> HIDE DEF d
<1>3. Copies'[d] = draft'[d]
  BY <1>1, CopyOf DEF d
<1>4. Kept!PutOut(d)
  BY <1>0, <1>1, <1>3, OneWritten DEF Kept!PutOut, d
<1>5. Kept!Put(d, draft'[d])
  BY <1>0, OneWritten DEF Kept!Put, d
<1> QED BY <1>1, <1>2, <1>4, <1>5 DEF Kept!Publish, Kept!Due, d

\* A commit of the other pass takes one in whose end has come.
LEMMA CommitTakesIn ==
  ASSUME Timed, ContentType', CommitWithdrawal, Doc \in Docs, OthersKept(Doc)
  PROVE  Kept!Withdraw(Doc)
<1>0. ContentType
  BY TypeParts DEF Timed, Scheduled
<1>1. /\ draft[Doc].unpublishAt <= clock /\ Doc \notin published'
      /\ draft[Doc].publishAt # Never => Doc \in published
      /\ draft'[Doc] = Unplanned
  BY WithdrawalFollows DEF Timed
<1>2. Withdraws
  BY DEF CommitWithdrawal, Timed, PassesMatch
<1> DEFINE d == Doc
<1> HIDE DEF d
<1>3. Copies'[d] = Kept!Blank /\ draft'[d] = Kept!Blank
  BY <1>1, CopyOf DEF Kept!Blank, Unplanned, d
<1>4. Kept!TakeIn(d)
  BY <1>0, <1>1, <1>3, OneWritten DEF Kept!TakeIn, d
<1>5. Kept!Put(d, draft'[d])
  BY <1>0, OneWritten DEF Kept!Put, d
<1> QED BY <1>1, <1>2, <1>3, <1>4, <1>5 DEF Kept!Withdraw, Kept!Over, d

\* A publish whose window ended is missed.
LEMMA ExpiryMisses ==
  ASSUME Timed, ContentType', Expire, Doc \in Docs, OthersKept(Doc)
  PROVE  Kept!Miss(Doc)
<1>0. ContentType
  BY TypeParts DEF Timed, Scheduled
<1>1. /\ draft[Doc].publishAt <= clock /\ draft[Doc].unpublishAt <= clock
      /\ published' = published /\ live' = live
  BY ClaimJudged DEF Timed, Expire, Expires, WindowExpired
<1>2. Withdraws => Doc \notin published
  BY ExpiryFollows DEF Timed
<1> DEFINE d == Doc
           missed == [publishAt |-> Never, error |-> "windowExpired",
                      unpublishAt |-> IF Withdraws THEN Never ELSE draft[d].unpublishAt]
<1>3. draft'[d] = missed
  BY <1>0 DEF Expire, ContentType
<1>4. Kept!Keep
  BY <1>1 DEF Kept!Keep, Copies
<1>5. Kept!Put(d, draft'[d])
  BY <1>0, OneWritten DEF Kept!Put
<1>6. Kept!Put(d, missed)
  BY <1>3, <1>5, Zenon
<1> QED BY <1>1, <1>2, <1>4, <1>6 DEF Kept!Miss, Kept!Due, Kept!Over

\* A recorded failure is a mark, or nothing.
LEMMA RecordMarks ==
  ASSUME Timed, ContentType', Record, run.code # "none", Doc \in Docs, OthersKept(Doc)
  PROVE  Kept!Mark(Doc) \/ UNCHANGED <<draft, published, live>>
<1>0. ContentType /\ RunType
  BY TypeParts DEF Timed, Scheduled
<1>1. published' = published /\ live' = live
  BY DEF Record
<1>2. Kept!Keep
  BY <1>1 DEF Kept!Keep, Copies
<1>3. draft' = draft \/ draft' = [draft EXCEPT ![Doc] = Marked]
  BY DEF Record
<1>4. CASE draft' = [draft EXCEPT ![Doc] = Marked]
  <2>1. draft'[Doc] = Marked
    BY <1>0, <1>4 DEF ContentType
  <2>2. Marked.error = run.code
    <3>1. draft[Doc] \in Plan
      BY <1>0 DEF ContentType
    <3> QED BY <3>1 DEF Marked, Plan
  <2>3. \/ Marked = [draft[Doc] EXCEPT !.publishAt = Never, !.error = Marked.error]
        \/ Withdraws /\ Marked = [draft[Doc] EXCEPT !.error = Marked.error]
    <3>1. draft[Doc] \in Plan /\ run.pass \in Passes
      BY <1>0 DEF ContentType, RunType, Run
    <3>2. CASE run.pass = "publish"
      BY <2>2, <3>1, <3>2 DEF Marked, Plan
    <3>3. CASE run.pass = "unpublish"
      <4>1. Withdraws
        BY <3>3 DEF Timed, PassesMatch
      <4>2. Marked = [draft[Doc] EXCEPT !.error = run.code]
        BY <3>1, <3>3 DEF Marked, Plan
      <4> QED BY <2>2, <4>1, <4>2
    <3> QED BY <3>1, <3>2, <3>3 DEF Passes
  <2> QED BY <1>2, <1>4, <2>1, <2>2, <2>3 DEF Kept!Mark, Kept!Put
<1> QED BY <1>1, <1>3, <1>4

\* Every step is a step of the timetable, or none.
LEMMA NextKeepsTimetable ==
  ASSUME Timed, Timed', [Next]_vars
  PROVE  Kept!Next \/ UNCHANGED Kept!vars
<1>0. ContentType /\ ContentType' /\ kind' = kind
  <2>1. TypeOK /\ TypeOK'
    BY DEF Timed, Scheduled
  <2>2. ContentType /\ RunType
    BY <2>1, TypeParts
  <2>3. ContentType'
    BY <2>1 DEF TypeOK, ContentType
  <2> QED BY <2>2, <2>3, PassStays
<1>1. CASE \E d \in Docs : Author(d)
  BY <1>0, <1>1, AuthorChanges DEF Kept!Next
<1>2. CASE Tick
  <2>1. /\ clock' = clock + 1 /\ edits' = edits /\ draft' = draft
        /\ published' = published /\ live' = live
    BY <1>2 DEF Tick, Runs, content
  <2> QED BY <1>0, <2>1 DEF Kept!Next, Kept!Pass, Copies, Withdraws
<1>3. CASE ~(\E d \in Docs : Author(d)) /\ ~Tick
  <2>1. edits' = edits /\ clock' = clock
    BY <1>3 DEF Next, Works, Breaks, StartRun, SelectRetries, SelectHealthy, SelectPublishes,
       EndPass, Take, Skip, Expire, Claim, CommitWithdrawal, CommitPublish, Refused, Rejected,
       Transient, RecordSuperseded, RecordFailure, RecordReadsBlockers, RecordReadsPublished,
       RecordReadsDue, RecordFails, RunFails, Restart, Runs, Fault, vars, Record, Stale
  <2>2. UNCHANGED <<Withdraws, clock, edits>>
    BY <1>0, <2>1 DEF Withdraws
  <2>3. CASE UNCHANGED <<draft, published, live>>
    BY <2>2, <2>3 DEF Kept!vars, Copies
  <2>4. CASE ~UNCHANGED content
    <3>1. /\ Expire \/ CommitWithdrawal \/ CommitPublish \/ (Record /\ run.code # "none")
          /\ Doc \in Docs /\ OthersKept(Doc)
      BY <2>1, <2>4, SchedulerWrites DEF Timed, ByScheduler
    <3>2. Kept!Keeper(Doc) \/ UNCHANGED <<draft, published, live>>
      BY <1>0, <2>2, <3>1, CommitPutsOut, CommitTakesIn, ExpiryMisses, RecordMarks
         DEF Kept!Keeper
    <3> QED BY <2>3, <3>1, <3>2 DEF Kept!Next
  <2> QED BY <2>3, <2>4 DEF content
<1> QED BY <1>1, <1>2, <1>3

\* Runs that judge by what they selected and read earlier, authors who change
\* the same documents meanwhile, failures and restarts do to plans and to what
\* readers see only what the timetable says.
THEOREM TimetableHolds == Spec => TimetableIsKept
<1>1. Init => Kept!Init
  <2> SUFFICES ASSUME Init PROVE Kept!Init
    OBVIOUS
  <2>1. ContentType
    BY InitScheduled, TypeParts DEF Scheduled
  <2>2. Copies = [d \in Docs |-> Kept!Blank]
    BY DEF Init, Copies, Kept!Blank, Unplanned
  <2> QED BY <2>1, <2>2 DEF Init, Kept!Init, Withdraws, ContentType
<1>2. Timed /\ Timed' /\ [Next]_vars => [Kept!Next]_Kept!vars
  BY NextKeepsTimetable
<1> QED BY <1>1, <1>2, TimedHolds, PTL DEF Spec, TimetableIsKept, Kept!Spec

-----------------------------------------------------------------------------
(* Failed withdrawals take turns.                                           *)

\* How many of S come before d in the order of a query.
Place(S, rank, d) == Cardinality({e \in S : Sooner(rank, e, d)})

\* The rows of S are finitely many.
LEMMA RowsFinite ==
  ASSUME NEW S \in SUBSET Docs
  PROVE  IsFiniteSet(S) /\ Cardinality(S) \in Nat
BY DocsAreRowIds, FS_Subset, FS_CardinalityType

\* A proper part of S is smaller.
LEMMA PartIsSmaller ==
  ASSUME NEW S \in SUBSET Docs, NEW T \in SUBSET S
  PROVE  /\ Cardinality(T) \in Nat /\ Cardinality(S) \in Nat
         /\ Cardinality(T) <= Cardinality(S)
         /\ S # T => Cardinality(T) < Cardinality(S)
<1>1. IsFiniteSet(S) /\ Cardinality(S) \in Nat /\ Cardinality(T) \in Nat
  BY RowsFinite
<1>2. Cardinality(T) <= Cardinality(S) /\ (Cardinality(S) = Cardinality(T) => S = T)
  BY <1>1, FS_Subset
<1> QED BY <1>1, <1>2

\* The order of a query is total.
LEMMA SoonerOrders ==
  ASSUME NEW rank \in [Docs -> Nat], NEW d \in Docs, NEW e \in Docs
  PROVE  /\ ~Sooner(rank, d, d)
         /\ d # e => Sooner(rank, d, e) \/ Sooner(rank, e, d)
         /\ Sooner(rank, d, e) => ~Sooner(rank, e, d)
         /\ \A x \in Docs : Sooner(rank, d, e) /\ Sooner(rank, e, x) => Sooner(rank, d, x)
<1>1. \A x \in Docs : rank[x] \in Nat /\ x \in Nat
  BY DocsAreRowIds
<1> QED BY <1>1 DEF Sooner

\* Who comes first has fewer before it.
LEMMA PlacesOrder ==
  ASSUME NEW rank \in [Docs -> Nat], NEW S \in SUBSET Docs, NEW d \in S, NEW e \in Docs,
         Sooner(rank, d, e)
  PROVE  /\ Place(S, rank, d) \in Nat /\ Place(S, rank, e) \in Nat
         /\ Place(S, rank, d) < Place(S, rank, e)
<1> DEFINE D == {x \in S : Sooner(rank, x, d)}
           E == {x \in S : Sooner(rank, x, e)}
<1>1. E \in SUBSET Docs /\ D \subseteq E
  BY SoonerOrders
<1>2. d \in E /\ d \notin D
  BY SoonerOrders
<1> QED BY <1>1, <1>2, PartIsSmaller DEF Place

\* The first n of at least n rows are n.
LEMMA FirstAreAsMany ==
  ASSUME NEW rank \in [Docs -> Nat], NEW S \in SUBSET Docs, NEW n \in Nat, n <= Cardinality(S)
  PROVE  Cardinality({d \in S : Place(S, rank, d) < n}) = n
<1> DEFINE size == Cardinality(S)
           places == 0 .. (size - 1)
           place == [d \in S |-> Place(S, rank, d)]
           first == {d \in S : Place(S, rank, d) < n}
           firstPlace == [d \in first |-> Place(S, rank, d)]
<1>1. IsFiniteSet(S) /\ size \in Nat
  BY RowsFinite
<1>2. IsFiniteSet(places) /\ Cardinality(places) = size
  <2>1. 0 \in Int /\ size - 1 \in Int /\ (size - 1) - 0 + 1 = size /\ (0 > size - 1 <=> size = 0)
    BY <1>1
  <2>2. Cardinality(places) = IF 0 > size - 1 THEN 0 ELSE (size - 1) - 0 + 1
    BY <2>1, FS_Interval, Zenon
  <2>3. IsFiniteSet(places)
    BY <2>1, FS_Interval, Zenon
  <2> QED BY <2>1, <2>2, <2>3
<1>3. ASSUME NEW d \in S PROVE Place(S, rank, d) \in places
  <2>1. {e \in S : Sooner(rank, e, d)} # S
    BY SoonerOrders
  <2>2. Place(S, rank, d) \in Nat /\ Place(S, rank, d) < size
    BY <2>1, PartIsSmaller DEF Place
  <2> QED BY <1>1, <2>2
<1>4. ASSUME NEW d \in S, NEW e \in S, Place(S, rank, d) = Place(S, rank, e) PROVE d = e
  <2>1. CASE Sooner(rank, d, e) \/ Sooner(rank, e, d)
    BY <1>4, <2>1, PlacesOrder
  <2> QED BY <2>1, SoonerOrders
<1>5. place \in Surjection(S, places)
  <2>1. place \in Injection(S, places)
    <3>1. place \in [S -> places]
      BY <1>3
    <3>2. ASSUME NEW d \in S, NEW e \in S, place[d] = place[e] PROVE d = e
      BY <1>4, <3>2
    <3> HIDE DEF place, places
    <3> QED BY <3>1, <3>2 DEF Injection, IsInjective
  <2> QED BY <1>1, <1>2, <2>1, FS_Injection
<1>6. firstPlace \in Bijection(first, 0 .. (n - 1))
  <2>1. ASSUME NEW d \in first PROVE Place(S, rank, d) \in 0 .. (n - 1)
    BY <1>3
  <2>2. ASSUME NEW i \in 0 .. (n - 1) PROVE \E d \in first : Place(S, rank, d) = i
    <3>1. i \in places /\ i < n
      BY <1>1
    <3>2. PICK d \in S : place[d] = i
      BY <1>5, <3>1 DEF Surjection
    <3> QED BY <3>1, <3>2
  <2>3. firstPlace \in Injection(first, 0 .. (n - 1))
    <3>1. firstPlace \in [first -> 0 .. (n - 1)]
      BY <2>1
    <3>2. ASSUME NEW d \in first, NEW e \in first, firstPlace[d] = firstPlace[e] PROVE d = e
      BY <1>4, <3>2
    <3> HIDE DEF first, firstPlace
    <3> QED BY <3>1, <3>2 DEF Injection, IsInjective
  <2>4. firstPlace \in Surjection(first, 0 .. (n - 1))
    <3>1. firstPlace \in [first -> 0 .. (n - 1)]
      BY <2>1
    <3>2. \A i \in 0 .. (n - 1) : \E d \in first : firstPlace[d] = i
      BY <2>2
    <3> HIDE DEF first, firstPlace
    <3> QED BY <3>1, <3>2 DEF Surjection
  <2> QED BY <2>3, <2>4 DEF Bijection
<1>7. IsFiniteSet(first)
  BY RowsFinite
<1>8. Cardinality(0 .. (n - 1)) = Cardinality(first)
  BY <1>6, <1>7, FS_Bijection DEF ExistsBijection
<1>9. Cardinality(0 .. (n - 1)) = n
  BY FS_Interval
<1> QED BY <1>8, <1>9

\* A ready failure that a run does not pick saw a limit reached before it:
\* the run examined at least as many rows as the quota, all of them before
\* it, and the cursor stands on the last one.
LEMMA PassedOver ==
  ASSUME TypeOK, NEW d \in Ready \ Picked
  PROVE  /\ Quota <= Cardinality(Examined)
         /\ \A e \in Examined : Sooner(Circle, e, d)
         /\ NextCursor = {x \in Examined : \A e \in Examined \ {x} : Sooner(Circle, e, x)}
<1> DEFINE InScan == {e \in Failing : Cardinality(Before(e)) < Scan}
           InQuota == {e \in Failing : Cardinality(Before(e) \cap Ready) < Quota}
<1>1. /\ Failing \in SUBSET Docs /\ Ready \in SUBSET Failing /\ Ready \in SUBSET Docs
      /\ Circle \in [Docs -> Nat]
      /\ d \in Failing /\ d \in Docs /\ d \notin Examined /\ d \in Ready
  BY DEF TypeOK, Withdrawals, Failing, Ready, Circle, Picked
<1>2. ASSUME NEW e
      PROVE  /\ Cardinality(Before(e)) = Place(Failing, Circle, e)
             /\ Cardinality(Before(e) \cap Ready) = Place(Ready, Circle, e)
  <2>1. Before(e) \cap Ready = {x \in Ready : Sooner(Circle, x, e)}
    BY <1>1 DEF Before
  <2> QED BY <2>1 DEF Before, Place
<1>3. Quota \in Nat /\ Scan \in Nat /\ Quota <= Scan
  BY LimitsArePositive
<1>4. ASSUME NEW e \in Failing, NEW x \in Failing, Sooner(Circle, e, x)
      PROVE  /\ Before(e) \in SUBSET Before(x)
             /\ Cardinality(Before(e)) \in Nat /\ Cardinality(Before(x)) \in Nat
             /\ Cardinality(Before(e)) <= Cardinality(Before(x))
             /\ Cardinality(Before(e) \cap Ready) \in Nat
             /\ Cardinality(Before(x) \cap Ready) \in Nat
             /\ Cardinality(Before(e) \cap Ready) <= Cardinality(Before(x) \cap Ready)
  <2>1. Before(x) \in SUBSET Docs /\ Before(x) \cap Ready \in SUBSET Docs
    BY <1>1 DEF Before
  <2>2. Before(e) \in SUBSET Before(x)
    BY <1>1, <1>4, SoonerOrders DEF Before
  <2>3. Before(e) \cap Ready \in SUBSET (Before(x) \cap Ready)
    BY <2>2
  <2> QED BY <2>1, <2>2, <2>3, PartIsSmaller
<1>5. \A e \in Failing : /\ Cardinality(Before(e)) \in Nat
                         /\ Cardinality(Before(e) \cap Ready) \in Nat
  BY <1>1, RowsFinite DEF Before
<1>6. \A e \in Examined : Sooner(Circle, e, d)
  <2> SUFFICES ASSUME NEW e \in Examined, Sooner(Circle, d, e) PROVE d \in Examined
    BY <1>1, SoonerOrders DEF Examined
  <2>1. /\ Cardinality(Before(d)) <= Cardinality(Before(e))
        /\ Cardinality(Before(d) \cap Ready) <= Cardinality(Before(e) \cap Ready)
    BY <1>1, <1>4 DEF Examined
  <2>2. Cardinality(Before(e)) < Scan /\ Cardinality(Before(e) \cap Ready) < Quota
    BY DEF Examined
  <2>3. Cardinality(Before(d)) < Scan /\ Cardinality(Before(d) \cap Ready) < Quota
    BY <1>1, <1>3, <1>5, <2>1, <2>2 DEF Examined
  <2> QED BY <1>1, <2>3 DEF Examined
<1>7. CASE InScan \subseteq InQuota
  <2>1. Examined = InScan
    BY <1>7 DEF Examined
  <2>2. ~(Cardinality(Before(d)) < Scan)
    BY <1>1, <2>1
  <2>3. Scan <= Cardinality(Failing)
    <3>1. Before(d) \in SUBSET Failing
      BY DEF Before
    <3>2. Cardinality(Before(d)) <= Cardinality(Failing) /\ Cardinality(Failing) \in Nat
      BY <1>1, <3>1, PartIsSmaller
    <3>3. Cardinality(Before(d)) \in Nat
      BY <1>1, <1>5
    <3> QED BY <1>3, <2>2, <3>2, <3>3
  <2>4. InScan = {e \in Failing : Place(Failing, Circle, e) < Scan}
    BY <1>2
  <2>5. Cardinality(Examined) = Scan
    BY <1>1, <1>3, <2>1, <2>3, <2>4, FirstAreAsMany
  <2> QED BY <1>3, <1>6, <2>5 DEF NextCursor
<1>8. CASE InQuota \subseteq InScan
  <2>1. Examined = InQuota
    BY <1>8 DEF Examined
  <2>2. ~(Cardinality(Before(d) \cap Ready) < Quota)
    BY <1>1, <2>1
  <2>3. Quota <= Cardinality(Ready)
    <3>1. Cardinality(Before(d) \cap Ready) <= Cardinality(Ready) /\ Cardinality(Ready) \in Nat
      BY <1>1, PartIsSmaller
    <3> QED BY <1>1, <1>3, <1>5, <2>2, <3>1
  <2>4. Picked = {e \in Ready : Place(Ready, Circle, e) < Quota}
    BY <1>1, <1>2, <2>1 DEF Picked
  <2>5. Cardinality(Picked) = Quota
    BY <1>1, <1>3, <2>3, <2>4, FirstAreAsMany
  <2>6. Cardinality(Picked) <= Cardinality(Examined)
    <3>1. Examined \in SUBSET Docs /\ Picked \in SUBSET Examined
      BY <1>1 DEF Examined, Picked
    <3> QED BY <3>1, PartIsSmaller
  <2> QED BY <1>6, <2>5, <2>6 DEF NextCursor
<1>9. InScan \subseteq InQuota \/ InQuota \subseteq InScan
  <2> SUFFICES ASSUME NEW e \in InScan, e \notin InQuota, NEW x \in InQuota PROVE x \in InScan
    OBVIOUS
  <2>1. CASE Sooner(Circle, e, x)
    <3>1. Cardinality(Before(e) \cap Ready) <= Cardinality(Before(x) \cap Ready)
      BY <1>4, <2>1
    <3> QED BY <1>3, <1>5, <3>1
  <2>2. CASE Sooner(Circle, x, e)
    <3>1. Cardinality(Before(x)) <= Cardinality(Before(e))
      BY <1>4, <2>2
    <3> QED BY <1>3, <1>5, <3>1
  <2> QED BY <1>1, <2>1, <2>2, SoonerOrders
<1> QED BY <1>7, <1>8, <1>9

\* The row ids a cursor has before it up to d, d included.
Ahead(c, d) == {e \in Docs : IF c < d THEN c < e /\ e <= d ELSE c < e \/ e <= d}

\* A run that passes d over leaves fewer rows between the cursor and d, by
\* the quota at least.
LEMMA CursorApproaches ==
  ASSUME TypeOK, NEW d \in Ready \ Picked, NEW c, c \in NextCursor
  PROVE  /\ Cardinality(Ahead(c, d)) \in Nat /\ Cardinality(Ahead(cursor, d)) \in Nat
         /\ Cardinality(Ahead(c, d)) + Quota <= Cardinality(Ahead(cursor, d))
<1>1. /\ d \in Docs /\ d \in Nat /\ cursor \in Nat /\ Examined \in SUBSET Docs
      /\ \A e \in Docs : e \in Nat
  BY DocsAreRowIds DEF TypeOK, Withdrawals, Failing, Ready, Examined
<1>2. /\ c \in Examined /\ c \in Docs /\ c \in Nat
      /\ \A e \in Examined \ {c} : Sooner(Circle, e, c)
      /\ \A e \in Examined : Sooner(Circle, e, d)
  BY <1>1, PassedOver
<1>3. \A e, x \in Docs :
        Sooner(Circle, e, x) <=> \/ cursor < e /\ x <= cursor
                                 \/ (cursor < e <=> cursor < x) /\ e < x
  BY <1>1 DEF Sooner, Circle
<1>4. ASSUME NEW e \in Examined PROVE e \in Ahead(cursor, d) /\ e \notin Ahead(c, d)
  <2>1. e \in Docs /\ Sooner(Circle, e, d) /\ (e = c \/ Sooner(Circle, e, c))
    BY <1>1, <1>2
  <2>2. Sooner(Circle, c, d)
    BY <1>2
  <2> QED BY <1>1, <1>2, <1>3, <2>1, <2>2 DEF Ahead
<1>5. ASSUME NEW e \in Ahead(c, d) PROVE e \in Ahead(cursor, d)
  <2>1. Sooner(Circle, c, d)
    BY <1>2
  <2> QED BY <1>1, <1>2, <1>3, <1>5, <2>1 DEF Ahead
<1>6. Cardinality(Ahead(c, d) \cup Examined) = Cardinality(Ahead(c, d)) + Cardinality(Examined)
  <2>1. /\ IsFiniteSet(Ahead(c, d)) /\ Cardinality(Ahead(c, d)) \in Nat
        /\ IsFiniteSet(Examined) /\ Cardinality(Examined) \in Nat
    BY <1>1, RowsFinite DEF Ahead
  <2>2. Ahead(c, d) \cap Examined = {}
    BY <1>4
  <2>3. Cardinality(Ahead(c, d) \cap Examined) = 0
    BY <2>2, FS_EmptySet
  <2>4. Cardinality(Ahead(c, d) \cup Examined)
          = Cardinality(Ahead(c, d)) + Cardinality(Examined)
              - Cardinality(Ahead(c, d) \cap Examined)
    BY <2>1, FS_Union
  <2> QED BY <2>1, <2>3, <2>4
<1>7. /\ Cardinality(Ahead(c, d) \cup Examined) <= Cardinality(Ahead(cursor, d))
      /\ Cardinality(Ahead(cursor, d)) \in Nat
  <2>1. Ahead(cursor, d) \in SUBSET Docs /\ Ahead(c, d) \cup Examined \in SUBSET Ahead(cursor, d)
    BY <1>4, <1>5 DEF Ahead
  <2> QED BY <2>1, PartIsSmaller
<1>8. Cardinality(Ahead(c, d)) \in Nat /\ Cardinality(Examined) \in Nat
  BY <1>1, RowsFinite DEF Ahead
<1> QED BY <1>6, <1>7, <1>8, PassedOver, LimitsArePositive

\* What the runs that passed a row over took off the circle, and what is
\* still before the cursor, is no more than the rows there are.
TurnsComing ==
  \A d \in Docs :
    passedOver[d] * Quota + Cardinality(Ahead(cursor, d)) <= Cardinality(Docs)

\* What is ahead of a cursor is part of the rows, and holds the row itself.
LEMMA AheadType ==
  ASSUME NEW c \in Nat, NEW d \in Docs
  PROVE  /\ Cardinality(Ahead(c, d)) \in Nat /\ Cardinality(Ahead(c, d)) > 0
         /\ Cardinality(Ahead(c, d)) <= Cardinality(Docs) /\ Cardinality(Docs) \in Nat
<1>1. Ahead(c, d) \in SUBSET Docs /\ d \in Ahead(c, d)
  BY DocsAreRowIds DEF Ahead
<1>2. {} \in SUBSET Ahead(c, d) /\ {} # Ahead(c, d) /\ Cardinality({}) = 0
  BY <1>1, FS_EmptySet
<1> QED BY <1>1, <1>2, PartIsSmaller

\* Every step keeps it.
LEMMA NextTurns == Scheduled /\ TurnsComing /\ [Next]_vars => TurnsComing'
<1> SUFFICES ASSUME Scheduled, TurnsComing, [Next]_vars PROVE TurnsComing'
  OBVIOUS
<1>0. TypeOK /\ cursor \in Nat /\ passedOver \in [Docs -> Nat] /\ Quota \in Nat
  BY LimitsArePositive DEF Scheduled, TypeOK
<1>1. CASE UNCHANGED <<cursor, passedOver>>
  BY <1>1 DEF TurnsComing
<1>2. CASE Restart
  <2> SUFFICES ASSUME NEW d \in Docs, NEW c, c = cursor'
               PROVE  passedOver'[d] * Quota + Cardinality(Ahead(c, d)) <= Cardinality(Docs)
    BY DEF TurnsComing
  <2>1. c = 0 /\ passedOver'[d] = 0
    BY <1>2 DEF Restart
  <2>2. passedOver'[d] * Quota = 0
    BY <1>0, <2>1
  <2> QED BY <2>1, <2>2, AheadType
<1>3. CASE SelectRetries
  <2> SUFFICES ASSUME NEW d \in Docs, NEW c, c = cursor'
               PROVE  passedOver'[d] * Quota + Cardinality(Ahead(c, d)) <= Cardinality(Docs)
    BY DEF TurnsComing
  <2>1. c \in NextCursor
    BY <1>3 DEF SelectRetries
  <2>2. c \in Nat
    BY <2>1, DocsAreRowIds DEF NextCursor, Examined, Failing, Withdrawals, Scheduled, TypeOK
  <2>3. CASE d \in Ready \ Picked
    <3>1. passedOver'[d] = passedOver[d] + 1 /\ passedOver[d] \in Nat
      BY <1>0, <1>3, <2>3 DEF SelectRetries
    <3>2. (passedOver[d] + 1) * Quota = passedOver[d] * Quota + Quota
      BY <1>0, <3>1
    <3>3. /\ Cardinality(Ahead(c, d)) \in Nat /\ Cardinality(Ahead(cursor, d)) \in Nat
          /\ Cardinality(Ahead(c, d)) + Quota <= Cardinality(Ahead(cursor, d))
      BY <1>0, <2>1, <2>3, CursorApproaches
    <3>4. passedOver[d] * Quota + Cardinality(Ahead(cursor, d)) <= Cardinality(Docs)
      BY DEF TurnsComing
    <3>5. passedOver[d] * Quota \in Nat /\ Cardinality(Docs) \in Nat
      BY <1>0, <3>1, AheadType
    <3> QED BY <1>0, <3>1, <3>2, <3>3, <3>4, <3>5
  <2>4. CASE d \notin Ready \ Picked
    <3>1. passedOver'[d] = 0
      BY <1>3, <2>4 DEF SelectRetries
    <3>2. passedOver'[d] * Quota = 0
      BY <1>0, <3>1
    <3> QED BY <2>2, <3>2, AheadType
  <2> QED BY <2>3, <2>4
<1>4. CASE StartRun \/ SelectHealthy \/ SelectPublishes \/ EndPass \/ Take \/ RunFails \/ Tick
  BY <1>1, <1>4 DEF StartRun, SelectHealthy, SelectPublishes, EndPass, Take, RunFails, Tick, memory
<1>5. CASE DocumentStep
  BY <1>1, <1>5 DEF DocumentStep, Skip, Expire, Claim, CommitWithdrawal, CommitPublish, Refused,
     Rejected, Transient, RecordSuperseded, RecordFailure, RecordReadsBlockers,
     RecordReadsPublished, RecordReadsDue, RecordFails, Record, Fails, Stale, memory
<1>6. CASE \E d \in Docs : Author(d)
  BY <1>1, <1>6 DEF Author, Save, PublishNow, Unpublish, Discard, Delete, Edits, memory
<1>7. CASE UNCHANGED vars
  BY <1>1, <1>7 DEF vars, memory
<1> QED BY <1>2, <1>3, <1>4, <1>5, <1>6, <1>7, StepCases

\* selectRetries, "every ready failure is attempted within
\* N / WITHDRAWAL_RETRY_QUOTA runs": with any number of rows, limits and
\* edits between the runs, the cursor comes to every ready row in time.
THEOREM RetriesInTurn == Spec => []RetriesTakeTurns
<1>1. Init => TurnsComing
  <2> SUFFICES ASSUME Init, NEW d \in Docs
               PROVE  passedOver[d] * Quota + Cardinality(Ahead(cursor, d)) <= Cardinality(Docs)
    BY DEF TurnsComing
  <2>1. cursor = 0 /\ passedOver[d] = 0 /\ Quota \in Nat
    BY LimitsArePositive DEF Init
  <2>2. passedOver[d] * Quota = 0
    BY <2>1
  <2> QED BY <2>1, <2>2, AheadType
<1>2. Scheduled /\ TurnsComing => RetriesTakeTurns
  <2> SUFFICES ASSUME Scheduled, TurnsComing, NEW d \in Docs
               PROVE  passedOver[d] * Quota < Cardinality(Docs)
    BY DEF RetriesTakeTurns
  <2>1. cursor \in Nat /\ passedOver[d] \in Nat /\ Quota \in Nat
    BY LimitsArePositive DEF Scheduled, TypeOK
  <2>2. passedOver[d] * Quota + Cardinality(Ahead(cursor, d)) <= Cardinality(Docs)
    BY DEF TurnsComing
  <2>3. passedOver[d] * Quota \in Nat
    BY <2>1
  <2> QED BY <2>1, <2>2, <2>3, AheadType
<1>3. Spec => [](Scheduled /\ TurnsComing)
  BY <1>1, ScheduleHolds, NextTurns, PTL DEF Spec
<1> QED BY <1>2, <1>3, PTL

=============================================================================
