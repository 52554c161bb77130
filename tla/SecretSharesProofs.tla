------------------------- MODULE SecretSharesProofs -------------------------
(* Types of the secret shares, for any people, shares, sessions and bounds. *)
EXTENDS SecretShares, TLAPS

-----------------------------------------------------------------------------

\* Types, and the two invariants that typing an ended share rests on.
Typed == TypeOK /\ RequestsMatch /\ JanitorInPlace

\* The first state is typed.
LEMMA InitTyped == Init => Typed
<1> SUFFICES ASSUME Init PROVE Typed
  OBVIOUS
<1>1. people \in [People -> Person \cup {NoPerson}]
  <2> DEFINE New == [blocked : {FALSE}, role : Roles, version : {0}, erased : {FALSE}]
  <2>1. {FALSE} \subseteq BOOLEAN /\ {0} \subseteq Nat
    OBVIOUS
  <2>1a. New \subseteq Person
    BY <2>1, Zenon DEF Person
  <2>2. people \in [People -> New]
    BY DEF Init
  <2> HIDE DEF New
  <2> QED BY <2>1a, <2>2
<1>2. TypeOK
  BY <1>1 DEF Init, TypeOK
<1>3. RequestsMatch /\ JanitorInPlace
  BY DEF Init, RequestsMatch, JanitorInPlace
<1> QED BY <1>2, <1>3 DEF Typed

\* A row is a share.
LEMMA RowType ==
  ASSUME TypeOK, NEW s \in Shares, IsRow(s)
  PROVE  shares[s] \in Share
BY DEF TypeOK, IsRow

\* An account somebody has is a person.
LEMMA AccountType ==
  ASSUME TypeOK, NEW p \in People, people[p] # NoPerson
  PROVE  people[p] \in Person
BY DEF TypeOK

\* A request under way is a request.
LEMMA RequestType ==
  ASSUME Typed, NEW w \in Sessions, pc[w] # "idle"
  PROVE  request[w] \in Request
BY DEF Typed, TypeOK, RequestsMatch

-----------------------------------------------------------------------------

\* Asking keeps the types.
LEMMA AskingTyped ==
  ASSUME Typed, NEW w \in Sessions, Asking(w)
  PROVE  Typed'
<1>1. ASSUME NEW asked \in Request, Ask(w, asked), asked.verdict = "none",
             asked.op # "create" => NamesItsShare(w)'
      PROVE  Typed'
  <2>1. asked # NoRequest
    BY <1>1, SecretNullsAssumption
  <2>2. TypeOK'
    BY <1>1 DEF Typed, TypeOK, Ask, table, process, janitor
  <2>3. \A v \in Sessions \ {w} :
          /\ pc'[v] = pc[v] /\ request'[v] = request[v]
          /\ NamesItsShare(v) => NamesItsShare(v)'
    BY <1>1 DEF Typed, TypeOK, Ask, table, NamesItsShare, IsRow
  <2>4. pc'[w] = "directory" /\ request'[w] = asked
    BY <1>1 DEF Typed, TypeOK, Ask
  <2>5. RequestsMatch'
    BY <1>1, <2>1, <2>3, <2>4 DEF Typed, RequestsMatch, Ends
  <2>6. JanitorInPlace'
    BY <1>1 DEF Ask, Typed, JanitorInPlace, janitor
  <2> QED BY <2>2, <2>5, <2>6 DEF Typed
<1>2. CASE \E p, q \in People, life \in Lifetimes : AskCreate(w, p, q, life)
  <2> PICK p \in People, q \in People, life \in Lifetimes : AskCreate(w, p, q, life)
    BY <1>2
  <2> DEFINE asked == [op |-> "create", caller |-> p, peer |-> q, version |-> people[p].version,
                       share |-> NoShare, life |-> life, at |-> 0, verdict |-> "none"]
  <2>1. people[p].version \in Nat /\ life \in Nat
    BY AccountType, NumbersAssumption DEF AskCreate, Eligible, Person, Typed
  <2>2. asked \in Request
    BY <2>1 DEF Request
  <2>3. Ask(w, asked)
    BY DEF AskCreate
  <2> QED BY <1>1, <2>2, <2>3
<1>3. CASE \E s \in Shares : AskReveal(w, s)
  <2> PICK s \in Shares : AskReveal(w, s)
    BY <1>3
  <2> DEFINE asked == [op |-> "reveal", caller |-> shares[s].to, peer |-> shares[s].from,
                       version |-> people[shares[s].to].version, share |-> s, life |-> 0, at |-> 0,
                       verdict |-> "none"]
  <2>1. shares[s].to \in People /\ shares[s].from \in People
    BY RowType DEF AskReveal, Share, Typed
  <2>2. people[shares[s].to].version \in Nat
    BY <2>1, AccountType DEF AskReveal, Eligible, Person, Typed
  <2>3. asked \in Request
    BY <2>1, <2>2 DEF Request
  <2>4. Ask(w, asked)
    BY DEF AskReveal
  <2>5. request'[w] = asked /\ shares' = shares
    BY <2>4 DEF Ask, Typed, TypeOK, table
  <2>6. NamesItsShare(w)'
    BY <2>5 DEF NamesItsShare, IsRow, AskReveal
  <2> QED BY <1>1, <2>3, <2>4, <2>6
<1>4. CASE \E s \in Shares : AskRevoke(w, s)
  <2> PICK s \in Shares : AskRevoke(w, s)
    BY <1>4
  <2> DEFINE asked == [op |-> "revoke", caller |-> shares[s].from, peer |-> shares[s].to,
                       version |-> people[shares[s].from].version, share |-> s, life |-> 0,
                       at |-> 0, verdict |-> "none"]
  <2>1. shares[s].to \in People /\ shares[s].from \in People
    BY RowType DEF AskRevoke, Share, Typed
  <2>2. people[shares[s].from].version \in Nat
    BY <2>1, AccountType DEF AskRevoke, Eligible, Person, Typed
  <2>3. asked \in Request
    BY <2>1, <2>2 DEF Request
  <2>4. Ask(w, asked)
    BY DEF AskRevoke
  <2>5. request'[w] = asked /\ shares' = shares
    BY <2>4 DEF Ask, Typed, TypeOK, table
  <2>6. NamesItsShare(w)'
    BY <2>5 DEF NamesItsShare, IsRow, AskRevoke
  <2> QED BY <1>1, <2>3, <2>4, <2>6
<1> QED BY <1>2, <1>3, <1>4 DEF Asking

-----------------------------------------------------------------------------

\* What no step does: make a row of a deleted share, or change its people.
PartiesKept ==
  \A s \in Shares :
    shares[s] # Unborn =>
      /\ shares'[s] # Unborn
      /\ IsRow(s)' => /\ IsRow(s)
                      /\ shares'[s].from = shares[s].from /\ shares'[s].to = shares[s].to

TableType ==
  /\ shares \in [Shares -> Share \cup {Unborn, Deleted}]
  /\ notices \subseteq Shares

\* Ending a share keeps the table typed and the people of every share.
LEMMA EndShareTyped ==
  ASSUME TypeOK, NEW s \in Shares, NEW to \in Ends, NEW at \in Nat, EndShare(s, to, at)
  PROVE  TableType' /\ PartiesKept
<1> DEFINE ended == [shares[s] EXCEPT !.state = to, !.envelope = NoEnvelope, !.ended = at]
<1>1. shares[s] \in Share
  BY RowType DEF EndShare, Pending
<1>2. ended \in Share
  BY <1>1 DEF Share, States
<1>3. shares' = [shares EXCEPT ![s] = ended]
  BY DEF EndShare
<1>4. ended # Unborn /\ ended # Deleted /\ ended.from = shares[s].from /\ ended.to = shares[s].to
  BY <1>1, <1>2, SecretNullsAssumption DEF Share
<1> HIDE DEF ended
<1>5. TableType'
  <2>1. shares' \in [Shares -> Share \cup {Unborn, Deleted}]
    BY <1>2, <1>3 DEF TypeOK
  <2>2. notices' \subseteq Shares
    BY DEF TypeOK, EndShare
  <2> QED BY <2>1, <2>2 DEF TableType
<1>6. IsRow(s)
  BY <1>1, SecretNullsAssumption DEF IsRow
<1>7. \A t \in Shares \ {s} : shares'[t] = shares[t]
  BY <1>3 DEF TypeOK
<1>8. shares'[s] = ended
  BY <1>3 DEF TypeOK
<1>9. PartiesKept
  BY <1>4, <1>6, <1>7, <1>8 DEF PartiesKept, IsRow
<1> QED BY <1>5, <1>9

\* So does deleting shares.
LEMMA DeleteSharesTyped ==
  ASSUME TypeOK, NEW gone \in SUBSET Shares, DeleteShares(gone), gone \subseteq Rows
  PROVE  TableType' /\ PartiesKept
<1>1. TableType'
  BY DEF TypeOK, TableType, DeleteShares
<1>2. Deleted # Unborn
  BY SecretNullsAssumption
<1>3. PartiesKept
  BY <1>2 DEF PartiesKept, IsRow, Rows, TypeOK, DeleteShares
<1> QED BY <1>1, <1>3

\* And creating one.
LEMMA CommitCreateTyped ==
  ASSUME Typed, NEW w \in Sessions, NEW s \in Shares, CommitCreate(w, s)
  PROVE  TableType' /\ PartiesKept
<1> DEFINE new == [from |-> request[w].caller, to |-> request[w].peer, created |-> request[w].at,
                   expires |-> request[w].at + request[w].life, state |-> "pending",
                   envelope |-> key, ended |-> 0]
<1>1. request[w] \in Request
  BY RequestType DEF CommitCreate
<1>2. request[w].at + request[w].life \in Nat
  BY <1>1 DEF Request
<1>3. new \in Share
  BY <1>1, <1>2 DEF Request, Share, States, Typed, TypeOK
<1>4. shares' = [shares EXCEPT ![s] = new] /\ shares[s] = Unborn /\ notices' = notices \cup {s}
  BY DEF CommitCreate
<1> HIDE DEF new
<1>5. TableType'
  BY <1>3, <1>4 DEF Typed, TypeOK, TableType
<1>6. PartiesKept
  BY <1>4 DEF PartiesKept, IsRow, Typed, TypeOK
<1> QED BY <1>5, <1>6

\* Requests that go on as they are still match the shares they name.
LEMMA RequestsKept ==
  ASSUME Typed, PartiesKept, NEW w \in Sessions, pc[w] # "idle",
         request'[w].share = request[w].share, request'[w].op = request[w].op,
         request'[w].caller = request[w].caller, request'[w].peer = request[w].peer,
         request[w].op # "create"
  PROVE  NamesItsShare(w)'
<1>1. NamesItsShare(w)
  BY DEF Typed, RequestsMatch
<1> QED BY <1>1 DEF NamesItsShare, PartiesKept

\* A session that only moves on keeps the types.
LEMMA MoveTyped ==
  ASSUME Typed, NEW w \in Sessions, pc[w] # "idle",
         NEW place \in {"people", "caller", "share", "reading"}, Go(w, place),
         pc[w] \notin {"writing", "committed"},
         place \in {"share", "reading"} => request[w].op # "create",
         UNCHANGED <<people, table, clock, process, request, janitor, reads>>
  PROVE  Typed'
<1>1. TypeOK'
  BY DEF Typed, TypeOK, Go, table, process, janitor
<1>2. PartiesKept
  BY DEF PartiesKept, IsRow, table
<1>3. \A v \in Sessions \ {w} : pc'[v] = pc[v]
  BY DEF Typed, TypeOK, Go
<1>4. pc'[w] = place
  BY DEF Typed, TypeOK, Go
<1>5. RequestsMatch'
  BY <1>2, <1>3, <1>4, RequestsKept DEF Typed, RequestsMatch
<1>6. JanitorInPlace'
  BY DEF Typed, JanitorInPlace, janitor
<1> QED BY <1>1, <1>5, <1>6 DEF Typed

\* So does one that forgets its request.
LEMMA ForgetTyped ==
  ASSUME Typed, NEW w \in Sessions, Go(w, "idle"), request' = [request EXCEPT ![w] = NoRequest],
         UNCHANGED <<people, table, clock, process, janitor>>,
         reads' \in [Shares -> Nat]
  PROVE  Typed'
<1>1. TypeOK'
  BY DEF Typed, TypeOK, Go, table, process, janitor
<1>2. PartiesKept
  BY DEF PartiesKept, IsRow, table
<1>3. \A v \in Sessions \ {w} : pc'[v] = pc[v] /\ request'[v] = request[v]
  BY DEF Typed, TypeOK, Go
<1>4. pc'[w] = "idle"
  BY DEF Typed, TypeOK, Go
<1>5. RequestsMatch'
  BY <1>2, <1>3, <1>4, RequestsKept DEF Typed, RequestsMatch
<1>6. JanitorInPlace'
  BY DEF Typed, JanitorInPlace, janitor
<1> QED BY <1>1, <1>5, <1>6 DEF Typed

\* So does one that sets out to write what it judged.
LEMMA WritingTyped ==
  ASSUME Typed, NEW w \in Sessions, pc[w] # "idle", Go(w, "writing"),
         NEW verdict \in Ends \cup {"none"},
         request' = [request EXCEPT ![w].at = clock, ![w].verdict = verdict],
         request[w].op # "create" => verdict \in Ends,
         verdict = "retrieved" => request[w].op = "reveal",
         UNCHANGED <<people, table, clock, process, janitor, reads>>
  PROVE  Typed'
<1> DEFINE judged == [request[w] EXCEPT !.at = clock, !.verdict = verdict]
<1>1. request[w] \in Request
  BY RequestType
<1>2. judged \in Request
  BY <1>1 DEF Request, Typed, TypeOK
<1>3. judged # NoRequest
  BY <1>2, SecretNullsAssumption
<1>4. /\ judged.op = request[w].op /\ judged.share = request[w].share
      /\ judged.caller = request[w].caller /\ judged.peer = request[w].peer
      /\ judged.verdict = verdict
  BY <1>1 DEF Request
<1>5. request' = [request EXCEPT ![w] = judged]
  BY DEF Typed, TypeOK
<1> HIDE DEF judged
<1>6. TypeOK'
  BY <1>2, <1>5 DEF Typed, TypeOK, Go, table, process, janitor
<1>7. PartiesKept
  BY DEF PartiesKept, IsRow, table
<1>8. \A v \in Sessions \ {w} : pc'[v] = pc[v] /\ request'[v] = request[v]
  BY <1>5 DEF Typed, TypeOK, Go
<1>9. pc'[w] = "writing" /\ request'[w] = judged
  BY <1>5 DEF Typed, TypeOK, Go
<1>10. ASSUME NEW v \in Sessions, pc[v] # "idle", request[v].op # "create"
       PROVE  NamesItsShare(v)'
  BY <1>4, <1>7, <1>8, <1>9, <1>10, RequestsKept
<1>11. ASSUME NEW v \in Sessions \ {w}, pc'[v] # "idle"
       PROVE  /\ request'[v] # NoRequest
              /\ pc'[v] \in {"share", "reading"} => request'[v].op # "create"
              /\ request'[v].op # "create" => NamesItsShare(v)'
              /\ (pc'[v] = "writing" /\ request'[v].op # "create") => request'[v].verdict \in Ends
              /\ request'[v].verdict = "retrieved"
                   => request'[v].op = "reveal" /\ pc'[v] \in {"writing", "committed"}
  <2>1. v # w /\ pc'[v] = pc[v] /\ request'[v] = request[v] /\ pc[v] # "idle"
    BY <1>8, <1>11
  <2>2. /\ request[v] # NoRequest
        /\ pc[v] \in {"share", "reading"} => request[v].op # "create"
        /\ (pc[v] = "writing" /\ request[v].op # "create") => request[v].verdict \in Ends
        /\ request[v].verdict = "retrieved"
             => request[v].op = "reveal" /\ pc[v] \in {"writing", "committed"}
    BY <2>1 DEF Typed, RequestsMatch
  <2>3. request'[v].op # "create" => NamesItsShare(v)'
    BY <1>10, <2>1
  <2> QED BY <2>1, <2>2, <2>3
<1>12. request[w].op # "create" => NamesItsShare(w)'
  BY <1>10
<1>13. RequestsMatch'
  BY <1>3, <1>4, <1>9, <1>11, <1>12 DEF RequestsMatch
<1>14. JanitorInPlace'
  BY DEF Typed, JanitorInPlace, janitor
<1> QED BY <1>6, <1>13, <1>14 DEF Typed

\* So does a COMMIT.
LEMMA CommittedTyped ==
  ASSUME Typed, NEW w \in Sessions, pc[w] = "writing", Go(w, "committed"),
         TableType', PartiesKept,
         UNCHANGED <<people, clock, process, request, janitor, reads>>
  PROVE  Typed'
<1>1. TypeOK'
  BY DEF Typed, TypeOK, TableType, Go, process, janitor
<1>2. \A v \in Sessions \ {w} : pc'[v] = pc[v]
  BY DEF Typed, TypeOK, Go
<1>3. pc'[w] = "committed"
  BY DEF Typed, TypeOK, Go
<1>4. RequestsMatch'
  BY <1>2, <1>3, RequestsKept DEF Typed, RequestsMatch
<1>5. JanitorInPlace'
  BY DEF Typed, JanitorInPlace, janitor
<1> QED BY <1>1, <1>4, <1>5 DEF Typed

\* Serving a request keeps the types.
LEMMA ServingTyped ==
  ASSUME Typed, NEW w \in Sessions, Serving(w)
  PROVE  Typed'
<1>1. CASE LockDirectory(w)
  BY <1>1, MoveTyped DEF LockDirectory
<1>2. CASE LockPeople(w)
  BY <1>2, MoveTyped DEF LockPeople
<1>3. CASE JudgeCreate(w)
  <2>1. request[w] \in Request /\ request[w].op = "create" /\ request[w].verdict # "retrieved"
    BY <1>3, RequestType DEF JudgeCreate, Typed, RequestsMatch
  <2>2. request[w].verdict \in Ends \cup {"none"}
    BY <2>1 DEF Request
  <2>3. request' = [request EXCEPT ![w].at = clock, ![w].verdict = request[w].verdict]
    BY <1>3, <2>1 DEF JudgeCreate, Request, Typed, TypeOK
  <2> QED BY <1>3, <2>1, <2>2, <2>3, WritingTyped DEF JudgeCreate
<1>4. CASE JudgeCaller(w)
  BY <1>4, MoveTyped DEF JudgeCaller
<1>5. CASE LockShare(w)
  BY <1>5, MoveTyped DEF LockShare, Typed, RequestsMatch
<1>6. CASE JudgeReveal(w)
  <2> PICK verdict \in {"retrieved", "cancelled"} : Decide(w, verdict)
    BY <1>6 DEF JudgeReveal
  <2> QED BY <1>6, WritingTyped DEF JudgeReveal, Decide, Ends
<1>7. CASE JudgeRevoke(w)
  <2>1. Decide(w, "revoked") /\ pc[w] # "idle"
    BY <1>7 DEF JudgeRevoke
  <2>2. "revoked" \in Ends \cup {"none"} /\ "revoked" \in Ends /\ "revoked" # "retrieved"
    BY DEF Ends
  <2> QED BY <2>1, <2>2, WritingTyped DEF Decide
<1>8. CASE \E s \in Shares : CommitCreate(w, s)
  <2> PICK s \in Shares : CommitCreate(w, s)
    BY <1>8
  <2>1. TableType' /\ PartiesKept
    BY CommitCreateTyped
  <2>2. pc[w] = "writing" /\ Go(w, "committed")
    BY DEF CommitCreate
  <2>3. UNCHANGED <<people, clock, process, request, janitor, reads>>
    BY DEF CommitCreate
  <2> QED BY <2>1, <2>2, <2>3, CommittedTyped
<1>9. CASE CommitEnd(w)
  <2>1. request[w] \in Request /\ request[w].share \in Shares /\ request[w].verdict \in Ends
    BY <1>9, RequestType DEF CommitEnd, Typed, RequestsMatch, NamesItsShare
  <2>2. TableType' /\ PartiesKept
    BY <1>9, <2>1, EndShareTyped DEF CommitEnd, Typed, Request
  <2> QED BY <1>9, <2>2, CommittedTyped DEF CommitEnd, Typed, TypeOK
<1>10. CASE Rollback(w)
  BY <1>10, ForgetTyped DEF Rollback, Typed, TypeOK
<1>11. CASE Answer(w)
  <2>1. CASE request[w].verdict = "retrieved"
    <3> DEFINE s == request[w].share
    <3>1. reads' = [reads EXCEPT ![s] = reads[s] + 1] /\ reads \in [Shares -> Nat]
      BY <1>11, <2>1 DEF Answer, Typed, TypeOK
    <3>2. s \in Shares => reads[s] + 1 \in Nat
      BY <3>1
    <3>3. reads' \in [Shares -> Nat]
      BY <3>1, <3>2
    <3> QED BY <1>11, <3>3, ForgetTyped DEF Answer
  <2>2. CASE request[w].verdict # "retrieved"
    <3>1. reads' \in [Shares -> Nat]
      BY <1>11, <2>2 DEF Answer, Typed, TypeOK
    <3> QED BY <1>11, <3>1, ForgetTyped DEF Answer
  <2> QED BY <2>1, <2>2
<1>12. CASE AnswerBusy(w)
  BY <1>12, ForgetTyped DEF AnswerBusy, Typed, TypeOK
<1> QED
  BY <1>1, <1>2, <1>3, <1>4, <1>5, <1>6, <1>7, <1>8, <1>9, <1>10, <1>11, <1>12 DEF Serving

-----------------------------------------------------------------------------

\* Requests match while no session moves and no share changes its people.
LEMMA StillRequestsMatch ==
  ASSUME Typed, PartiesKept, UNCHANGED <<pc, request>>
  PROVE  RequestsMatch'
<1>1. ASSUME NEW w \in Sessions, pc[w] # "idle", request[w].op # "create"
      PROVE  NamesItsShare(w)'
  BY <1>1, RequestsKept
<1> QED BY <1>1 DEF Typed, RequestsMatch

\* The first Batch of some shares are shares.
LEMMA FirstOfType ==
  ASSUME NEW ids \in SUBSET Shares
  PROVE  FirstOf(ids) \in SUBSET Shares
BY DEF FirstOf

\* The janitor's steps keep the types.
LEMMA CleaningTyped ==
  ASSUME Typed, Cleaning
  PROVE  Typed'
<1>1. ASSUME NEW step \in {"idle", "expired", "cancelled", "orphans", "ended"},
             NEW ids \in SUBSET Shares, Start(step, ids), now' \in Nat, row = NoShare
      PROVE  Typed'
  <2>1. todo' \in SUBSET Shares
    BY <1>1, FirstOfType DEF Start
  <2>2. TypeOK'
    BY <1>1, <2>1 DEF Start, Typed, TypeOK, table, process
  <2>3. RequestsMatch'
    BY <1>1, StillRequestsMatch DEF Start, PartiesKept, IsRow, table
  <2>4. JanitorInPlace'
    BY <1>1 DEF Start, JanitorInPlace
  <2> QED BY <2>2, <2>3, <2>4 DEF Typed
<1>2. Rows \subseteq Shares
  BY DEF Rows
<1>3. Expired \subseteq Shares /\ Ineligible \subseteq Shares /\ Orphans \subseteq Shares
      /\ Ended \subseteq Shares
  BY <1>2 DEF Expired, Ineligible, Orphans, Ended
<1>4. CASE RunJanitor
  <2>1. row = NoShare /\ clock \in Nat
    BY <1>4 DEF RunJanitor, Typed, JanitorInPlace, TypeOK
  <2> QED BY <1>1, <1>3, <1>4, <2>1 DEF RunJanitor
<1>5. CASE NextStep
  <2>1. now \in Nat
    BY DEF Typed, TypeOK
  <2> QED BY <1>1, <1>3, <1>5, <2>1 DEF NextStep
<1>6. ASSUME UNCHANGED <<people, table, clock, key, pc, request, phase, reads>>,
             faults' \in Nat, now' \in Nat, todo' \subseteq Shares, due' \in SUBSET Nat,
             row' \in {row, NoShare}
      PROVE  Typed'
  <2>1. TypeOK'
    BY <1>6 DEF Typed, TypeOK, table
  <2>2. RequestsMatch'
    BY <1>6, StillRequestsMatch DEF PartiesKept, IsRow, table
  <2>3. JanitorInPlace'
    BY <1>6 DEF Typed, JanitorInPlace
  <2> QED BY <2>1, <2>2, <2>3 DEF Typed
<1>7. CASE JanitorJudge
  BY <1>6, <1>7 DEF JanitorJudge, Typed, TypeOK, process
<1>8. CASE JanitorFails
  <2>1. faults' \in Nat
    BY <1>8 DEF JanitorFails, Fault, Typed, TypeOK
  <2> QED BY <1>6, <1>8, <2>1 DEF JanitorFails, Typed, TypeOK
<1>9. CASE RunFails
  <2>1. TypeOK'
    BY <1>9 DEF RunFails, Fault, Typed, TypeOK, table
  <2>2. RequestsMatch'
    BY <1>9, StillRequestsMatch DEF RunFails, PartiesKept, IsRow, table
  <2>3. JanitorInPlace'
    BY <1>9 DEF RunFails, JanitorInPlace
  <2> QED BY <2>1, <2>2, <2>3 DEF Typed
<1>10. CASE JanitorDelete
  <2> DEFINE gone == {s \in todo : IsRow(s)}
  <2>1. gone \in SUBSET Shares /\ gone \subseteq Rows
    BY DEF Typed, TypeOK, Rows
  <2>2. DeleteShares(gone)
    BY <1>10 DEF JanitorDelete
  <2>3. TableType' /\ PartiesKept
    BY <2>1, <2>2, DeleteSharesTyped DEF Typed
  <2>4. TypeOK'
    BY <1>10, <2>3 DEF JanitorDelete, Typed, TypeOK, TableType, process
  <2>5. RequestsMatch'
    BY <1>10, <2>3, StillRequestsMatch DEF JanitorDelete
  <2>6. JanitorInPlace'
    BY <1>10 DEF JanitorDelete, Typed, JanitorInPlace
  <2> QED BY <2>4, <2>5, <2>6 DEF Typed
<1>11. CASE \E s \in Shares : JanitorLock(s)
  <2> PICK s \in Shares : JanitorLock(s)
    BY <1>11
  <2>1. TypeOK'
    BY DEF JanitorLock, Typed, TypeOK, table, process
  <2>2. RequestsMatch'
    BY StillRequestsMatch DEF JanitorLock, PartiesKept, IsRow, table
  <2>3. JanitorInPlace'
    BY DEF JanitorLock, JanitorInPlace
  <2> QED BY <2>1, <2>2, <2>3 DEF Typed
<1>12. CASE \E s \in Shares : JanitorEnd(s)
  <2> PICK s \in Shares : JanitorEnd(s)
    BY <1>12
  <2> PICK at \in due : EndShare(s, phase, at)
    BY DEF JanitorEnd
  <2>1. phase \in Ends /\ at \in Nat
    BY IdsAssumption DEF JanitorEnd, Typed, JanitorInPlace, TypeOK, Ends
  <2>2. TableType' /\ PartiesKept
    BY <2>1, EndShareTyped DEF Typed
  <2>3. TypeOK'
    BY <2>2 DEF JanitorEnd, Typed, TypeOK, TableType, process
  <2>4. RequestsMatch'
    BY <2>2, StillRequestsMatch DEF JanitorEnd
  <2>5. JanitorInPlace'
    BY DEF JanitorEnd, JanitorInPlace
  <2> QED BY <2>3, <2>4, <2>5 DEF Typed
<1> QED
  BY <1>4, <1>5, <1>7, <1>8, <1>9, <1>10, <1>11, <1>12 DEF Cleaning

\* Accounts, notifications, time and restarts keep the types.
LEMMA AroundTyped ==
  ASSUME Typed, Around
  PROVE  Typed'
<1>0. Volatile \subseteq People
  BY PeopleAssumption
<1>1. ASSUME UNCHANGED <<pc, request, janitor, process, clock, reads>>, TableType', PartiesKept,
             people' \in [People -> Person \cup {NoPerson}]
      PROVE  Typed'
  <2>1. TypeOK'
    BY <1>1 DEF Typed, TypeOK, TableType, janitor, process
  <2>2. RequestsMatch'
    BY <1>1, StillRequestsMatch
  <2>3. JanitorInPlace'
    BY <1>1 DEF Typed, JanitorInPlace, janitor
  <2> QED BY <2>1, <2>2, <2>3 DEF Typed
<1>2. ASSUME UNCHANGED table PROVE TableType' /\ PartiesKept
  BY <1>2 DEF Typed, TypeOK, TableType, PartiesKept, IsRow, table
<1>3. CASE \E p \in Volatile, account \in Accounts : ChangeAccount(p, account)
  <2> PICK p \in Volatile, account \in Accounts : ChangeAccount(p, account)
    BY <1>3
  <2>1. account \in Person
    <3>1. 0 .. MaxVersion \subseteq Nat
      BY NumbersAssumption
    <3>2. {FALSE} \subseteq BOOLEAN
      OBVIOUS
    <3> QED BY <3>1, <3>2, Zenon DEF Accounts, Person
  <2>2. people' \in [People -> Person \cup {NoPerson}]
    BY <2>1 DEF ChangeAccount, Typed, TypeOK
  <2> QED BY <1>1, <1>2, <2>2 DEF ChangeAccount
<1>4. CASE \E p \in Volatile : DeleteAccount(p)
  <2> PICK p \in Volatile : DeleteAccount(p)
    BY <1>4
  <2>1. people' \in [People -> Person \cup {NoPerson}]
    BY DEF DeleteAccount, Typed, TypeOK
  <2> QED BY <1>1, <1>2, <2>1 DEF DeleteAccount
<1>5. CASE \E p \in Volatile : Anonymise(p)
  <2> PICK p \in Volatile : Anonymise(p)
    BY <1>5
  <2>1. people[p] \in Person
    BY <1>0, AccountType DEF Anonymise, Typed
  <2>2. [people[p] EXCEPT !.erased = TRUE] \in Person
    BY <2>1 DEF Person
  <2>3. people' \in [People -> Person \cup {NoPerson}]
    BY <2>2 DEF Anonymise, Typed, TypeOK
  <2>4. SharesOf(p) \in SUBSET Shares /\ SharesOf(p) \subseteq Rows
    BY DEF SharesOf, Rows
  <2>5. TableType' /\ PartiesKept
    BY <2>4, DeleteSharesTyped DEF Anonymise, Typed
  <2> QED BY <1>1, <2>3, <2>5 DEF Anonymise
<1>6. CASE \E s \in Shares : DropNotice(s)
  <2> PICK s \in Shares : DropNotice(s)
    BY <1>6
  <2>1. TableType' /\ PartiesKept
    BY DEF DropNotice, Typed, TypeOK, TableType, PartiesKept, IsRow
  <2> QED BY <1>1, <2>1 DEF DropNotice, Typed, TypeOK
<1>7. CASE Tick
  <2>1. TypeOK'
    BY <1>7 DEF Tick, Typed, TypeOK, table, janitor, process
  <2>2. RequestsMatch'
    BY <1>2, <1>7, StillRequestsMatch DEF Tick
  <2>3. JanitorInPlace'
    BY <1>7 DEF Tick, Typed, JanitorInPlace, janitor
  <2> QED BY <2>1, <2>2, <2>3 DEF Typed
<1>8. CASE \E k \in Keys : Restart(k)
  <2> PICK k \in Keys : Restart(k)
    BY <1>8
  <2>1. TypeOK'
    BY DEF Restart, Fault, Typed, TypeOK, table
  <2>2. RequestsMatch' /\ JanitorInPlace'
    BY DEF Restart, RequestsMatch, JanitorInPlace
  <2> QED BY <2>1, <2>2 DEF Typed
<1> QED BY <1>3, <1>4, <1>5, <1>6, <1>7, <1>8 DEF Around

\* Every step keeps the types.
LEMMA NextTyped == Typed /\ [Next]_vars => Typed'
<1> SUFFICES ASSUME Typed, [Next]_vars PROVE Typed'
  OBVIOUS
<1>1. CASE \E w \in Sessions : Asking(w)
  BY <1>1, AskingTyped
<1>2. CASE \E w \in Sessions : Serving(w)
  BY <1>2, ServingTyped
<1>3. CASE Cleaning
  BY <1>3, CleaningTyped
<1>4. CASE Around
  BY <1>4, AroundTyped
<1>5. CASE UNCHANGED vars
  <2>1. TypeOK'
    BY <1>5 DEF vars, Typed, TypeOK, table, janitor, process
  <2>2. RequestsMatch'
    BY <1>5, StillRequestsMatch DEF vars, PartiesKept, IsRow, table
  <2>3. JanitorInPlace'
    BY <1>5 DEF vars, Typed, JanitorInPlace, janitor
  <2> QED BY <2>1, <2>2, <2>3 DEF Typed
<1> QED BY <1>1, <1>2, <1>3, <1>4, <1>5 DEF Next

\* Types, the match of requests with the shares they name, and the steps in
\* which the janitor holds a row: of createShare, revealShare, revokeShare
\* and the janitor, for any people, sessions and shares.
THEOREM SecretsTyped == Spec => [](TypeOK /\ RequestsMatch /\ JanitorInPlace)
<1>1. Spec => []Typed
  BY InitTyped, NextTyped, PTL DEF Spec
<1> QED BY <1>1, PTL DEF Typed

=============================================================================
