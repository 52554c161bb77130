---------------------------- MODULE SignInProofs ----------------------------
(***************************************************************************)
(* AccountKept is inductive, for any number of requests, versions,         *)
(* enrolments, links and time steps, and what signing in promises follows  *)
(* from it.                                                                *)
(***************************************************************************)
EXTENDS SignIn, FiniteSetTheorems, TLAPS

\* A code of an authenticator is no recovery code.
LEMMA CodesApart == \A c : ~(c \in Totp /\ c \in Paper)
<1> SUFFICES ASSUME NEW c, c \in Totp, c \in Paper PROVE FALSE
  OBVIOUS
<1>1. DOMAIN c = {"secret", "step"}
  BY DEF Totp
<1>2. DOMAIN c = {"secret", "paper"}
  BY DEF Paper
<1>3. "step" \in {"secret", "step"} /\ "step" \notin {"secret", "paper"}
  OBVIOUS
<1> QED BY <1>1, <1>2, <1>3

LEMMA CodesTyped ==
  ASSUME NEW c \in Codes
  PROVE  /\ c.secret \in Secrets \ {0} /\ c.secret \in Nat /\ c.secret # 0
         /\ c \in Totp => c.step \in Steps /\ c.step \in Nat
         /\ c \notin Totp => c \in Paper /\ c.paper \in Recovery
BY SignInNumbers DEF Codes, Totp, Paper, Secrets, Steps

LEMMA AccountTyped ==
  ASSUME NEW row \in Account
  PROVE  /\ row.version \in Versions /\ row.version \in Nat /\ row.secret \in Secrets
         /\ row.secret \in Nat /\ row.step \in Steps \cup {NoStep} /\ row.step \in Int
         /\ row.password \in Passwords /\ row.papers \subseteq Recovery
         /\ row.link \in Link \cup {NoLink} /\ row.blocked \in BOOLEAN
BY SignInNumbers DEF Account, Versions, Secrets, Steps, NoStep

LEMMA RequestTyped ==
  ASSUME NEW q \in Request
  PROVE  /\ q.op \in Ops /\ q.version \in Versions /\ q.version \in Nat /\ q.proved \in Secrets
         /\ q.typed \in Passwords /\ q.code \in Codes \cup {NoCode}
         /\ q.setup \in Setup /\ q.link \in Link \cup {NoLink}
         /\ q.setup.version \in Nat /\ q.setup.secret \in Secrets
BY SignInNumbers DEF Request, Versions, Setup, Secrets

-----------------------------------------------------------------------------
(* What a step of the account may do to the parts of the invariant.         *)

\* The version does not fall, and while it stays so do the password and an
\* active second factor.
Forward ==
  /\ account' \in Account /\ account'.version >= account.version
  /\ account'.version = account.version =>
       account'.password = account.password /\ account.secret \in {0, account'.secret}

LEMMA QuietForward == AccountKept /\ UNCHANGED account => Forward
<1> SUFFICES ASSUME AccountKept, UNCHANGED account PROVE Forward
  OBVIOUS
<1>1. account \in Account
  BY DEF AccountKept, TypeOK
<1> QED BY <1>1, AccountTyped DEF Forward

LEMMA TokensStay ==
  ASSUME AccountKept, Forward,
         \A t \in tokens' : t \in tokens \/ (t \in Token /\ t.version <= account'.version
           /\ (t.version = account'.version =>
                 t.password = account'.password /\ t.secret \in {0, account'.secret}))
  PROVE  TokensVouch'
<1> SUFFICES ASSUME NEW t \in tokens', t \in tokens
             PROVE  /\ t.version <= account'.version
                    /\ t.version = account'.version =>
                         t.password = account'.password /\ t.secret \in {0, account'.secret}
  BY DEF TokensVouch
<1>1. t \in Token /\ account \in Account
  BY DEF AccountKept, TypeOK
<1>2. t.version \in Nat
  BY <1>1, SignInNumbers DEF Token, Versions
<1>3. account.version \in Nat /\ account'.version \in Nat
  BY <1>1, AccountTyped DEF Forward
<1>4. /\ t.version <= account.version
      /\ t.version = account.version =>
           t.password = account.password /\ t.secret \in {0, account.secret}
  BY DEF AccountKept, TokensVouch
<1> QED BY <1>2, <1>3, <1>4 DEF Forward

\* A request that does not act, unless it holds the lock while the account
\* changes.
LEMMA RequestStays ==
  ASSUME AccountKept, Forward, NEW r \in Requests, pc'[r] = pc[r], request'[r] = request[r],
         sealed \subseteq sealed', sent \subseteq sent',
         pc[r] = "judged" => holder' = r /\ account' = account
  PROVE  RequestKnows(r)'
<1>1. CASE pc[r] = "idle"
  BY <1>1 DEF RequestKnows
<1>2. CASE pc[r] # "idle"
  <2> DEFINE q == request[r]
  <2>1. RequestKnows(r) /\ q \in Request /\ account \in Account
    BY <1>2 DEF AccountKept, TypeOK, RequestKnows
  <2>2. q.version \in Nat /\ account.version \in Nat /\ account'.version \in Nat
    BY <2>1, RequestTyped, AccountTyped DEF Forward
  <2>3. q.version <= account'.version
    BY <1>2, <2>1, <2>2 DEF RequestKnows, Forward
  <2>4. q.version = account'.version =>
          /\ q.proved \in {0, account'.secret}
          /\ pc[r] # "password" /\ q.op # "redeem" => q.typed = account'.password
    BY <1>2, <2>1, <2>2 DEF RequestKnows, Forward
  <2>5. pc[r] = "judged" => holder' = r /\ Stands(q)'
    BY <1>2, <2>1 DEF RequestKnows, Stands, Enrolled
  <2> QED BY <1>2, <2>1, <2>3, <2>4, <2>5 DEF RequestKnows
<1> QED BY <1>1, <1>2

\* No enrolment more, and the account's is what it was or none.
LEMMA EnrolmentsStay ==
  ASSUME AccountKept, Forward, UNCHANGED sealed, account'.secret \in {0, account.secret}
  PROVE  EnrolmentsTold'
<1>1. account \in Account /\ account.version \in Nat /\ account'.version \in Nat
  BY AccountTyped DEF AccountKept, TypeOK, Forward
<1>2. \A s \in sealed : s.version \in Nat
  BY SignInNumbers DEF AccountKept, TypeOK, Setup, Versions
<1> QED BY <1>1, <1>2 DEF AccountKept, EnrolmentsTold, Enrolled, Forward

\* No code more: one that was accepted is remembered, or its secret is past.
LEMMA CodeStays ==
  ASSUME AccountKept, Forward, NEW c \in Codes, used'[c] = used[c], sealed \subseteq sealed',
         account'.secret \in {0, account.secret},
         account'.version = account.version => account'.secret = account.secret,
         account'.secret # 0 => account'.step >= account.step /\ account'.papers \subseteq account.papers
  PROVE  CodeKept(c)'
<1>1. account \in Account /\ account.version \in Nat /\ account'.version \in Nat
      /\ account.step \in Int /\ account'.step \in Int
  BY AccountTyped DEF AccountKept, TypeOK, Forward
<1>2. CodeKept(c) /\ EnrolmentsTold
  BY DEF AccountKept
<1>3. ASSUME used[c] > 0
      PROVE  \E s \in sealed' : /\ s.secret = c.secret
                                /\ s.version = account'.version => account'.secret = c.secret
  <2>1. PICK s \in sealed : /\ s.secret = c.secret
                            /\ s.version = account.version => account.secret = c.secret
    BY <1>2, <1>3 DEF CodeKept
  <2>2. s.version <= account.version /\ s.version \in Nat
    BY <1>2, SignInNumbers DEF EnrolmentsTold, AccountKept, TypeOK, Setup, Versions
  <2> QED BY <1>1, <2>1, <2>2 DEF Forward
<1>4. ASSUME used[c] > 0, c.secret = account'.secret
      PROVE  /\ c \in Totp => c.step <= account'.step
             /\ c \in Paper => c.paper \notin account'.papers
  <2>1. c.secret # 0 /\ account.secret = c.secret
    BY <1>4, CodesTyped
  <2> QED BY <1>1, <1>2, <1>4, <2>1, CodesTyped DEF CodeKept
<1> QED BY <1>2, <1>3, <1>4 DEF CodeKept

\* No link more.
LEMMA LinkStays ==
  ASSUME AccountKept, Forward, UNCHANGED <<sent, redeemed>>,
         account'.link \in {account.link, NoLink}
  PROVE  LinkKept'
<1>1. account \in Account /\ account.version \in Nat /\ account'.version \in Nat
      /\ account.link \in Link \cup {NoLink}
  BY AccountTyped DEF AccountKept, TypeOK, Forward
<1>2. LinkKept
  BY DEF AccountKept
<1>3. ASSUME account'.link # NoLink
      PROVE  LET l == account'.link IN
             /\ l \in sent /\ l.no = Cardinality(sent) /\ redeemed[l.no] = 0
             /\ l.version <= account'.version
             /\ l.version = account'.version => l.password = account'.password
  <2>1. account'.link = account.link /\ account.link.version \in Nat
    BY <1>1, <1>3, SignInNumbers DEF Link, Versions
  <2> QED BY <1>1, <1>2, <1>3, <2>1 DEF LinkKept, Forward
<1> QED BY <1>2, <1>3 DEF LinkKept

\* Only one request holds the account's lock.
LEMMA OneJudged ==
  ASSUME AccountKept, NEW r \in Requests, pc[r] = "judged"
  PROVE  /\ holder = r /\ request[r] \in Request /\ Stands(request[r])
         /\ \A v \in Requests \ {r} : pc[v] # "judged"
BY DEF AccountKept, TypeOK, RequestKnows

-----------------------------------------------------------------------------
(* Steps that leave the account alone.                                      *)

LEMMA QuietKept ==
  ASSUME AccountKept, NEW r \in Requests, TypeOK', UNCHANGED <<account, sent, sealed, history>>,
         \A v \in Requests \ {r} : pc'[v] = pc[v] /\ request'[v] = request[v],
         \A v \in Requests \ {r} : pc[v] = "judged" => holder' = v,
         \A t \in tokens' : t \in tokens \/ (t \in Token /\ t.version <= account.version
           /\ (t.version = account.version =>
                 t.password = account.password /\ t.secret \in {0, account.secret})),
         RequestKnows(r)'
  PROVE  AccountKept'
<1>1. Forward
  BY QuietForward
<1>2. TokensVouch'
  BY <1>1, TokensStay
<1>3. account.secret \in Nat /\ account.step \in Int /\ account.link = account'.link
  BY AccountTyped DEF AccountKept, TypeOK
<1>4. EnrolmentsTold' /\ LinkKept'
  BY <1>1, EnrolmentsStay, LinkStays DEF history
<1>5. ASSUME NEW c \in Codes PROVE CodeKept(c)'
  BY <1>1, <1>3, CodeStays DEF history
<1>6. ASSUME NEW v \in Requests PROVE RequestKnows(v)'
  <2>1. CASE v = r
    BY <2>1
  <2>2. CASE v # r
    BY <1>1, <2>2, RequestStays
  <2> QED BY <2>1, <2>2
<1> QED BY <1>2, <1>4, <1>5, <1>6 DEF AccountKept

\* A request that puts another record in its place and leaves the rest.
LEMMA NotedTyped ==
  ASSUME AccountKept, NEW r \in Requests, NEW q \in Request \cup {NoRequest},
         NEW at \in {"idle", "password", "factor", "ready", "judged"}, Go(r, at), Note(r, q)
  PROVE  /\ pc' \in [Requests -> {"idle", "password", "factor", "ready", "judged"}]
         /\ request' \in [Requests -> Request \cup {NoRequest}]
         /\ pc'[r] = at /\ request'[r] = q
         /\ \A v \in Requests \ {r} : pc'[v] = pc[v] /\ request'[v] = request[v]
BY DEF AccountKept, TypeOK, Go, Note

LEMMA BlankTyped ==
  /\ Blank \in Request /\ Blank.op = "signIn" /\ Blank.proved = 0 /\ Blank.version = 0
<1>1. 0 \in Versions /\ 0 \in Secrets
  BY SignInNumbers DEF Versions, Secrets
<1> QED BY <1>1 DEF Blank, Request, Ops, Setup, Passwords

LEMMA RefuseKept ==
  ASSUME AccountKept, NEW r \in Requests, Refuse(r) PROVE AccountKept'
<1>1. /\ pc'[r] = "idle"
      /\ pc' \in [Requests -> {"idle", "password", "factor", "ready", "judged"}]
      /\ request' \in [Requests -> Request \cup {NoRequest}]
      /\ \A v \in Requests \ {r} : pc'[v] = pc[v] /\ request'[v] = request[v]
  BY NotedTyped DEF Refuse, Done
<1>2. TypeOK'
  BY <1>1 DEF AccountKept, TypeOK, Refuse, issued, history
<1>3. \A v \in Requests \ {r} : pc[v] = "judged" => holder' = v
  BY OneJudged DEF Refuse
<1>4. RequestKnows(r)'
  BY <1>1 DEF RequestKnows
<1> QED BY <1>1, <1>2, <1>3, <1>4, QuietKept DEF Refuse, issued

LEMMA SignInKept ==
  ASSUME AccountKept, NEW r \in Requests, SignIn(r) PROVE AccountKept'
<1> DEFINE q == [Blank EXCEPT !.version = account.version]
<1>1. account.version \in Versions /\ account.version \in Nat
  BY AccountTyped DEF AccountKept, TypeOK
<1>2. q \in Request /\ q.op = "signIn" /\ q.version = account.version /\ q.proved = 0
  BY <1>1, BlankTyped DEF Request
<1>3. Note(r, q) /\ Go(r, "password")
  BY DEF SignIn
<1> HIDE DEF q
<1>4. /\ pc'[r] = "password" /\ request'[r] = q
      /\ pc' \in [Requests -> {"idle", "password", "factor", "ready", "judged"}]
      /\ request' \in [Requests -> Request \cup {NoRequest}]
      /\ \A v \in Requests \ {r} : pc'[v] = pc[v] /\ request'[v] = request[v]
  BY <1>2, <1>3, NotedTyped
<1>5. TypeOK'
  BY <1>4 DEF AccountKept, TypeOK, SignIn, issued, history
<1>6. UNCHANGED <<account, sent, sealed, tokens, holder, history>>
  BY DEF SignIn, issued
<1>7. RequestKnows(r)'
  BY <1>1, <1>2, <1>4, <1>6, SignInNullsAreNone DEF RequestKnows
<1>8. \A v \in Requests \ {r} : pc[v] = "judged" => holder' = v
  BY <1>6, OneJudged
<1> QED BY <1>4, <1>5, <1>6, <1>7, <1>8, QuietKept

\* What is typed is the password of the row that is read.
LEMMA CheckPasswordKept ==
  ASSUME AccountKept, NEW r \in Requests, CheckPassword(r) PROVE AccountKept'
<1> DEFINE q == [request[r] EXCEPT !.typed = account.password]
<1>1. account.password \in Passwords
  BY AccountTyped DEF AccountKept, TypeOK
<1>2. request[r] \in Request /\ request[r].op = "signIn" /\ RequestKnows(r) /\ pc[r] = "password"
  BY DEF AccountKept, TypeOK, RequestKnows, CheckPassword
<1>3. q \in Request /\ q.op = "signIn" /\ q.version = request[r].version
      /\ q.proved = request[r].proved /\ q.typed = account.password
  BY <1>1, <1>2 DEF Request
<1>4. Note(r, q) /\ Go(r, "factor")
  BY DEF CheckPassword
<1> HIDE DEF q
<1>5. /\ pc'[r] = "factor" /\ request'[r] = q
      /\ pc' \in [Requests -> {"idle", "password", "factor", "ready", "judged"}]
      /\ request' \in [Requests -> Request \cup {NoRequest}]
      /\ \A v \in Requests \ {r} : pc'[v] = pc[v] /\ request'[v] = request[v]
  BY <1>3, <1>4, NotedTyped
<1>6. TypeOK'
  BY <1>5 DEF AccountKept, TypeOK, CheckPassword, issued, history
<1>7. UNCHANGED <<account, sent, sealed, tokens, holder, history>>
  BY DEF CheckPassword, issued
<1>8. RequestKnows(r)'
  BY <1>2, <1>3, <1>5, <1>7, SignInNullsAreNone DEF RequestKnows
<1>9. \A v \in Requests \ {r} : pc[v] = "judged" => holder' = v
  BY <1>7, OneJudged
<1> QED BY <1>5, <1>6, <1>7, <1>8, <1>9, QuietKept

\* Without a second factor the token leaves with the version read first: at
\* that version the password is the one that was typed.
LEMMA AskFactorKept ==
  ASSUME AccountKept, NEW r \in Requests, AskFactor(r) PROVE AccountKept'
<1>1. request[r] \in Request /\ request[r].op = "signIn" /\ RequestKnows(r) /\ pc[r] = "factor"
  BY DEF AccountKept, TypeOK, RequestKnows, AskFactor
<1>2. /\ request[r].version \in Versions /\ request[r].typed \in Passwords
      /\ request[r].version <= account.version
      /\ request[r].version = account.version => request[r].typed = account.password
  BY <1>1, RequestTyped DEF RequestKnows
<1>3. UNCHANGED <<account, sent, sealed, holder, clock, history>>
  BY DEF AskFactor
<1>4. \A v \in Requests \ {r} : pc[v] = "judged" => holder' = v
  BY <1>3, OneJudged
<1>5. CASE Enrolled
  <2>1. PICK c \in Held : Note(r, [request[r] EXCEPT !.code = c])
    BY <1>5 DEF AskFactor
  <2> DEFINE q == [request[r] EXCEPT !.code = c]
  <2>2. c \in Codes
    BY DEF Held
  <2>3. q \in Request /\ q.op = "signIn" /\ q.version = request[r].version
        /\ q.proved = request[r].proved /\ q.typed = request[r].typed
    BY <1>1, <2>2 DEF Request
  <2>4. Note(r, q) /\ Go(r, "ready") /\ tokens' = tokens
    BY <1>5, <2>1 DEF AskFactor
  <2> HIDE DEF q
  <2>5. /\ pc'[r] = "ready" /\ request'[r] = q
        /\ pc' \in [Requests -> {"idle", "password", "factor", "ready", "judged"}]
        /\ request' \in [Requests -> Request \cup {NoRequest}]
        /\ \A v \in Requests \ {r} : pc'[v] = pc[v] /\ request'[v] = request[v]
    BY <2>3, <2>4, NotedTyped
  <2>6. TypeOK'
    BY <1>3, <2>4, <2>5 DEF AccountKept, TypeOK, history
  <2>7. RequestKnows(r)'
    BY <1>1, <1>3, <2>3, <2>5, SignInNullsAreNone DEF RequestKnows
  <2> QED BY <1>3, <1>4, <2>4, <2>5, <2>6, <2>7, QuietKept
<1>6. CASE ~Enrolled
  <2> DEFINE t == TokenOf(r, request[r].version, 0)
  <2>1. t \in Token /\ t.version = request[r].version /\ t.password = request[r].typed /\ t.secret = 0
    BY <1>2, BlankTyped DEF TokenOf, Token, Request
  <2>2. tokens' = tokens \cup {t} /\ Done(r)
    BY <1>6 DEF AskFactor
  <2> HIDE DEF t
  <2>3. /\ pc'[r] = "idle"
        /\ pc' \in [Requests -> {"idle", "password", "factor", "ready", "judged"}]
        /\ request' \in [Requests -> Request \cup {NoRequest}]
        /\ \A v \in Requests \ {r} : pc'[v] = pc[v] /\ request'[v] = request[v]
    BY <2>2, NotedTyped DEF Done
  <2>4. TypeOK'
    BY <1>3, <2>1, <2>2, <2>3 DEF AccountKept, TypeOK, history
  <2>5. RequestKnows(r)'
    BY <2>3 DEF RequestKnows
  <2> QED BY <1>2, <1>3, <1>4, <2>1, <2>2, <2>3, <2>4, <2>5, QuietKept
<1> QED BY <1>5, <1>6

\* A request that is only noted and moved on.
LEMMA NoteKept ==
  ASSUME AccountKept, NEW r \in Requests, NEW q \in Request, NEW at \in {"password", "ready"},
         Go(r, at), Note(r, q), UNCHANGED <<account, holder, issued, clock, history>>,
         q.version <= account.version,
         q.version = account.version =>
           /\ q.proved \in {0, account.secret}
           /\ at = "ready" /\ q.op # "redeem" => q.typed = account.password,
         q.op = "activate" =>
           /\ q.setup \in sealed
           /\ at = "ready" => q.code \in Totp /\ q.code.secret = q.setup.secret,
         q.op = "redeem" => at = "ready" /\ q.link \in sent
  PROVE  AccountKept'
<1>1. /\ pc'[r] = at /\ request'[r] = q
      /\ pc' \in [Requests -> {"idle", "password", "factor", "ready", "judged"}]
      /\ request' \in [Requests -> Request \cup {NoRequest}]
      /\ \A v \in Requests \ {r} : pc'[v] = pc[v] /\ request'[v] = request[v]
  BY NotedTyped
<1>2. TypeOK'
  BY <1>1 DEF AccountKept, TypeOK, issued, history
<1>3. RequestKnows(r)'
  BY <1>1, SignInNullsAreNone DEF RequestKnows, issued
<1>4. \A v \in Requests \ {r} : pc[v] = "judged" => holder' = v
  BY OneJudged
<1> QED BY <1>1, <1>2, <1>3, <1>4, QuietKept DEF issued

\* A session that is let in has the account's version.
LEMMA AdmittedKnows ==
  ASSUME AccountKept, NEW t \in tokens, Admitted(t)
  PROVE  /\ t.version = account.version /\ t.version \in Versions /\ t.version \in Nat
         /\ t.secret \in {0, account.secret} /\ t.secret \in Secrets
BY SignInNumbers DEF Admitted, AccountKept, TypeOK, TokensVouch, Token, Versions

LEMMA ActivateKept ==
  ASSUME AccountKept, NEW r \in Requests, NEW t \in tokens, NEW s \in sealed, Activate(r, t, s)
  PROVE  AccountKept'
<1> DEFINE q == [Blank EXCEPT !.op = "activate", !.version = t.version, !.setup = s]
<1>1. t.version = account.version /\ t.version \in Versions /\ t.version \in Nat /\ s \in Setup
  BY AdmittedKnows DEF Activate, AccountKept, TypeOK
<1>2. /\ q \in Request /\ q.op = "activate" /\ q.version = t.version /\ q.proved = 0 /\ q.setup = s
  BY <1>1, BlankTyped DEF Request, Ops
<1>3. Note(r, q) /\ Go(r, "password")
  BY DEF Activate
<1> HIDE DEF q
<1> QED BY <1>1, <1>2, <1>3, NoteKept DEF Activate

LEMMA OwnChangeKept ==
  ASSUME AccountKept, NEW r \in Requests, NEW t \in tokens, NEW op \in {"change", "disable"},
         OwnChange(r, op, t)
  PROVE  AccountKept'
<1> DEFINE proved == IF op = "change" THEN t.secret ELSE 0
           q == [Blank EXCEPT !.op = op, !.version = t.version, !.proved = proved]
<1>1. /\ t.version = account.version /\ t.version \in Versions /\ t.version \in Nat
      /\ proved \in {0, account.secret} /\ proved \in Secrets
  BY AdmittedKnows, SignInNumbers DEF OwnChange, Secrets
<1>2. Note(r, q) /\ Go(r, "password")
  BY DEF OwnChange
<1> HIDE DEF proved
<1>3. q \in Request /\ q.op = op /\ q.version = t.version /\ q.proved = proved
  BY <1>1, BlankTyped DEF Request, Ops
<1> HIDE DEF q
<1> QED BY <1>1, <1>2, <1>3, NoteKept DEF OwnChange

LEMMA CheckOwnKept ==
  ASSUME AccountKept, NEW r \in Requests, NEW c \in Held \cup {NoCode}, CheckOwn(r, c)
  PROVE  AccountKept'
<1> DEFINE q == [request[r] EXCEPT !.typed = account.password, !.code = c]
<1>1. account.password \in Passwords /\ c \in Codes \cup {NoCode}
  BY AccountTyped DEF AccountKept, TypeOK, Held
<1>2. request[r] \in Request /\ RequestKnows(r) /\ pc[r] = "password"
  BY DEF AccountKept, TypeOK, RequestKnows, CheckOwn
<1>3. /\ request[r].op \in {"activate", "disable", "change"}
      /\ request[r].op = "activate" => c \in Totp /\ c.secret = request[r].setup.secret
  BY DEF CheckOwn, Matches
<1>4. /\ q \in Request /\ q.op = request[r].op /\ q.version = request[r].version
      /\ q.proved = request[r].proved /\ q.typed = account.password /\ q.code = c
      /\ q.setup = request[r].setup
  BY <1>1, <1>2 DEF Request
<1>5. Note(r, q) /\ Go(r, "ready")
  BY DEF CheckOwn
<1> HIDE DEF q
<1>6. /\ q.version <= account.version
      /\ q.version = account.version => q.proved \in {0, account.secret}
      /\ q.op = "activate" => q.setup \in sealed
  BY <1>2, <1>4 DEF RequestKnows
<1> QED BY <1>3, <1>4, <1>5, <1>6, NoteKept DEF CheckOwn

LEMMA RedeemKept ==
  ASSUME AccountKept, NEW r \in Requests, NEW l \in sent, Redeem(r, l) PROVE AccountKept'
<1> DEFINE q == [Blank EXCEPT !.op = "redeem", !.link = l]
<1>1. l \in Link /\ account.version \in Nat
  BY AccountTyped DEF AccountKept, TypeOK
<1>2. q \in Request /\ q.op = "redeem" /\ q.version = 0 /\ q.proved = 0 /\ q.link = l
  BY <1>1, BlankTyped DEF Request, Ops
<1>3. Note(r, q) /\ Go(r, "ready")
  BY DEF Redeem
<1> HIDE DEF q
<1> QED BY <1>1, <1>2, <1>3, NoteKept DEF Redeem

\* What is checked under the lock stands when the write commits.
LEMMA JudgeKept ==
  ASSUME AccountKept, NEW r \in Requests, Judge(r) PROVE AccountKept'
<1>1. /\ request[r] \in Request /\ RequestKnows(r) /\ pc[r] = "ready" /\ MayCommit(request[r])
      /\ UNCHANGED <<account, request, issued, clock, history>>
  BY DEF AccountKept, TypeOK, RequestKnows, Judge
<1>2. /\ pc'[r] = "judged" /\ \A v \in Requests \ {r} : pc'[v] = pc[v]
      /\ pc' \in [Requests -> {"idle", "password", "factor", "ready", "judged"}]
  BY DEF AccountKept, TypeOK, Judge, Go
<1>3. \A v \in Requests : pc[v] # "judged"
  BY OneJudged, SignInNulls DEF Judge, Unlocked
<1>4. holder' = r
  BY DEF Judge
<1>5. TypeOK'
  BY <1>1, <1>2, <1>4 DEF AccountKept, TypeOK, issued, history
<1>6. Stands(request[r])
  <2> DEFINE q == request[r]
  <2>1. CASE q.op \in {"signIn", "disable"}
    <3>1. q.version = account.version /\ Accepts(q.code)
      BY <1>1, <2>1 DEF MayCommit
    <3>2. q.code \in Codes /\ Enrolled /\ q.code.secret = account.secret
      BY <3>1 DEF Accepts, Matches, Codes
    <3>3. q.code \in Totp => q.code.step > account.step
      BY <3>1, CodesApart DEF Accepts
    <3>4. q.code \in Paper => q.code.paper \in account.papers
      BY <3>1, CodesApart DEF Accepts, Matches
    <3> QED BY <2>1, <3>1, <3>2, <3>3, <3>4 DEF Stands
  <2>2. CASE q.op = "activate"
    BY <1>1, <2>2 DEF MayCommit, Stands
  <2>3. CASE q.op = "change"
    BY <1>1, <2>3 DEF MayCommit, Stands
  <2>4. CASE q.op = "redeem"
    BY <1>1, <2>4 DEF MayCommit, Stands, LinkMatches
  <2> QED BY <1>1, <2>1, <2>2, <2>3, <2>4, RequestTyped DEF Ops
<1>7. RequestKnows(r)'
  BY <1>1, <1>2, <1>4, <1>6 DEF RequestKnows, Stands, Enrolled, issued
<1> QED BY <1>1, <1>2, <1>3, <1>5, <1>7, QuietKept DEF issued

LEMMA TickKept == ASSUME AccountKept, Tick PROVE AccountKept'
<1>1. TypeOK'
  BY SignInNumbers DEF AccountKept, TypeOK, Tick, work, issued, history
<1>2. Forward /\ account' = account
  BY QuietForward DEF Tick
<1>3. TokensVouch' /\ EnrolmentsTold' /\ LinkKept'
  BY <1>2, TokensStay, EnrolmentsStay, LinkStays DEF Tick, issued, history
<1>4. ASSUME NEW c \in Codes PROVE CodeKept(c)'
  BY <1>2, CodeStays, AccountTyped DEF AccountKept, TypeOK, Tick, issued, history
<1>5. ASSUME NEW r \in Requests PROVE RequestKnows(r)'
  BY <1>2, RequestStays, OneJudged DEF Tick, work, issued
<1> QED BY <1>1, <1>3, <1>4, <1>5 DEF AccountKept

LEMMA StutterKept == ASSUME AccountKept, UNCHANGED vars PROVE AccountKept'
<1>1. TypeOK'
  BY DEF AccountKept, TypeOK, vars, work, issued, history
<1>2. Forward /\ account' = account
  BY QuietForward DEF vars
<1>3. TokensVouch' /\ EnrolmentsTold' /\ LinkKept'
  BY <1>2, TokensStay, EnrolmentsStay, LinkStays DEF vars, issued, history
<1>4. ASSUME NEW c \in Codes PROVE CodeKept(c)'
  BY <1>2, CodeStays, AccountTyped DEF AccountKept, TypeOK, vars, issued, history
<1>5. ASSUME NEW r \in Requests PROVE RequestKnows(r)'
  BY <1>2, RequestStays, OneJudged DEF vars, work, issued
<1> QED BY <1>1, <1>3, <1>4, <1>5 DEF AccountKept

\* A new enrolment is the only one with its secret.
LEMMA SetUpKept == ASSUME AccountKept, SetUp PROVE AccountKept'
<1> DEFINE n == Cardinality(sealed)
           s == [secret |-> n + 1, version |-> account.version, expires |-> clock + EnrolTTL]
<1>1. /\ UNCHANGED <<account, holder, work, tokens, sent, clock, history>>
      /\ sealed' = sealed \cup {s} /\ n < MaxSecrets
  BY DEF SetUp
<1>2. IsFiniteSet(sealed) /\ n \in Nat /\ EnrolmentsTold
  BY FS_CardinalityType DEF AccountKept, EnrolmentsTold
<1>3. s \in Setup /\ s.secret = n + 1 /\ s.version = account.version
  BY <1>1, <1>2, SignInNumbers, AccountTyped DEF AccountKept, TypeOK, Setup, Secrets
<1>4. s \notin sealed
  BY <1>2, <1>3 DEF EnrolmentsTold
<1> HIDE DEF s
<1>5. IsFiniteSet(sealed') /\ Cardinality(sealed') = n + 1
  BY <1>1, <1>2, <1>4, FS_AddElement
<1>6. TypeOK'
  BY <1>1, <1>3 DEF AccountKept, TypeOK, work, history
<1>7. account.version \in Nat /\ Forward
  BY <1>1, AccountTyped, QuietForward DEF AccountKept, TypeOK
<1>8. EnrolmentsTold'
  <2>1. \A z \in sealed : z.secret \in 1..n
    BY <1>2 DEF EnrolmentsTold
  <2>2. \A z \in sealed' : z.secret \in 1..(n + 1) /\ z.version <= account.version
    BY <1>1, <1>2, <1>3, <1>7, <2>1 DEF EnrolmentsTold
  <2>3. \A y, z \in sealed' : y.secret = z.secret => y = z
    BY <1>1, <1>2, <1>3, <2>1 DEF EnrolmentsTold
  <2> QED BY <1>1, <1>2, <1>5, <2>2, <2>3 DEF EnrolmentsTold, Enrolled
<1>9. ASSUME NEW c \in Codes PROVE CodeKept(c)'
  BY <1>1, <1>7, CodeStays, AccountTyped DEF AccountKept, TypeOK, history
<1>10. ASSUME NEW r \in Requests PROVE RequestKnows(r)'
  BY <1>1, <1>7, RequestStays, OneJudged DEF work
<1>11. TokensVouch' /\ LinkKept'
  BY <1>1, <1>7, TokensStay, LinkStays DEF history
<1> QED BY <1>6, <1>8, <1>9, <1>10, <1>11 DEF AccountKept

-----------------------------------------------------------------------------
(* Transactions of requests.                                                *)

LEMMA EndKept ==
  ASSUME AccountKept, NEW r \in Requests, pc[r] = "judged", Done(r), holder' = Nobody, Forward,
         UNCHANGED <<sent, sealed, clock>>, used' \in [Codes -> Nat],
         redeemed' \in [1..MaxLinks -> Nat],
         \A t \in tokens' : t \in tokens \/ (t \in Token /\ t.version <= account'.version
           /\ (t.version = account'.version =>
                 t.password = account'.password /\ t.secret \in {0, account'.secret})),
         EnrolmentsTold', LinkKept', \A c \in Codes : CodeKept(c)'
  PROVE  AccountKept'
<1>1. /\ pc'[r] = "idle"
      /\ pc' \in [Requests -> {"idle", "password", "factor", "ready", "judged"}]
      /\ request' \in [Requests -> Request \cup {NoRequest}]
      /\ \A v \in Requests \ {r} : pc'[v] = pc[v] /\ request'[v] = request[v]
  BY NotedTyped DEF Done
<1>2. TypeOK'
  BY <1>1 DEF AccountKept, TypeOK, Forward
<1>3. ASSUME NEW v \in Requests PROVE RequestKnows(v)'
  <2>1. CASE v = r
    BY <1>1, <2>1 DEF RequestKnows
  <2>2. CASE v # r
    BY <1>1, <2>2, OneJudged, RequestStays
  <2> QED BY <2>1, <2>2
<1>4. TokensVouch'
  BY TokensStay
<1> QED BY <1>2, <1>3, <1>4 DEF AccountKept

\* A second factor that is accepted under the lock was not before.
LEMMA FactorFresh ==
  ASSUME AccountKept, NEW r \in Requests, pc[r] = "judged", request[r].op \in {"signIn", "disable"}
  PROVE  LET c == request[r].code IN
         /\ c \in Codes /\ used[c] = 0 /\ c.secret = account.secret /\ Enrolled
         /\ c \in Totp => c.step > account.step /\ c.step \in Steps
         /\ c \notin Totp => c \in Paper /\ c.paper \in account.papers
         /\ request[r].version = account.version /\ request[r].typed = account.password
<1> DEFINE c == request[r].code
<1>1. Stands(request[r]) /\ request[r] \in Request /\ RequestKnows(r)
  BY OneJudged DEF AccountKept
<1>2. /\ c \in Codes /\ c.secret = account.secret /\ Enrolled
      /\ c \in Totp => c.step > account.step
      /\ c \in Paper => c.paper \in account.papers
      /\ request[r].version = account.version
  BY <1>1 DEF Stands
<1>3. c.step \in Int \/ c \notin Totp
  BY <1>2, CodesTyped
<1>4. account.step \in Int
  BY AccountTyped DEF AccountKept, TypeOK
<1>5. CodeKept(c) /\ used[c] \in Nat
  BY <1>2 DEF AccountKept, TypeOK
<1>6. used[c] = 0
  BY <1>2, <1>3, <1>4, <1>5, CodesTyped DEF CodeKept
<1>7. request[r].typed = account.password
  BY <1>1, <1>2 DEF RequestKnows
<1> QED BY <1>2, <1>6, <1>7, CodesTyped

LEMMA UseTyped ==
  ASSUME AccountKept, NEW c \in Codes, Use(c)
  PROVE  /\ used' \in [Codes -> Nat] /\ used'[c] = used[c] + 1
         /\ \A d \in Codes \ {c} : used'[d] = used[d]
BY DEF AccountKept, TypeOK, Use

LEMMA CommitSignInKept ==
  ASSUME AccountKept, NEW r \in Requests, CommitSignIn(r) PROVE AccountKept'
<1> DEFINE c == request[r].code
           t == TokenOf(r, request[r].version, account.secret)
<1>1. /\ pc[r] = "judged" /\ request[r].op = "signIn" /\ Done(r) /\ holder' = Nobody
      /\ UNCHANGED <<sent, sealed, clock, redeemed>>
      /\ account' = Consumed(c) /\ Use(c) /\ tokens' = tokens \cup {t}
  BY DEF CommitSignIn, Committing, Answer
<1>2. /\ c \in Codes /\ used[c] = 0 /\ c.secret = account.secret /\ Enrolled
      /\ c \in Totp => c.step > account.step /\ c.step \in Steps
      /\ c \notin Totp => c \in Paper /\ c.paper \in account.papers
      /\ request[r].version = account.version /\ request[r].typed = account.password
  BY <1>1, FactorFresh
<1>3. account \in Account
  BY DEF AccountKept, TypeOK
<1>4. /\ account' \in Account /\ account'.version = account.version
      /\ account'.password = account.password /\ account'.secret = account.secret
      /\ account'.link = account.link
      /\ c \in Totp => account'.step = c.step /\ account'.papers = account.papers
      /\ c \notin Totp => account'.step = account.step /\ account'.papers = account.papers \ {c.paper}
  BY <1>1, <1>2, <1>3 DEF Account, Consumed
<1>5. /\ account.version \in Nat /\ account.version \in Versions /\ account.secret \in Secrets
      /\ account.password \in Passwords /\ account.step \in Int
  BY <1>3, AccountTyped
<1>6. Forward
  BY <1>4, <1>5 DEF Forward
<1>7. /\ used' \in [Codes -> Nat] /\ used'[c] = 1
      /\ \A d \in Codes \ {c} : used'[d] = used[d]
  BY <1>1, <1>2, UseTyped
<1>8. t \in Token /\ t.version = account'.version /\ t.password = account'.password
      /\ t.secret = account'.secret
  BY <1>2, <1>4, <1>5 DEF TokenOf, Token
<1>9. EnrolmentsTold' /\ LinkKept'
  BY <1>1, <1>4, <1>6, EnrolmentsStay, LinkStays
<1> HIDE DEF t
<1>10. ASSUME NEW d \in Codes PROVE CodeKept(d)'
  <2>1. CASE d = c
    <3>1. \E s \in sealed : s.secret = c.secret
      BY <1>2 DEF AccountKept, EnrolmentsTold
    <3>2. c \in Totp => c.step <= account'.step
      BY <1>2, <1>4, CodesTyped
    <3>3. c \in Paper => c.paper \notin account'.papers
      BY <1>4, CodesApart
    <3> QED BY <1>1, <1>2, <1>4, <1>7, <2>1, <3>1, <3>2, <3>3 DEF CodeKept
  <2>2. CASE d # c
    <3>1. account'.step >= account.step /\ account'.papers \subseteq account.papers
      BY <1>2, <1>4, <1>5, CodesTyped
    <3> QED BY <1>1, <1>4, <1>6, <1>7, <2>2, <3>1, CodeStays
  <2> QED BY <2>1, <2>2
<1>11. redeemed' \in [1..MaxLinks -> Nat]
  BY <1>1 DEF AccountKept, TypeOK
<1>12. \A u \in tokens' : u \in tokens \/ (u \in Token /\ u.version <= account'.version
           /\ (u.version = account'.version =>
                 u.password = account'.password /\ u.secret \in {0, account'.secret}))
  BY <1>1, <1>4, <1>5, <1>8
<1> QED BY <1>1, <1>6, <1>7, <1>9, <1>10, <1>11, <1>12, EndKept

\* An enrolment that is activated never was before: at its version the
\* account has no second factor.
LEMMA CommitActivationKept ==
  ASSUME AccountKept, NEW r \in Requests, CommitActivation(r) PROVE AccountKept'
<1> DEFINE q == request[r]
           c == q.code
           t == TokenOf(r, q.version, q.setup.secret)
<1>1. /\ pc[r] = "judged" /\ q.op = "activate" /\ Done(r) /\ holder' = Nobody
      /\ UNCHANGED <<sent, sealed, clock, redeemed>> /\ Use(c) /\ tokens' = tokens \cup {t}
      /\ account' = [account EXCEPT !.secret = q.setup.secret, !.step = c.step, !.papers = Recovery]
  BY DEF CommitActivation, Committing, Answer
<1>2. Stands(q) /\ q \in Request /\ RequestKnows(r) /\ account \in Account
  BY <1>1, OneJudged DEF AccountKept, TypeOK
<1>3. ~Enrolled /\ q.version = account.version /\ q.setup.version = account.version
  BY <1>1, <1>2 DEF Stands
<1>4. /\ q.setup \in sealed /\ c \in Totp /\ c.secret = q.setup.secret
      /\ q.typed = account.password
  BY <1>1, <1>2, <1>3 DEF RequestKnows
<1>5. c \in Codes /\ c.secret \in Secrets /\ c.secret # 0 /\ c.step \in Steps /\ c.step \in Nat
  BY <1>4, CodesTyped DEF Codes
<1>6. /\ account.version \in Nat /\ account.version \in Versions /\ account.password \in Passwords
      /\ account.secret = 0
  BY <1>2, <1>3, AccountTyped DEF Enrolled
<1>7. /\ account' \in Account /\ account'.version = account.version
      /\ account'.password = account.password /\ account'.secret = c.secret
      /\ account'.link = account.link /\ account'.step = c.step
  BY <1>1, <1>2, <1>4, <1>5 DEF Account
<1>8. Forward
  BY <1>6, <1>7 DEF Forward
<1>9. t \in Token /\ t.version = account'.version /\ t.password = account'.password
      /\ t.secret = account'.secret
  BY <1>3, <1>4, <1>5, <1>6, <1>7 DEF TokenOf, Token
<1> HIDE DEF t
<1>10. EnrolmentsTold'
  BY <1>1, <1>4, <1>7 DEF AccountKept, EnrolmentsTold, Enrolled
<1>11. LinkKept'
  BY <1>1, <1>7, <1>8, LinkStays
<1>12. \A d \in Codes : d.secret = c.secret => used[d] = 0
  <2> SUFFICES ASSUME NEW d \in Codes, d.secret = c.secret, used[d] > 0 PROVE FALSE
    BY DEF AccountKept, TypeOK
  <2>1. PICK s \in sealed : /\ s.secret = d.secret
                            /\ s.version = account.version => account.secret = d.secret
    BY DEF AccountKept, CodeKept
  <2>2. s = q.setup
    BY <1>4, <2>1 DEF AccountKept, EnrolmentsTold
  <2> QED BY <1>3, <1>5, <1>6, <2>1, <2>2
<1>13. /\ used' \in [Codes -> Nat] /\ used'[c] = 1
       /\ \A d \in Codes \ {c} : used'[d] = used[d]
  BY <1>1, <1>5, <1>12, UseTyped
<1>14. ASSUME NEW d \in Codes PROVE CodeKept(d)'
  <2>1. CASE d = c
    BY <1>1, <1>4, <1>5, <1>7, <1>13, <2>1, CodesApart DEF CodeKept
  <2>2. CASE d # c /\ d.secret = c.secret
    BY <1>12, <1>13, <2>2 DEF CodeKept
  <2>3. CASE d # c /\ d.secret # c.secret
    <3>1. used'[d] = used[d] /\ CodeKept(d)
      BY <1>13, <2>3 DEF AccountKept
    <3>2. ASSUME used[d] > 0
          PROVE  \E s \in sealed : /\ s.secret = d.secret
                                   /\ s.version = account'.version => account'.secret = d.secret
      <4>1. PICK s \in sealed : /\ s.secret = d.secret
                                /\ s.version = account.version => account.secret = d.secret
        BY <3>1, <3>2 DEF CodeKept
      <4>2. s.version # account.version
        BY <1>6, <4>1, CodesTyped
      <4> QED BY <1>7, <4>1, <4>2
    <3> QED BY <1>1, <1>7, <2>3, <3>1, <3>2 DEF CodeKept
  <2> QED BY <2>1, <2>2, <2>3
<1>15. redeemed' \in [1..MaxLinks -> Nat]
  BY <1>1 DEF AccountKept, TypeOK
<1>16. \A u \in tokens' : u \in tokens \/ (u \in Token /\ u.version <= account'.version
           /\ (u.version = account'.version =>
                 u.password = account'.password /\ u.secret \in {0, account'.secret}))
  BY <1>1, <1>6, <1>7, <1>9
<1> QED BY <1>1, <1>8, <1>10, <1>11, <1>13, <1>14, <1>15, <1>16, EndKept

\* The rows that a raised version goes with.
LEMMA RowsTyped ==
  ASSUME NEW row \in Account, MayBump, account \in Account
  PROVE  /\ Bumped \in Versions /\ Bumped \in Nat /\ Bumped \in Passwords
         /\ NoFactor(row) \in Account /\ NoFactor(row).version = Bumped
         /\ NoFactor(row).secret = 0 /\ NoFactor(row).link = row.link
         /\ NewPassword(row) \in Account /\ NewPassword(row).version = Bumped
         /\ NewPassword(row).password = Bumped /\ NewPassword(row).secret = row.secret
         /\ NewPassword(row).step = row.step /\ NewPassword(row).papers = row.papers
         /\ NewPassword(row).link = row.link
<1>1. Bumped \in Versions /\ Bumped \in Nat /\ Bumped \in Passwords /\ 0 \in Secrets
  BY SignInNumbers, AccountTyped DEF Bumped, MayBump, Versions, Passwords, Secrets
<1>2. /\ NoFactor(row) \in Account /\ NoFactor(row).version = Bumped
      /\ NoFactor(row).secret = 0 /\ NoFactor(row).link = row.link
  BY <1>1 DEF NoFactor, Account
<1>3. /\ NewPassword(row) \in Account /\ NewPassword(row).version = Bumped
      /\ NewPassword(row).password = Bumped /\ NewPassword(row).secret = row.secret
      /\ NewPassword(row).step = row.step /\ NewPassword(row).papers = row.papers
      /\ NewPassword(row).link = row.link
  BY <1>1 DEF NewPassword, Account
<1> QED BY <1>1, <1>2, <1>3

LEMMA BumpForward ==
  ASSUME AccountKept, account' \in Account, account'.version = Bumped
  PROVE  Forward /\ account'.version # account.version
BY AccountTyped DEF Forward, Bumped, AccountKept, TypeOK

LEMMA CommitDisablingKept ==
  ASSUME AccountKept, NEW r \in Requests, CommitDisabling(r) PROVE AccountKept'
<1> DEFINE c == request[r].code
           t == TokenOf(r, Bumped, 0)
<1>1. /\ pc[r] = "judged" /\ request[r].op = "disable" /\ Done(r) /\ holder' = Nobody
      /\ UNCHANGED <<sent, sealed, clock, redeemed>> /\ MayBump
      /\ account' = NoFactor(account) /\ Use(c) /\ tokens' = tokens \cup {t}
  BY DEF CommitDisabling, Committing, Answer
<1>2. /\ c \in Codes /\ used[c] = 0 /\ c.secret = account.secret /\ Enrolled
      /\ request[r].typed = account.password
  BY <1>1, FactorFresh
<1>3. account \in Account /\ account.password \in Passwords /\ account.version \in Nat
  BY AccountTyped DEF AccountKept, TypeOK
<1>4. /\ account' \in Account /\ account'.version = Bumped /\ Bumped \in Versions /\ Bumped \in Nat
      /\ account'.secret = 0 /\ account'.link = account.link
      /\ account'.password = account.password
  BY <1>1, <1>3, RowsTyped DEF NoFactor, Account
<1>5. Forward /\ account'.version # account.version
  BY <1>4, BumpForward
<1>6. /\ used' \in [Codes -> Nat] /\ used'[c] = 1
      /\ \A d \in Codes \ {c} : used'[d] = used[d]
  BY <1>1, <1>2, UseTyped
<1>7. t \in Token /\ t.version = account'.version /\ t.password = account'.password /\ t.secret = 0
  BY <1>2, <1>3, <1>4, BlankTyped DEF TokenOf, Token, Request
<1> HIDE DEF t
<1>8. EnrolmentsTold' /\ LinkKept'
  BY <1>1, <1>4, <1>5, EnrolmentsStay, LinkStays
<1>9. ASSUME NEW d \in Codes PROVE CodeKept(d)'
  <2>1. CASE d = c
    <3>1. PICK s \in sealed : s.secret = c.secret
      BY <1>2 DEF AccountKept, EnrolmentsTold
    <3>2. s.version <= account.version /\ s.version \in Nat
      BY SignInNumbers DEF AccountKept, EnrolmentsTold, TypeOK, Setup, Versions
    <3>3. s.version # account'.version
      BY <1>3, <1>4, <3>2 DEF Bumped
    <3> QED BY <1>1, <1>2, <1>4, <1>6, <2>1, <3>1, <3>3, CodesTyped DEF CodeKept
  <2>2. CASE d # c
    BY <1>1, <1>4, <1>5, <1>6, <2>2, CodeStays
  <2> QED BY <2>1, <2>2
<1>10. redeemed' \in [1..MaxLinks -> Nat]
  BY <1>1 DEF AccountKept, TypeOK
<1>11. \A u \in tokens' : u \in tokens \/ (u \in Token /\ u.version <= account'.version
           /\ (u.version = account'.version =>
                 u.password = account'.password /\ u.secret \in {0, account'.secret}))
  BY <1>1, <1>4, <1>7
<1> QED BY <1>1, <1>5, <1>6, <1>8, <1>9, <1>10, <1>11, EndKept

LEMMA CommitPasswordKept ==
  ASSUME AccountKept, NEW r \in Requests, CommitPassword(r) PROVE AccountKept'
<1> DEFINE q == request[r]
           t == [version |-> Bumped, password |-> Bumped, secret |-> q.proved]
<1>1. /\ pc[r] = "judged" /\ q.op = "change" /\ Done(r) /\ holder' = Nobody
      /\ UNCHANGED <<sent, sealed, clock, used, redeemed>> /\ MayBump
      /\ account' = NewPassword(account) /\ tokens' = tokens \cup {t}
  BY DEF CommitPassword, Committing, Answer, history
<1>2. Stands(q) /\ q \in Request /\ RequestKnows(r) /\ account \in Account
  BY <1>1, OneJudged DEF AccountKept, TypeOK
<1>3. q.proved \in {0, account.secret} /\ q.proved \in Secrets
  BY <1>1, <1>2, RequestTyped DEF Stands, RequestKnows
<1>4. /\ account' \in Account /\ account'.version = Bumped /\ Bumped \in Versions
      /\ Bumped \in Nat /\ Bumped \in Passwords /\ account'.password = Bumped
      /\ account'.secret = account.secret /\ account'.step = account.step
      /\ account'.papers = account.papers /\ account'.link = account.link
  BY <1>1, <1>2, RowsTyped
<1>5. Forward /\ account'.version # account.version /\ account.step \in Int
  BY <1>2, <1>4, BumpForward, AccountTyped
<1>6. t \in Token /\ t.version = account'.version /\ t.password = account'.password
      /\ t.secret \in {0, account'.secret}
  BY <1>3, <1>4 DEF Token
<1> HIDE DEF t
<1>7. EnrolmentsTold' /\ LinkKept'
  BY <1>1, <1>4, <1>5, EnrolmentsStay, LinkStays
<1>8. \A d \in Codes : CodeKept(d)'
  BY <1>1, <1>4, <1>5, CodeStays
<1>9. redeemed' \in [1..MaxLinks -> Nat] /\ used' \in [Codes -> Nat]
  BY <1>1 DEF AccountKept, TypeOK
<1>10. \A u \in tokens' : u \in tokens \/ (u \in Token /\ u.version <= account'.version
           /\ (u.version = account'.version =>
                 u.password = account'.password /\ u.secret \in {0, account'.secret}))
  BY <1>1, <1>4, <1>6
<1> QED BY <1>1, <1>5, <1>7, <1>8, <1>9, <1>10, EndKept

LEMMA CommitRedemptionKept ==
  ASSUME AccountKept, NEW r \in Requests, CommitRedemption(r) PROVE AccountKept'
<1> DEFINE l == request[r].link
           row == NewPassword(account)
<1>1. /\ pc[r] = "judged" /\ request[r].op = "redeem" /\ Done(r) /\ holder' = Nobody
      /\ UNCHANGED <<sent, sealed, clock, used, tokens>> /\ MayBump
      /\ account' = [row EXCEPT !.link = NoLink]
      /\ redeemed' = [redeemed EXCEPT ![l.no] = @ + 1]
  BY DEF CommitRedemption, Committing
<1>2. Stands(request[r]) /\ RequestKnows(r) /\ account \in Account
  BY <1>1, OneJudged DEF AccountKept, TypeOK
<1>3. l \in sent /\ l \in Link /\ l # NoLink /\ account.link = l /\ l.no \in 1..MaxLinks
  BY <1>1, <1>2, SignInNullsAreNone DEF RequestKnows, Stands, AccountKept, TypeOK, Link
<1>4. /\ row \in Account /\ row.version = Bumped /\ row.secret = account.secret
      /\ row.step = account.step /\ row.papers = account.papers
  BY <1>1, <1>2, RowsTyped
<1>5. /\ account' \in Account /\ account'.version = Bumped /\ account'.secret = account.secret
      /\ account'.step = account.step /\ account'.papers = account.papers /\ account'.link = NoLink
  BY <1>1, <1>4 DEF Account
<1>6. Forward /\ account'.version # account.version /\ account.step \in Int
  BY <1>2, <1>5, BumpForward, AccountTyped
<1>7. EnrolmentsTold'
  BY <1>1, <1>5, <1>6, EnrolmentsStay
<1>8. \A d \in Codes : CodeKept(d)'
  BY <1>1, <1>5, <1>6, CodeStays
<1>9. redeemed' \in [1..MaxLinks -> Nat] /\ used' \in [Codes -> Nat]
  <2>1. redeemed \in [1..MaxLinks -> Nat] /\ redeemed[l.no] \in Nat
    BY <1>3 DEF AccountKept, TypeOK
  <2> DEFINE more == redeemed[l.no] + 1
  <2>2. more \in Nat /\ redeemed' = [redeemed EXCEPT ![l.no] = more]
    BY <1>1, <2>1
  <2> HIDE DEF more, l
  <2>3. redeemed' \in [1..MaxLinks -> Nat]
    BY <2>1, <2>2
  <2> QED BY <1>1, <2>3 DEF AccountKept, TypeOK
<1>10. LinkKept'
  <2>1. LinkKept /\ l.no = Cardinality(sent) /\ redeemed[l.no] = 0
    BY <1>3 DEF AccountKept, LinkKept
  <2>2. /\ redeemed'[l.no] = 1
        /\ \A n \in (1..MaxLinks) \ {l.no} : redeemed'[n] = redeemed[n]
    BY <1>1, <1>3, <2>1 DEF AccountKept, TypeOK
  <2>3. l.no \in Nat
    BY <1>3
  <2>4. \A n \in 1..MaxLinks : redeemed'[n] <= 1 /\ (n > Cardinality(sent) => redeemed'[n] = 0)
    BY <2>1, <2>2, <2>3 DEF LinkKept
  <2> QED BY <1>1, <1>5, <2>1, <2>4 DEF LinkKept
<1> QED BY <1>1, <1>6, <1>7, <1>8, <1>9, <1>10, EndKept

-----------------------------------------------------------------------------
(* Other writers of the row.                                                *)

LEMMA ElsewhereKept ==
  ASSUME AccountKept, Elsewhere, Forward, sent \subseteq sent', sent' \subseteq Link, LinkKept',
         account'.secret \in {0, account.secret},
         account'.version = account.version => account'.secret = account.secret,
         account'.secret # 0 => account'.step >= account.step /\ account'.papers \subseteq account.papers
  PROVE  AccountKept'
<1>1. UNCHANGED <<holder, work, tokens, sealed, clock, history>> /\ Unlocked
  BY DEF Elsewhere
<1>2. TypeOK'
  BY <1>1 DEF AccountKept, TypeOK, Forward, work, history
<1>3. TokensVouch' /\ EnrolmentsTold'
  BY <1>1, TokensStay, EnrolmentsStay
<1>4. ASSUME NEW c \in Codes PROVE CodeKept(c)'
  BY <1>1, CodeStays DEF history
<1>5. \A r \in Requests : pc[r] # "judged"
  BY <1>1, OneJudged, SignInNulls DEF Unlocked
<1>6. ASSUME NEW r \in Requests PROVE RequestKnows(r)'
  BY <1>1, <1>5, RequestStays DEF work
<1> QED BY <1>2, <1>3, <1>4, <1>6 DEF AccountKept

LEMMA OthersKept == ASSUME AccountKept, Others PROVE AccountKept'
<1>1. /\ account \in Account /\ account.version \in Nat /\ account.step \in Int
      /\ account.version \in Versions /\ account.password \in Passwords /\ sent \subseteq Link
  BY AccountTyped DEF AccountKept, TypeOK
<1>2. CASE SendLink
  <2> DEFINE n == Cardinality(sent)
             l == [no |-> n + 1, expires |-> clock + LinkTTL,
                   version |-> account.version, password |-> account.password]
  <2>1. /\ Elsewhere /\ n < MaxLinks /\ account' = [account EXCEPT !.link = l]
        /\ sent' = sent \cup {l} /\ UNCHANGED <<clock, redeemed>>
    BY <1>2 DEF SendLink, Elsewhere, history
  <2>2. IsFiniteSet(sent) /\ n \in Nat /\ LinkKept
    BY FS_CardinalityType DEF AccountKept, LinkKept
  <2>3. clock + LinkTTL \in Nat
    BY SignInNumbers DEF AccountKept, TypeOK
  <2>4. /\ l \in Link /\ l.no = n + 1 /\ l.version = account.version
        /\ l.password = account.password /\ l.no \in 1..MaxLinks
    BY <1>1, <2>1, <2>2, <2>3, SignInNumbers DEF Link
  <2> HIDE DEF l
  <2>5. l \notin sent /\ \A k \in sent : k.no \in Nat
    BY <1>1, <2>2, <2>4, SignInNumbers DEF LinkKept, Link
  <2>6. IsFiniteSet(sent') /\ Cardinality(sent') = n + 1
    BY <2>1, <2>2, <2>5, FS_AddElement
  <2>7. /\ account' \in Account /\ account'.link = l /\ account'.version = account.version
        /\ account'.password = account.password /\ account'.secret = account.secret
        /\ account'.step = account.step /\ account'.papers = account.papers
    BY <1>1, <2>1, <2>4 DEF Account
  <2>8. Forward
    BY <1>1, <2>7 DEF Forward
  <2>9. LinkKept'
    <3>1. \A k \in sent' : k.no <= n + 1
      BY <2>1, <2>2, <2>4, <2>5 DEF LinkKept
    <3>2. \A m \in 1..MaxLinks : redeemed[m] <= 1 /\ (m > n => redeemed[m] = 0)
      BY <2>2 DEF LinkKept
    <3>3. redeemed[l.no] = 0
      BY <2>2, <2>4, <3>2
    <3>4. \A m \in 1..MaxLinks : m > n + 1 => redeemed[m] = 0
      BY <2>2, <3>2
    <3> QED BY <1>1, <2>1, <2>4, <2>6, <2>7, <3>1, <3>2, <3>3, <3>4 DEF LinkKept
  <2> QED BY <1>1, <2>1, <2>4, <2>7, <2>8, <2>9, ElsewhereKept
<1>3. CASE Block \/ Unblock \/ SignOut
  <2>1. Elsewhere /\ UNCHANGED sent
    BY <1>3 DEF Block, Unblock, SignOut
  <2>2. /\ account' \in Account /\ account'.password = account.password
        /\ account'.secret = account.secret /\ account'.step = account.step
        /\ account'.papers = account.papers /\ account'.link = account.link
        /\ account'.version \in {account.version, Bumped}
    <3>1. CASE Block
      BY <1>1, <3>1, RowsTyped DEF Block, Account
    <3>2. CASE Unblock
      BY <1>1, <3>2 DEF Unblock, Account
    <3>3. CASE SignOut
      BY <1>1, <3>3, RowsTyped DEF SignOut, Account
    <3> QED BY <1>3, <3>1, <3>2, <3>3
  <2>3. Forward
    BY <1>1, <2>2 DEF Forward, Bumped
  <2>4. LinkKept'
    BY <2>1, <2>2, <2>3, LinkStays DEF Elsewhere, history
  <2> QED BY <1>1, <2>1, <2>2, <2>3, <2>4, ElsewhereKept
<1>4. CASE ResetFactor
  <2>1. Elsewhere /\ UNCHANGED sent /\ MayBump /\ account' = NoFactor(account)
    BY <1>4 DEF ResetFactor
  <2>2. /\ account' \in Account /\ account'.version = Bumped
        /\ account'.secret = 0 /\ account'.link = account.link
    BY <1>1, <2>1, RowsTyped
  <2>3. Forward /\ account'.version # account.version
    BY <2>2, BumpForward
  <2>4. LinkKept'
    BY <2>1, <2>2, <2>3, LinkStays DEF Elsewhere, history
  <2> QED BY <1>1, <2>1, <2>2, <2>3, <2>4, ElsewhereKept
<1>5. CASE SetPassword
  <2>1. Elsewhere /\ UNCHANGED sent /\ MayBump /\ account' = NewPassword(account)
    BY <1>5 DEF SetPassword
  <2>2. /\ account' \in Account /\ account'.version = Bumped /\ account'.link = account.link
        /\ account'.secret = account.secret /\ account'.step = account.step
        /\ account'.papers = account.papers
    BY <1>1, <2>1, RowsTyped
  <2>3. Forward /\ account'.version # account.version
    BY <2>2, BumpForward
  <2>4. LinkKept'
    BY <2>1, <2>2, <2>3, LinkStays DEF Elsewhere, history
  <2> QED BY <1>1, <2>1, <2>2, <2>3, <2>4, ElsewhereKept
<1> QED BY <1>2, <1>3, <1>4, <1>5 DEF Others

-----------------------------------------------------------------------------

LEMMA InitKept == Init => AccountKept
<1> SUFFICES ASSUME Init PROVE AccountKept
  OBVIOUS
<1>1. 0 \in Versions /\ 0 \in Secrets /\ 0 \in Passwords /\ NoPassword \in Passwords
  BY SignInNumbers DEF Versions, Secrets, Passwords
<1>2. account \in Account /\ account.secret = 0 /\ account.link = NoLink
  BY <1>1 DEF Init, Account
<1>3. TypeOK
  BY <1>1, <1>2 DEF Init, TypeOK
<1>4. TokensVouch /\ \A r \in Requests : RequestKnows(r)
  BY DEF Init, TokensVouch, RequestKnows
<1>5. IsFiniteSet({}) /\ Cardinality({}) = 0
  BY FS_EmptySet
<1>6. EnrolmentsTold
  BY <1>2, <1>5 DEF Init, EnrolmentsTold, Enrolled
<1>7. LinkKept
  BY <1>2, <1>5 DEF Init, LinkKept
<1>8. \A c \in Codes : CodeKept(c)
  BY DEF Init, CodeKept
<1> QED BY <1>3, <1>4, <1>6, <1>7, <1>8 DEF AccountKept

LEMMA NextKept ==
  ASSUME AccountKept, [Next]_vars PROVE AccountKept'
<1>1. ASSUME NEW r \in Requests, Asking(r) PROVE AccountKept'
  BY <1>1, SignInKept, OwnChangeKept, ActivateKept, RedeemKept DEF Asking
<1>2. ASSUME NEW r \in Requests, Serving(r) PROVE AccountKept'
  <2>1. CASE CheckPassword(r) \/ AskFactor(r) \/ Judge(r) \/ Refuse(r)
    BY <2>1, CheckPasswordKept, AskFactorKept, JudgeKept, RefuseKept
  <2>2. CASE Commit(r)
    BY <2>2, CommitSignInKept, CommitActivationKept, CommitDisablingKept, CommitPasswordKept,
       CommitRedemptionKept DEF Commit
  <2>3. CASE \E c \in Held \cup {NoCode} : CheckOwn(r, c)
    BY <2>3, CheckOwnKept
  <2> QED BY <1>2, <2>1, <2>2, <2>3 DEF Serving
<1> QED BY <1>1, <1>2, SetUpKept, OthersKept, TickKept, StutterKept DEF Next

-----------------------------------------------------------------------------

\* Tokens, requests under way, enrolments, codes and the stored link all
\* agree with the account between any two steps.
THEOREM AccountIsKept == Spec => []AccountKept
<1>1. Init => AccountKept
  BY InitKept
<1>2. AccountKept /\ [Next]_vars => AccountKept'
  BY NextKept
<1> QED BY <1>1, <1>2, PTL DEF Spec

\* Every variable keeps its type.
THEOREM Typed == Spec => []TypeOK
<1>1. AccountKept => TypeOK
  BY DEF AccountKept
<1> QED BY <1>1, AccountIsKept, PTL

\* No session outlives a change of the password or of the second factor, and
\* none that was being made while one changed counts.
THEOREM SessionsAreProven == Spec => []SessionsProven
<1>1. AccountKept => SessionsProven
  BY DEF AccountKept, TokensVouch, SessionsProven, Admitted
<1> QED BY <1>1, AccountIsKept, PTL

\* No code is accepted twice.
THEOREM NoReplay == Spec => []CodesOnce
<1>1. AccountKept => CodesOnce
  BY DEF AccountKept, CodeKept, CodesOnce
<1> QED BY <1>1, AccountIsKept, PTL

\* A link that works is the last one mailed, unused, and of today's password.
THEOREM LinksEnd == Spec => []LinksDie
<1>1. AccountKept => LinksDie
  <2> SUFFICES ASSUME AccountKept, NEW l \in sent
               PROVE  /\ redeemed[l.no] <= 1
                      /\ LinkMatches(l) => /\ redeemed[l.no] = 0 /\ l.no = Cardinality(sent)
                                           /\ l.password = account.password
    BY DEF LinksDie
  <2>1. l \in Link /\ l # NoLink /\ l.no \in 1..MaxLinks
    BY SignInNullsAreNone DEF AccountKept, TypeOK, Link
  <2> QED BY <2>1 DEF AccountKept, LinkKept, LinkMatches
<1> QED BY <1>1, AccountIsKept, PTL

\* What a session changes of the account, the password of that moment backs.
THEOREM ChangesAreProven == Spec => OwnChangesProven
<1>1. AccountKept /\ [Next]_vars =>
        [\A r \in Requests :
           pc[r] = "judged" /\ pc'[r] = "idle" /\ account' # account
             /\ request[r].op \in {"activate", "disable", "change"}
           => request[r].typed = account.password]_vars
  <2> SUFFICES ASSUME AccountKept, NEW r \in Requests, pc[r] = "judged",
                      request[r].op \in {"activate", "disable", "change"}
               PROVE  request[r].typed = account.password
    OBVIOUS
  <2>1. Stands(request[r]) /\ RequestKnows(r)
    BY OneJudged DEF AccountKept
  <2>2. request[r].version = account.version
    BY <2>1 DEF Stands
  <2> QED BY <2>1, <2>2 DEF RequestKnows
<1> QED BY <1>1, AccountIsKept, PTL DEF Spec, OwnChangesProven

=============================================================================
