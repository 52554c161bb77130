------------------------------- MODULE SignIn -------------------------------
(***************************************************************************)
(* How one local account is signed in to: its password, its token version, *)
(* its second factor and the set-password links mailed to it.              *)
(*                                                                         *)
(* A session is a signed token that carries the version the account had;   *)
(* raising the version ends every session.  A sign-in and the account's    *)
(* own changes read, wait for the password check and then write, and two   *)
(* of them run at a time.  Accounts share nothing here, so there is one.   *)
(***************************************************************************)
EXTENDS Integers, FiniteSets

CONSTANTS
  Requests,     \* what the server may work on at a time
  Recovery,     \* recovery codes of an activation
  EnrolTTL,     \* ENROLLMENT_TTL_MS, in time steps
  LinkTTL,      \* LINK_TTL_SECONDS, in time steps
  MaxVersion, MaxSecrets, MaxLinks, MaxTime,
  Bounds,       \* how far versions, enrolments, links and time go together
  NoPassword, NoLink, NoCode, NoRequest, Nobody

ASSUME SignInNumbers ==
  /\ EnrolTTL \in Nat \ {0} /\ LinkTTL \in Nat \ {0}
  /\ MaxVersion \in Nat /\ MaxSecrets \in Nat /\ MaxLinks \in Nat /\ MaxTime \in Nat
ASSUME SignInNulls == NoPassword \notin Nat /\ Nobody \notin Requests

\* A password is told apart by the version it was set at, a secret of an
\* authenticator by its number; secret 0 is no second factor.
Versions == 0..MaxVersion
Passwords == Versions \cup {NoPassword}
Secrets == 0..MaxSecrets
Steps == 0..MaxTime

NoStep == -1

\* What an authenticator shows in a time step, and a recovery code.
Totp == [secret : Secrets \ {0}, step : Steps]
Paper == [secret : Secrets \ {0}, paper : Recovery]
Codes == Totp \cup Paper

\* A stored link, with the password the account had when it was issued: an
\* invitation if none, else a reset.
Link == [no : 1..MaxLinks, expires : Nat, version : Versions, password : Passwords]

Account == [password : Passwords, version : Versions, secret : Secrets, step : Steps \cup {NoStep},
            papers : SUBSET Recovery, link : Link \cup {NoLink}, blocked : BOOLEAN]

\* A session's token: the version it carries, the password that was typed for
\* it, and the secret whose code was (0: the claim mfa is missing).
Token == [version : Versions, password : Passwords, secret : Secrets]

\* A sealed enrolment, which its holder may send as often as they like.
Setup == [secret : Secrets, version : Versions, expires : Nat]

\* "version" is the session's or the sign-in's snapshot, "proved" the secret
\* behind the session, "typed" the password.
Ops == {"signIn", "activate", "disable", "change", "redeem"}
Request ==
  [op : Ops, version : Versions, proved : Secrets, typed : Passwords,
   code : Codes \cup {NoCode}, setup : Setup, link : Link \cup {NoLink}]

ASSUME SignInNullsAreNone ==
  /\ NoLink \notin Link /\ NoCode \notin Codes /\ NoRequest \notin Request

VARIABLES
  account,
  holder,      \* the transaction that holds the account's row lock
  pc, request,
  tokens,      \* tokens that reached a browser
  sent,        \* links mailed
  sealed,      \* enrolments handed out
  clock,
  used,        \* how often each code was accepted
  redeemed     \* how often each link was

work == <<pc, request>>
issued == <<tokens, sent, sealed>>
history == <<used, redeemed>>
vars == <<account, holder, work, issued, clock, history>>

\* So far the model looks: the bound of every action that counts one up.
Within(version, secrets, links, time) ==
  \E b \in Bounds : /\ version <= b.version /\ secrets <= b.secrets
                   /\ links <= b.links /\ time <= b.time

-----------------------------------------------------------------------------
(* What the server tells from a row.                                        *)

Enrolled == account.secret # 0

\* verify() and the gate of every request; a session without a factor of an
\* account without one may be restricted to setting one up.
Admitted(t) ==
  /\ t.version = account.version /\ ~account.blocked
  /\ Enrolled => t.secret # 0

\* matchTotp: the current step or one either way.
Matches(code, secret) ==
  code \in Totp /\ code.secret = secret /\ code.step \in (clock - 1)..(clock + 1)

\* A code that consumeSecondFactor accepts from the row.
Accepts(code) ==
  /\ Enrolled
  /\ \/ Matches(code, account.secret) /\ code.step > account.step
     \/ code \in Paper /\ code.secret = account.secret /\ code.paper \in account.papers

\* The row once the code is consumed.
Consumed(code) ==
  IF code \in Totp THEN [account EXCEPT !.step = code.step]
                   ELSE [account EXCEPT !.papers = @ \ {code.paper}]

\* Fault: a link is not compared with the one stored last.
LinkMatches_AnyMailed(l) ==
  /\ account.link # NoLink /\ l.expires > clock /\ l.version = account.version
  /\ (l.password = NoPassword) <=> (account.password = NoPassword)
  /\ ~account.blocked

\* linkMatches; that the address is the one of then is left out.
LinkMatches(l) ==
  /\ account.link = l /\ l.expires > clock /\ l.version = account.version
  /\ (l.password = NoPassword) <=> (account.password = NoPassword)
  /\ ~account.blocked

Bumped == account.version + 1

\* What a person can type: what an authenticator of theirs shows about now,
\* or a recovery code they hold, used before or not.
Held ==
  {c \in Codes : /\ \E s \in sealed : s.secret = c.secret
                 /\ c \in Totp => c.step \in (clock - 1)..(clock + 1)}

-----------------------------------------------------------------------------

Init ==
  /\ account \in [password : {NoPassword, 0}, version : {0}, secret : {0}, step : {NoStep},
                  papers : {{}}, link : {NoLink}, blocked : {FALSE}]
  /\ holder = Nobody
  /\ pc = [r \in Requests |-> "idle"] /\ request = [r \in Requests |-> NoRequest]
  /\ tokens = {} /\ sent = {} /\ sealed = {}
  /\ clock = 0
  /\ used = [c \in Codes |-> 0] /\ redeemed = [n \in 1..MaxLinks |-> 0]

Go(r, at) == pc' = [pc EXCEPT ![r] = at]
Note(r, q) == request' = [request EXCEPT ![r] = q]
Done(r) == Go(r, "idle") /\ Note(r, NoRequest)

Unlocked == holder = Nobody

\* A refusal or a rollback, of any step and for any reason the model leaves out.
Refuse(r) ==
  /\ pc[r] # "idle" /\ Done(r)
  /\ holder' = IF holder = r THEN Nobody ELSE holder
  /\ UNCHANGED <<account, issued, clock, history>>

-----------------------------------------------------------------------------
(* POST /auth/local.                                                        *)

Blank == [op |-> "signIn", version |-> 0, proved |-> 0, typed |-> NoPassword, code |-> NoCode,
          setup |-> [secret |-> 0, version |-> 0, expires |-> 0], link |-> NoLink]

\* signInTokenVersion: the version, before the password is looked at.
SignIn(r) ==
  /\ pc[r] = "idle" /\ Go(r, "password")
  /\ Note(r, [Blank EXCEPT !.version = account.version])
  /\ UNCHANGED <<account, holder, issued, clock, history>>

\* The plugin's callback: what is typed is the password of the row it reads.
CheckPassword(r) ==
  /\ pc[r] = "password" /\ request[r].op = "signIn"
  /\ account.password # NoPassword /\ ~account.blocked
  /\ Go(r, "factor") /\ Note(r, [request[r] EXCEPT !.typed = account.password])
  /\ UNCHANGED <<account, holder, issued, clock, history>>

TokenOf(r, version, secret) ==
  [version |-> version, password |-> request[r].typed, secret |-> secret]

\* Fault: the token carries the version of when it is made.
AskFactor_LateVersion(r) ==
  /\ pc[r] = "factor"
  /\ IF Enrolled
     THEN /\ \E c \in Held : Note(r, [request[r] EXCEPT !.code = c])
          /\ Go(r, "ready") /\ UNCHANGED tokens
     ELSE Done(r) /\ tokens' = tokens \cup {TokenOf(r, account.version, 0)}
  /\ UNCHANGED <<account, holder, sent, sealed, clock, history>>

\* The enrolment as it is now: without one the token leaves, else a code is needed.
AskFactor(r) ==
  /\ pc[r] = "factor"
  /\ IF Enrolled
     THEN /\ \E c \in Held : Note(r, [request[r] EXCEPT !.code = c])
          /\ Go(r, "ready") /\ UNCHANGED tokens
     ELSE Done(r) /\ tokens' = tokens \cup {TokenOf(r, request[r].version, 0)}
  /\ UNCHANGED <<account, holder, sent, sealed, clock, history>>

-----------------------------------------------------------------------------
(* The account's own changes, each from a session.                          *)

\* mfaSetup: nothing is stored yet.
SetUp ==
  /\ (\E t \in tokens : Admitted(t)) /\ ~Enrolled /\ Cardinality(sealed) < MaxSecrets
  /\ Within(account.version, Cardinality(sealed) + 1, Cardinality(sent), clock)
  /\ sealed' = sealed \cup {[secret |-> Cardinality(sealed) + 1, version |-> account.version,
                             expires |-> clock + EnrolTTL]}
  /\ UNCHANGED <<account, holder, work, tokens, sent, clock, history>>

\* mfaActivate.
Activate(r, t, s) ==
  /\ pc[r] = "idle" /\ Admitted(t) /\ Go(r, "password")
  /\ Note(r, [Blank EXCEPT !.op = "activate", !.version = t.version, !.setup = s])
  /\ UNCHANGED <<account, holder, issued, clock, history>>

\* mfaDisable and changePassword; only the latter keeps the session's claim.
OwnChange(r, op, t) ==
  /\ pc[r] = "idle" /\ Admitted(t) /\ Go(r, "password")
  /\ Note(r, [Blank EXCEPT !.op = op, !.version = t.version,
                           !.proved = IF op = "change" THEN t.secret ELSE 0])
  /\ UNCHANGED <<account, holder, issued, clock, history>>

\* Before the transaction: the password, and the enrolment that is to be
\* activated with a code of it.
CheckOwn(r, code) ==
  /\ pc[r] = "password" /\ account.password # NoPassword
  /\ LET q == request[r] IN
     \/ q.op = "activate" /\ q.setup.expires > clock /\ Matches(code, q.setup.secret)
     \/ q.op = "disable" /\ Enrolled
     \/ q.op = "change" /\ code = NoCode
  /\ Go(r, "ready")
  /\ Note(r, [request[r] EXCEPT !.typed = account.password, !.code = code])
  /\ UNCHANGED <<account, holder, issued, clock, history>>

\* POST /auth/set-password with a link from the mail.
Redeem(r, l) ==
  /\ pc[r] = "idle" /\ Go(r, "ready") /\ Note(r, [Blank EXCEPT !.op = "redeem", !.link = l])
  /\ UNCHANGED <<account, holder, issued, clock, history>>

-----------------------------------------------------------------------------
(* Their transactions: the row lock, the checks on the row as it is under   *)
(* it, and the write with the COMMIT.                                       *)

\* Fault: an activation is not checked against the version again.
MayCommit_LooseActivation(q) ==
  CASE q.op \in {"signIn", "disable"} -> q.version = account.version /\ Accepts(q.code)
    [] q.op = "activate" -> ~Enrolled
    [] q.op = "change" -> q.version = account.version
    [] q.op = "redeem" -> LinkMatches(q.link)

MayCommit(q) ==
  CASE q.op \in {"signIn", "disable"} -> q.version = account.version /\ Accepts(q.code)
    [] q.op = "activate" -> /\ ~Enrolled /\ q.version = account.version
                            /\ q.setup.version = account.version
    [] q.op = "change" -> q.version = account.version
    [] q.op = "redeem" -> LinkMatches(q.link)

\* Fault: the row is not locked.
Judge_Unlocked(r) ==
  /\ pc[r] = "ready" /\ MayCommit(request[r])
  /\ Go(r, "judged")
  /\ UNCHANGED <<account, holder, request, issued, clock, history>>

Judge(r) ==
  /\ pc[r] = "ready" /\ Unlocked /\ MayCommit(request[r])
  /\ holder' = r /\ Go(r, "judged")
  /\ UNCHANGED <<account, request, issued, clock, history>>

Committing(r, op) ==
  /\ pc[r] = "judged" /\ request[r].op = op /\ Done(r)
  /\ holder' = Nobody
  /\ UNCHANGED <<sent, sealed, clock>>

Use(code) == used' = [used EXCEPT ![code] = @ + 1]
Answer(t) == tokens' = tokens \cup {t}

\* Fault: the version stays.
NoFactor_SameVersion(row) == [row EXCEPT !.secret = 0, !.step = NoStep, !.papers = {}]

NoFactor(row) == [row EXCEPT !.secret = 0, !.step = NoStep, !.papers = {}, !.version = Bumped]
NewPassword(row) == [row EXCEPT !.password = Bumped, !.version = Bumped]
MayBump ==
  account.version < MaxVersion /\ Within(Bumped, Cardinality(sealed), Cardinality(sent), clock)

\* consumeSecondFactor, and the token with its claim.
CommitSignIn(r) ==
  /\ Committing(r, "signIn")
  /\ account' = Consumed(request[r].code) /\ Use(request[r].code)
  /\ Answer(TokenOf(r, request[r].version, account.secret))
  /\ UNCHANGED redeemed

CommitActivation(r) ==
  /\ Committing(r, "activate")
  /\ LET q == request[r] IN
     /\ account' = [account EXCEPT !.secret = q.setup.secret, !.step = q.code.step,
                                   !.papers = Recovery]
     /\ Use(q.code) /\ Answer(TokenOf(r, q.version, q.setup.secret))
  /\ UNCHANGED redeemed

CommitDisabling(r) ==
  /\ Committing(r, "disable") /\ MayBump
  /\ account' = NoFactor(account) /\ Use(request[r].code)
  /\ Answer(TokenOf(r, Bumped, 0))
  /\ UNCHANGED redeemed

\* saveAfterBump; the new token keeps the session's claim.
CommitPassword(r) ==
  /\ Committing(r, "change") /\ MayBump
  /\ account' = NewPassword(account)
  /\ Answer([version |-> Bumped, password |-> Bumped, secret |-> request[r].proved])
  /\ UNCHANGED history

CommitRedemption(r) ==
  /\ Committing(r, "redeem") /\ MayBump
  /\ account' = [NewPassword(account) EXCEPT !.link = NoLink]
  /\ redeemed' = [redeemed EXCEPT ![request[r].link.no] = @ + 1]
  /\ UNCHANGED <<tokens, used>>

Commit(r) == \/ CommitSignIn(r) \/ CommitActivation(r) \/ CommitDisabling(r)
             \/ CommitPassword(r) \/ CommitRedemption(r)

-----------------------------------------------------------------------------
(* Other writers of the row: each waits for its lock.                       *)

Elsewhere == Unlocked /\ UNCHANGED <<holder, work, tokens, sealed, clock, history>>

\* issueLink, for a reset somebody asked for or an admin sends: a new link
\* takes the place of the last one.
SendLink ==
  /\ Elsewhere /\ ~account.blocked /\ Cardinality(sent) < MaxLinks
  /\ Within(account.version, Cardinality(sealed), Cardinality(sent) + 1, clock)
  /\ LET l == [no |-> Cardinality(sent) + 1, expires |-> clock + LinkTTL,
               version |-> account.version, password |-> account.password]
     IN account' = [account EXCEPT !.link = l] /\ sent' = sent \cup {l}

\* A block raises the version, and an unblock leaves it.
Block ==
  /\ Elsewhere /\ ~account.blocked /\ MayBump
  /\ account' = [account EXCEPT !.blocked = TRUE, !.version = Bumped]
  /\ UNCHANGED sent

Unblock ==
  /\ Elsewhere /\ account.blocked
  /\ account' = [account EXCEPT !.blocked = FALSE]
  /\ UNCHANGED sent

\* clearMfa, for an admin or infra/mfa-reset.sh.
ResetFactor ==
  /\ Elsewhere /\ MayBump
  /\ account' = NoFactor(account)
  /\ UNCHANGED sent

\* A password set in the panel.
SetPassword ==
  /\ Elsewhere /\ MayBump
  /\ account' = NewPassword(account)
  /\ UNCHANGED sent

\* signOut, from a session that may have ended since it was let in.
SignOut ==
  /\ Elsewhere /\ tokens # {} /\ MayBump
  /\ account' = [account EXCEPT !.version = Bumped]
  /\ UNCHANGED sent

Others == SendLink \/ Block \/ Unblock \/ ResetFactor \/ SetPassword \/ SignOut

Tick == /\ clock < MaxTime /\ clock' = clock + 1
        /\ Within(account.version, Cardinality(sealed), Cardinality(sent), clock + 1)
        /\ UNCHANGED <<account, holder, work, issued, history>>

Asking(r) ==
  \/ SignIn(r)
  \/ \E t \in tokens : \/ OwnChange(r, "change", t) \/ OwnChange(r, "disable", t)
                       \/ \E s \in sealed : Activate(r, t, s)
  \/ \E l \in sent : Redeem(r, l)

Serving(r) ==
  \/ CheckPassword(r) \/ AskFactor(r) \/ Judge(r) \/ Commit(r) \/ Refuse(r)
  \/ \E c \in Held \cup {NoCode} : CheckOwn(r, c)

Next == (\E r \in Requests : Asking(r) \/ Serving(r)) \/ SetUp \/ Others \/ Tick

Spec == Init /\ [][Next]_vars

-----------------------------------------------------------------------------
(* What signing in promises.                                                *)

TypeOK ==
  /\ account \in Account /\ holder \in Requests \cup {Nobody}
  /\ pc \in [Requests -> {"idle", "password", "factor", "ready", "judged"}]
  /\ request \in [Requests -> Request \cup {NoRequest}]
  /\ tokens \subseteq Token /\ sent \subseteq Link /\ sealed \subseteq Setup /\ clock \in Nat
  /\ used \in [Codes -> Nat] /\ redeemed \in [1..MaxLinks -> Nat]

\* A token of the account's version was made with its password and, if at
\* all, its second factor.
TokensVouch ==
  \A t \in tokens :
    /\ t.version <= account.version
    /\ t.version = account.version =>
         t.password = account.password /\ t.secret \in {0, account.secret}

\* What a request read, and what it was judged by under the lock, as far as
\* no clock takes it away.
Stands(q) ==
  CASE q.op \in {"signIn", "disable"} ->
         /\ q.version = account.version /\ Enrolled /\ q.code \in Codes
         /\ q.code.secret = account.secret
         /\ q.code \in Totp => q.code.step > account.step
         /\ q.code \in Paper => q.code.paper \in account.papers
    [] q.op = "activate" -> /\ ~Enrolled /\ q.version = account.version
                            /\ q.setup.version = account.version
    [] q.op = "change" -> q.version = account.version
    [] q.op = "redeem" -> account.link = q.link

RequestKnows(r) ==
  LET q == request[r] IN
  pc[r] # "idle" =>
    /\ q # NoRequest /\ q.version <= account.version
    /\ q.version = account.version =>
         /\ q.proved \in {0, account.secret}
         /\ pc[r] # "password" /\ q.op # "redeem" => q.typed = account.password
    /\ q.op = "activate" =>
         /\ q.setup \in sealed
         /\ pc[r] # "password" => q.code \in Totp /\ q.code.secret = q.setup.secret
    /\ pc[r] = "factor" => q.op = "signIn"
    /\ q.op = "redeem" => pc[r] \in {"ready", "judged"} /\ q.link \in sent
    /\ pc[r] = "judged" => holder = r /\ Stands(q)

\* Each secret is of one enrolment, and active at one version at most.
EnrolmentsTold ==
  /\ IsFiniteSet(sealed)
  /\ \A s \in sealed : s.secret \in 1..Cardinality(sealed) /\ s.version <= account.version
  /\ \A s, z \in sealed : s.secret = z.secret => s = z
  /\ Enrolled => \E s \in sealed : s.secret = account.secret

\* What the row remembers of the codes that were accepted.
CodeKept(c) ==
  /\ used[c] <= 1
  /\ used[c] > 0 =>
       /\ \E s \in sealed :
            /\ s.secret = c.secret
            /\ s.version = account.version => account.secret = c.secret
       /\ c.secret = account.secret =>
            /\ c \in Totp => c.step <= account.step
            /\ c \in Paper => c.paper \notin account.papers

LinkKept ==
  /\ IsFiniteSet(sent)
  /\ \A l \in sent : l.no <= Cardinality(sent)
  /\ \A n \in 1..MaxLinks : redeemed[n] <= 1 /\ (n > Cardinality(sent) => redeemed[n] = 0)
  /\ LET l == account.link IN
     l # NoLink =>
       /\ l \in sent /\ l.no = Cardinality(sent) /\ redeemed[l.no] = 0
       /\ l.version <= account.version
       /\ l.version = account.version => l.password = account.password

\* Between any two steps: the inductive invariant.
AccountKept ==
  /\ TypeOK /\ TokensVouch /\ EnrolmentsTold /\ LinkKept
  /\ \A r \in Requests : RequestKnows(r)
  /\ \A c \in Codes : CodeKept(c)

\* Every session let in proved the password and the second factor the account
\* has now: none outlives a change of either, and none that was being made
\* while one changed counts.
SessionsProven ==
  \A t \in tokens : Admitted(t) =>
    /\ t.password = account.password
    /\ Enrolled => t.secret = account.secret

\* "No replay": a code of an authenticator and a recovery code are accepted
\* once, by whichever of the three places that take one.
CodesOnce == \A c \in Codes : used[c] <= 1

\* A link that works was not redeemed, is the last one mailed, and no
\* password was set since.
LinksDie ==
  \A l \in sent :
    /\ redeemed[l.no] <= 1
    /\ LinkMatches(l) =>
         /\ redeemed[l.no] = 0 /\ l.no = Cardinality(sent)
         /\ l.password = account.password

\* A change made from a session is made by somebody who knows the password
\* of that moment, not one that was right when the change was asked for.
OwnChangesProven ==
  [][\A r \in Requests :
       pc[r] = "judged" /\ pc'[r] = "idle" /\ account' # account
         /\ request[r].op \in {"activate", "disable", "change"}
       => request[r].typed = account.password]_vars

=============================================================================
