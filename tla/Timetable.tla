------------------------------ MODULE Timetable ------------------------------
(***************************************************************************)
(* What scheduled publishing promises, without runs, selections, locks or  *)
(* revisions: authors change plans, and between their changes a document   *)
(* is put out when it is due, taken in when its end has come, or marked    *)
(* with the reason why not.  Each judges and writes the document as it is  *)
(* in one moment, and nothing else ever touches a plan or what is out.     *)
(***************************************************************************)
EXTENDS Integers

CONSTANTS Docs, Never

VARIABLES
  withdraws,  \* whether the end of a window takes a document in
  plan,       \* of each document: publishAt, unpublishAt, and the marker "error"
  out,        \* the documents that readers see
  copy,       \* the plan each of them went out with
  clock,
  changes     \* by authors

vars == <<withdraws, plan, out, copy, clock, changes>>

Blank == [publishAt |-> Never, unpublishAt |-> Never, error |-> "none"]

Init ==
  /\ withdraws \in BOOLEAN /\ DOMAIN plan = Docs /\ out \subseteq Docs
  /\ copy = [d \in Docs |-> Blank]
  /\ clock = 0 /\ changes = 0

Due(d) == plan[d].publishAt <= clock
Over(d) == plan[d].unpublishAt <= clock

Put(d, p) == plan' = [plan EXCEPT ![d] = p]
PutOut(d) == out' = out \cup {d} /\ copy' = [copy EXCEPT ![d] = plan'[d]]
TakeIn(d) == out' = out \ {d} /\ copy' = [copy EXCEPT ![d] = Blank]
Keep == UNCHANGED <<out, copy>>

\* An author: saves or discards, publishes, or withdraws or deletes.
Change(d) ==
  /\ Put(d, plan'[d]) /\ changes' = changes + 1 /\ UNCHANGED <<withdraws, clock>>
  /\ \/ plan'[d].error = "none" /\ Keep
     \/ plan'[d].publishAt = Never /\ plan'[d].error = "none" /\ PutOut(d)
     \/ plan'[d].publishAt = Never /\ TakeIn(d)

\* Due, and at some instant its window was still open.
Publish(d) ==
  /\ Due(d) /\ plan[d].publishAt < plan[d].unpublishAt
  /\ Put(d, [plan[d] EXCEPT !.publishAt = Never, !.error = "none"]) /\ PutOut(d)

\* A publish that is still to come goes along only with what is out.
Withdraw(d) ==
  /\ withdraws /\ Over(d) /\ (plan[d].publishAt # Never => d \in out)
  /\ Put(d, Blank) /\ TakeIn(d)

\* The window ended before the publish.
Miss(d) ==
  /\ Due(d) /\ Over(d) /\ (withdraws => d \notin out)
  /\ Put(d, [publishAt |-> Never, error |-> "windowExpired",
             unpublishAt |-> IF withdraws THEN Never ELSE plan[d].unpublishAt])
  /\ Keep

\* What failed says so: a publish is given up, a withdrawal keeps its time.
Mark(d) ==
  /\ plan'[d].error # "none"
  /\ \/ Put(d, [plan[d] EXCEPT !.publishAt = Never, !.error = plan'[d].error])
     \/ withdraws /\ Put(d, [plan[d] EXCEPT !.error = plan'[d].error])
  /\ Keep

Keeper(d) ==
  /\ Publish(d) \/ Withdraw(d) \/ Miss(d) \/ Mark(d)
  /\ UNCHANGED <<withdraws, clock, changes>>

Pass == clock' = clock + 1 /\ UNCHANGED <<withdraws, plan, out, copy, changes>>

Next == Pass \/ \E d \in Docs : Change(d) \/ Keeper(d)

Spec == Init /\ [][Next]_vars

=============================================================================
