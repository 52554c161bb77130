------------------------- MODULE MCScheduledPublish -------------------------
(***************************************************************************)
(* Links, backoffs and times for ScheduledPublish.                         *)
(***************************************************************************)
EXTENDS ScheduledPublish

None == [d \in Docs |-> 0]

\* 2 is in or under 1.
Chain == [d \in Docs |-> IF d = 1 THEN 0 ELSE d - 1]

\* Pages that are each other's parent.
Loop == [d \in Docs |-> IF d = 1 THEN Cardinality(Docs) ELSE d - 1]

AllKinds == [withdrawn |-> {None}, expiring |-> {None}, page |-> {Chain, Loop}, lesson |-> {Chain}]
LiveKinds == [withdrawn |-> {None}, page |-> {Loop}]
LessonsOnly == [lesson |-> {Chain}]

OneThenTwo == <<1, 2>>

Open == {Never}
Soon == {0, Never}
Later == {1, Never}
AtLast == {MaxTime, Never}
AnyTime == 0..MaxTime \cup {Never}

=============================================================================
