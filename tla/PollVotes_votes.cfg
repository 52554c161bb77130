\* Votes, edits, erasures and the removal of the voters of one poll.
SPECIFICATION FairSpec
CONSTANTS
  p1 = p1
  p2 = p2
  ann = ann
  bob = bob
  r1 = r1
  r2 = r2
  yes = yes
  no = no
  Polls = {p1}
  People = {ann}
  Requests = {r1, r2}
  Texts = {yes, no}
  OptionLists <- EitherOrder
  Choices = {1}
  Modes = {"anonymous"}
  ClosingTimes = {0, 2}
  Retention = 0
  PerRun = 1
  OrphansPerRun = 1
  MaxBallots = 3
  MaxTime = 1
  MaxEdits = 1
  MaxFaults = 1
  NoRow = NoRow
  NoBallot = NoBallot
  NoPerson = NoPerson
  NoPoll = NoPoll
  NoRequest = NoRequest
  OldWeb = OldWeb
INVARIANTS PollsKept OneVoteEach CastAsShown StaysAnonymous
PROPERTIES ResultsStand VotersForgotten ErasedForgotten
