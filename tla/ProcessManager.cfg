\* Two careful processes and one that is run twice at a time and killed while
\* it runs.
CONSTANTS
  FirstPid = 100
  LastPid = 102
  MaxProcesses = 2
  Code = {0, 1}
  Signal = {9}
  NoCode = NoCode
  w1 = w1
  w2 = w2
  Waiter = {w1, w2}
  NoAnswer = NoAnswer
  MaxRuns = 2
  Careful = {100, 102}
SPECIFICATION FairSpec
INVARIANTS TablesTellWhoEnded AnswersAgree
PROPERTIES EndsOnce RunningWaitersAnswered
CHECK_DEADLOCK FALSE
