\* Two days: a row may move between a judged and an unjudged one.
SPECIFICATION FairSpec
CONSTANTS
    Days = {d1, d2}
    Rows = {r1}
    Agents = {a}
    Holders = {a}
    HolderOf <- OwnNames
    NoOne = NoOne
    NoDay = NoDay
    Late = FALSE
    CountCap = 0
    MaxLapses = 1
    MaxCrashes = 1
INVARIANTS SweptWereJudged DreamedIsDone
PROPERTY EveryDayDreamed
