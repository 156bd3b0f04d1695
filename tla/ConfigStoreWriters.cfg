\* Two concurrent writers, one stream on a channel of two, one restart.
SPECIFICATION FairSpec
CONSTANTS
    Resources = {r1, r2}
    Values = {a}
    Absent = Absent
    Writers = {w1, w2}
    Watchers = {s1}
    QueueCap = 2
    MaxVersion = 3
    MaxRestarts = 1
INVARIANTS NoMissedUpdate AtMostOnce DiffsReplay Converged
PROPERTIES EventuallyDelivered
