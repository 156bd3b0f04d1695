SPECIFICATION Spec
CONSTANTS
    Resources = {r1}
    Values = {a}
    Absent = Absent
    Writers = {w1, w2}
    Watchers = {s1}
    QueueCap = 2
    MaxVersion = 3
    MaxRestarts = 0
INVARIANTS SnapshotThenDiffs
