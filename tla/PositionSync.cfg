\* A concurrent reader, fills and pushed positions, lost events, dropped refreshes.
SPECIFICATION FairSpec
CONSTANTS
    Markets = {m1}
    Readers = {r1}
    Loop = loop
    RefreshCap = 1
    Pushes = {m1}
    MaxTrades = 1
    MaxDrops = 1
INVARIANTS FillsAreOwedARead
PROPERTIES SnapshotConverges
