CONSTANTS
    Students = {s1}
    Periods = {1, 2, 3}
    Breaks = {1}
    Handlers = {h1}
    Jobs = {j1}
    Sheets <- MCOneSheet
    Blocks <- MCBlocks
    Ranges <- MCRanges
    Asked = {5, 6}
    Today = 5
    Zone <- MCZone
    Late = 5
    Absent = 15
    Delays = {5, 6, 16}
    MaxVersion = 2
    None = None
    s1 = s1
SPECIFICATION FairSpec
INVARIANTS TypeOK NobodyLeftOut
PROPERTIES RecordsAreKept CardsStayRevoked LicencesHold EverybodyIsMarked
