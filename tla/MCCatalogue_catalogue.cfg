SPECIFICATION Spec
CONSTANTS
    BUCKETS = 4
    Hash <- Hashes
    Normal <- Spellings
    Keys = {0, 1, 2, 3}
    Sizes = {1, 2, 3}
    VNodes = 2
    Request = {q1, q2}
    Number = {101, 102}
    SeededHotels <- TwoHotels
    SeededRooms <- TwoRooms
    Booked = {"r2"}
    Layouts <- Maps
    MaxShards = 2
SYMMETRY Symmetry
INVARIANTS TypeOK FamilyTogether CityIsLocal RebalanceMovesLeast RingIsClockwise OnlyNewShardsGain
PROPERTIES ServerErrorHasCause ReportCountsOnce
