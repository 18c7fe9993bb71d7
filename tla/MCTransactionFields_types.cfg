SPECIFICATION Spec
CONSTANTS
    Null = Null
    Zero = Zero
    One = One
    Two = Two
    Preset = Preset
    None = None
    MaxMoves = 2
INVARIANTS FrozenShowsWhatItSigns RebuildingKeepsFields OneOfEach
PROPERTIES SecondTripIsIdle
CHECK_DEADLOCK FALSE
