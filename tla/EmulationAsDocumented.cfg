SPECIFICATION ExcSpec
CONSTANTS
    W = 4
    Junk = 9
    Situations <- Cases
INVARIANTS
    EmulatesAsDocumented
