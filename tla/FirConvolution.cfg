SPECIFICATION Spec
CONSTANTS
    FIR_FILTER_COEFF_NUM = 3
    Width = 6
    Fraction = 4
    easy <- EasyTaps
    hard <- HardTaps
    Data <- Samples
PROPERTIES
    IsFir
