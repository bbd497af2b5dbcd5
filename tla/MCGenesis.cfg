\* Four scanlines of four ticks, a Z80 clock of two, a 68000 cycle of three; two cells of
\* sound code and a mailbox.
CONSTANTS
    Divider = 2
    LineTicks = 4
    Lines = 4
    OnsetLine = 2
    M1 = 2
    CodeSize = 2
    Images <- Registry
    CycleTicks = 3
    Cycles = {1}
    EntryCycles = 1
    Quantum = 5
    Masks = {3, 5}
    HintEvery = {0, 3}
    Uploads <- Sent
    Programs = {"sound", "interrupts"}
SPECIFICATION Spec
INVARIANTS LagIsBounded WakelessIsFinal JumpWakes
PROPERTIES ImplementsSoundCpu
\* A stop is final.
CHECK_DEADLOCK FALSE
