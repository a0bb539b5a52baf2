--------------------------- MODULE MCLedRegisters ----------------------------
EXTENDS LedRegisters, TLC

\* LED1, and LED3 with its neighbour; LED2 and LED4 are set by init alone.
AskedPins == {0, 1, 3}

\* The files are interchangeable, and no property is temporal.
Symmetry == Permutations(Files)
=============================================================================
