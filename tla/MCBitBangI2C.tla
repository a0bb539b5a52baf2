----------------------------- MODULE MCBitBangI2C -----------------------------
EXTENDS BitBangI2C

\* Two address bits, and the direction.
MCMe == <<1, 1>>
=============================================================================
