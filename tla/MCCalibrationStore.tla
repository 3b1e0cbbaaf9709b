------------------------- MODULE MCCalibrationStore -------------------------
\* What a client may send for a confidence: one below zero, one inside a bin
\* and one at the upper edge of the last.
EXTENDS CalibrationStore

SentConfidences == {-1, 4, 10}
=============================================================================
