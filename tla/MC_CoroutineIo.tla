--------------------------- MODULE MC_CoroutineIo ---------------------------
EXTENDS CoroutineIo

CONSTANT w1
=============================================================================
