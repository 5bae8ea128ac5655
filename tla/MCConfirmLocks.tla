----------------------------- MODULE MCConfirmLocks -----------------------------
\* Small instances of ConfirmLocks.
EXTENDS ConfirmLocks
=============================================================================
