---------------------------- MODULE MCFakeWorker ----------------------------
\* Small instances of FakeWorker for TLC.
EXTENDS FakeWorker
=============================================================================
