---------------------------- MODULE MCServiceProcess ----------------------------
\* Small instances of ServiceProcess.
EXTENDS ServiceProcess
=============================================================================
