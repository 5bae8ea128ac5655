-------------------------- MODULE MCProcessorSignals --------------------------
\* Small instances of ProcessorSignals; workers are interchangeable.
EXTENDS ProcessorSignals, TLC

WorkerSymmetry == Permutations(Workers)
=============================================================================
