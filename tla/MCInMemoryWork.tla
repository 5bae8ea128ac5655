---------------------------- MODULE MCInMemoryWork ----------------------------
\* Small instances of InMemoryWork.
EXTENDS InMemoryWork

\* Passes are alike, and so are requests before they are submitted.
Any(S) == CHOOSE x \in S : TRUE

OneOrTwoPasses ==
  {[passes |-> {Any(Passes)}, injectedFailures |-> {Any(Requests)}],
   [passes |-> {Any(Passes)}, injectedFailures |-> {}],
   [passes |-> Passes, injectedFailures |-> {}]}
=============================================================================
