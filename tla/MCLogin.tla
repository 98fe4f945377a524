------------------------------- MODULE MCLogin -------------------------------
\* One terminal that nobody approves, with the numbers of the code: a burst of
\* ten requests and one per five seconds, a poll every two seconds for ten
\* minutes.
EXTENDS Login
=============================================================================
