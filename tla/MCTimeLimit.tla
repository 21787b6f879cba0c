---------------------------- MODULE MCTimeLimit ----------------------------
\* Two calls in a row: one whose limit is no multiple of the granularity and
\* takes two naps of its timer, and one whose rule sets a limit of 0.  One
\* thread, so that the timer left behind by the first call can make the
\* second one fail.
EXTENDS TimeLimit

MCMaxDuration == <<3, 0>>
=============================================================================
