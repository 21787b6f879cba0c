----------------------------- MODULE MCCoreScan -----------------------------
\* Two domains, three targets on two files (t1 and t2 are file f1 read as
\* two languages), one taint rule and two search rules.  The matches of t1
\* and t2 exceed the match limit only together; t3 alone never does.  A
\* paths: filter keeps s1 off t2, and the prefilter keeps s2 off t3.
EXTENDS CoreScan, TLC

CONSTANTS t1, t2, t3, f1, f2, taint, s1, s2, d1, d2

MCTargets == {t1, t2, t3}
MCFileOf == (t1 :> f1) @@ (t2 :> f1) @@ (t3 :> f2)
MCCompatible == (t1 :> {taint, s1, s2}) @@ (t2 :> {s1, s2}) @@ (t3 :> {s1, s2})
MCApplies == (t1 :> {taint, s1, s2}) @@ (t2 :> {s2}) @@ (t3 :> {s1, s2})
MCRelevant == (t1 :> {taint, s1, s2}) @@ (t2 :> {s2}) @@ (t3 :> {s1})
Counts(a, b, c) == (taint :> a) @@ (s1 :> b) @@ (s2 :> c)
MCNMatches == (t1 :> Counts(1, 1, 0)) @@ (t2 :> Counts(0, 0, 1)) @@ (t3 :> Counts(0, 2, 0))

MCFootprint == (t1 :> 1) @@ (t2 :> 2) @@ (t3 :> 1)
=============================================================================
