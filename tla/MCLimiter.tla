----------------------------- MODULE MCLimiter -----------------------------
EXTENDS Limiter

\* The second limiter refuses after the first has been acquired.
TwoThenOne == <<2, 1>>
=============================================================================
