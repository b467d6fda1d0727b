------------------------------ MODULE MCFailover ------------------------------
\* Three options: attempts that overlap, fail over, deliver at once, too late or
\* in any order, with a cancellation at any point.
EXTENDS Failover
=============================================================================
