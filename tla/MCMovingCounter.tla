---------------------------- MODULE MCMovingCounter ----------------------------
\* Three buckets that do not divide the period.  (MCObjects has two that do.)
EXTENDS MovingCounter
=============================================================================
