------------------------------ MODULE MCLockMap ------------------------------
\* Three goroutines: one delayed in tryDelete while another object for the same
\* key is made, used and found by the third.  There are as many names for
\* objects as can be in use at once.
EXTENDS LockMap
=============================================================================
