----------------------------- MODULE MCRefContext -----------------------------
\* Three contexts, four of them added: the list can hold one twice, and the
\* clean-up can remove from the middle and from the end.
EXTENDS RefContext
=============================================================================
