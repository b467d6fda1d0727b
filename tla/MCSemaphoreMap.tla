---------------------------- MODULE MCSemaphoreMap ----------------------------
\* Semaphores of two tokens: three goroutines can share one, wait in order behind
\* a larger request, give up waiting, fail to try, ask for more than there is and
\* release in parts.
EXTENDS SemaphoreMap
=============================================================================
