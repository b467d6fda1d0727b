-------------------------- MODULE MCBackgroundFlush --------------------------
\* Two callers and buffers of two bytes: one Write can fill both buffers and wait
\* while the other caller writes or flushes.
EXTENDS BackgroundFlush
=============================================================================
