--------------------------- MODULE MCBufferedWriter ---------------------------
\* A ring of two slots and writes of up to three bytes: a write can fit, wrap
\* around, fill the ring or block.  A Flush can join the other caller's, and
\* either caller can go on while the other one is blocked.
EXTENDS BufferedWriter
=============================================================================
