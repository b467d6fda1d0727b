--------------------------- MODULE MCHijackListener ---------------------------
\* Two connections, two servers and two closers: a hand-over can race a Close, a
\* second Close the first, and an Accept can wait for the only token.
EXTENDS HijackListener
=============================================================================
