------------------------ MODULE MCPipelinedFlushWriter ------------------------
\* Three goroutines with one call each: three batches, or fewer with followers, so
\* that a flush overlaps the write of the next batch while a third waits.
EXTENDS PipelinedFlushWriter
=============================================================================
