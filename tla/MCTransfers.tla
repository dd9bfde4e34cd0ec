----------------------------- MODULE MCTransfers -----------------------------
(* Two operations of any kind, on small buffers and arrays of blocks.       *)
EXTENDS TransfersRefinement

\* An empty buffer, and one that can be transferred in two parts.
MCBufferLoans == {<<0>>, <<2>>}

\* Parts that end in a block, at its end, and before an empty block.
MCVectorLoans == {<<2, 0, 1>>}

\* Interruptions of vector operations and reads, and of one of the plain writes.
MCInterruptible == VectorOps \cup {"RAW_READ", "WEBSOCKET_WRITE"}
=============================================================================
