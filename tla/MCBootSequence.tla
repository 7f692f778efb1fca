--------------------------- MODULE MCBootSequence ---------------------------
(* BootSequence with queues of four messages: room for the three requests    *)
(* the bootloader posts.  The daemon's limit is the code's own.  For the     *)
(* layout of the shared memory the queue size is the code's own, too.        *)
EXTENDS BootSequence

MCQueueSize    == 4
RealQueueSize  == 256
MCMaxMessages  == 5
MCMaxPosts     == 3
MCRequests     == {Asks("GET_TIME", 0), Asks("RESET_SYSTEM", SizeOfU32)}

=============================================================================
