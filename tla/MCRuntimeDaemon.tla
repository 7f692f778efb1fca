-------------------------- MODULE MCRuntimeDaemon ---------------------------
(* RuntimeDaemon with queues of two messages, so that both fill up, and one  *)
(* request more than the loop's limit lets through.  The requests are one    *)
(* for each path through process_message, from two processes.                *)
EXTENDS RuntimeDaemon

Ask(type, source, size) == [type |-> type, source |-> source, size |-> size]

MCRequests ==
  { Ask("RESET_SYSTEM", 0, 4), Ask("RESET_SYSTEM", 7, 3),
    Ask("GET_TIME", 7, 0),
    Ask("SET_TIME", 7, 16), Ask("SET_TIME", 0, 15),
    Ask("GET_VARIABLE", 7, 2),
    Ask("SET_VARIABLE", 7, 2),
    Ask("SHUTDOWN", 7, 0) }

\* The requests behind the calls of dos25_syscalls.h, as it declares them.
MCSyscalls ==
  { Ask("RESET_SYSTEM", 7, 4), Ask("GET_TIME", 7, 0), Ask("SET_TIME", 7, 16),
    Ask("GET_VARIABLE", 7, 2), Ask("SET_VARIABLE", 7, 2) }

MCQueueSize   == 2
MCMaxMessages == 3
MCMaxPosts    == 4

=============================================================================
