-------------------------- MODULE MCIpcSharedQueue --------------------------
(* IpcSharedQueue on a ring of three slots.  The number of sends lets *)
(* both indices go around the ring; Modulus stands for 2^32 and is large     *)
(* enough that a wrapped counter cannot be mistaken for an occupancy.        *)
EXTENDS IpcSharedQueue

MCCapacity == 3
MCModulus  == 8
MCMaxSends == 8

=============================================================================
