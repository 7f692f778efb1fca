---------------------------- MODULE MCRescueTools ----------------------------
(* RescueTools scaled down: bytes of two bits, a checksum of three that is   *)
(* shifted by one, a sector of two bytes.  So the last three bytes reach the *)
(* checksum, two of them with all their bits (eleven and nine in the code).  *)
(* Boot files that fill the sector, leave room in it and overflow it; lines  *)
(* that fit every prompt, none, or paths only, and one that ends in "yes".   *)
EXTENDS RescueTools

MCHeaderSize  == 2
MCSectorSize  == 2
MCByteBits    == 2
MCShift       == 1
MCWidth       == 3
MCBootFiles   == { << {0}, {1} >>, << {0} >>, << {0, 1}, {}, {1} >> }
MCKernelFiles == { << {1}, {0, 1} >> }
MCMaxCommands == 3
MCMaxFaults   == 1

MCChoiceRoom == 2
MCPathRoom   == 3
MCMaxLines   == 9
MCLines ==
  { <<"\n">>, <<"x", "\n">>,
    <<"1", "\n">>, <<"2", "\n">>, <<"3", "\n">>, <<"4", "\n">>, <<"6", "\n">>,
    <<"yes", "\n">>, <<"x", "x", "\n">>, <<"x", "x", "x", "yes", "\n">> }

=============================================================================
