---------------------------- MODULE MCBootLibrary ----------------------------
(* BootLibrary with four calls of the functions that hold resources, and     *)
(* three of graphics.c on screens of a few pixels, 32 in place of 2^32.  One *)
(* firmware has the preferred modes in the wrong order, a decoy of the right *)
(* width and a scan line longer than the width; one has none of them.        *)
EXTENDS BootLibrary

Size(width, height, scan) == [width |-> width, height |-> height, scan |-> scan]

MCModeLists ==
  { [i \in 0 .. 3 |-> <<Size(2, 1, 2), Size(3, 1, 3), Size(3, 2, 4), Size(2, 2, 2)>>[i + 1]],
    [i \in 0 .. 1 |-> <<Size(1, 1, 1), Size(1, 2, 3)>>[i + 1]] }
MCPreferences == <<<<3, 2>>, <<2, 2>>, <<2, 1>>, <<0, 0>>>>
MCWordSize    == 32
MCCharSize    == 2
MCTextAt      == 1
MCTextLength  == 2
MCCoordinates == {0, 1, 2, 31}
MCMaxGfxCalls == 3
MCMaxRequests == 4

=============================================================================
