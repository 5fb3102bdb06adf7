----------------------------- MODULE MCKString ------------------------------
(***************************************************************************)
(* string.c on memories of five bytes.  The ints given to memset and       *)
(* strrchr are bytes, one above 255 and a negative one.                    *)
(***************************************************************************)
EXTENDS KString

MCInts == {0, 1, 200, 456, -56}
=============================================================================
