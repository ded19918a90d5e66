---------------------------- MODULE MCSerialLink ----------------------------
(***************************************************************************)
(* Small instances of SerialLink: bytes of three bits, and headers that    *)
(* are each other's complement, as 0xAA and 0x55 are.  Two of the payload  *)
(* bytes of SerialLink.cfg, {2} and {3}, are no header bytes, but together *)
(* they have one as their checksum.                                        *)
(***************************************************************************)
EXTENDS SerialLink

SmallPosition(n) == CASE n = 0 -> {} [] n = 1 -> {2} [] OTHER -> {1}
=============================================================================
