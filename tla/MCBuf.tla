-------------------------------- MODULE MCBuf --------------------------------
(* An instance of Buf for TLC: every section of at most MaxLen bytes. *)
EXTENDS Buf

CONSTANT MaxLen

MCSections == UNION {[1..n -> ByteKinds] : n \in 0..MaxLen}
=============================================================================
