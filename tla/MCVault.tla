------------------------------- MODULE MCVault -------------------------------
(* Bytes for TLC: one-byte secrets at the ends of the range, one of two bytes, *)
(* and shard numbers on both sides of 128.                                     *)
EXTENDS Vault

SomeSecrets == {<<>>, <<Zero>>, <<ByteOf(167), ByteOf(255)>>}
SomeRandoms == {ByteOf(90)}
=============================================================================
