------------------------------ MODULE FstPackers ------------------------------
(***************************************************************************)
(* The packing of a chain or of a hierarchy by its letter                  *)
(* (src/src/grt/fst/fstapi.c): LZ4, FastLZ, or zlib, which is not in the   *)
(* repository: a byte of its own before the data.                          *)
(***************************************************************************)
EXTENDS Sequences, Integers

LZ4 == INSTANCE Lz4
FLZ == INSTANCE FastLz

Deflate(bytes) == <<120>> \o bytes
Inflate(bytes, size) == SubSeq(Tail(bytes), 1, size)

Packed(pack, bytes) ==
    CASE pack = "4" -> LZ4!Lz4Compress(bytes)
      [] pack = "F" -> FLZ!FastLzCompress(bytes)
      [] pack = "Z" -> Deflate(bytes)

Unpacked(pack, bytes, size) ==
    CASE pack = "4" -> LZ4!Lz4DecompressPartial(bytes, size)
      [] pack = "F" -> FLZ!FastLzDecompress(bytes, size)
      [] pack = "Z" -> Inflate(bytes, size)
=============================================================================
