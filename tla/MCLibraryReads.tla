---------------------------- MODULE MCLibraryReads ----------------------------
(* LibraryReads for TLC: two files, of two formats. *)
EXTENDS LibraryReads

CONSTANTS a, b

MCCodec == [p \in {a, b} |-> IF p = a THEN "flac" ELSE "mp3"]
=============================================================================
