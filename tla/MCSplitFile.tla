---------------------------- MODULE MCSplitFile ----------------------------
(* Files of up to nine bytes, chunks of one to four, buffers of three: the  *)
(* chunk is smaller than, equal to and larger than the buffer, and divides  *)
(* both the buffer and the file, one of them, or neither.                   *)
EXTENDS SplitFile

MCSizes  == 0 .. 9
MCChunks == 1 .. 4
=============================================================================
