------------------------- MODULE MCMultipartUpload -------------------------
(* A form small enough for TLC. *)
EXTENDS MultipartUpload

\* Two files around a piece of data.
FileDataFile == <<"file", "data", "file">>
=============================================================================
