--------------------------- MODULE MCUploadSession ---------------------------
(* A small instance of UploadSession. *)
EXTENDS UploadSession, TLC

CONSTANTS A, B, t1, t2   \* two files, two content tags

MCFiles == {A, B}
MCSize == (A :> 2 @@ B :> 1)

\* The file, the tag, both or the slot differ from one run to another.
MCSessions ==
  {[file |-> A, id |-> 257, tag |-> t1], [file |-> A, id |-> 257, tag |-> t2],
   [file |-> B, id |-> 257, tag |-> t2], [file |-> B, id |-> 1, tag |-> t1]}
=============================================================================
