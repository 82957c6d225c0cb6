-------------------------- MODULE MCFileTransfer ---------------------------
(***************************************************************************)
(* Two transfers of any kind and an upload.  They meet at the source path, *)
(* at the destination path, and in the store.                              *)
(***************************************************************************)
EXTENDS FileTransfer, TLC

CONSTANTS a, b

\* A file that fits and a version of it that is longer, and too long.
MCSources == {<<a, b>>, <<b, b, a>>}

MCUploaded == <<b, a>>

Symmetry == Permutations(Jobs)
=============================================================================
