------------------------- MODULE MCBoincProxyUpload -------------------------
(***************************************************************************)
(* An instance of BoincProxyUpload: two files, one of them empty, with a   *)
(* buffer of two bytes; headers shorter and longer than the buffer, and of *)
(* exactly its length.  With the two longest headers the sizes of the      *)
(* first upload wrap around: to nothing, and to a part of what they are.   *)
(***************************************************************************)
EXTENDS BoincProxyUpload

ALongAndAnEmptyFile == <<4, 0>>
FourHeaders == {1, 2, 3, 5}
AnyFault == FaultKinds
=============================================================================
