----------------------------- MODULE MCFileBuffer ----------------------------
(***************************************************************************)
(* TLC instance of FileBuffer: an empty file, two of the same length that  *)
(* differ in every byte, and a longer one; one file may begin as another.  *)
(***************************************************************************)
EXTENDS FileBuffer

MCContents == {<< >>, <<1, 2>>, <<3, 4>>, <<1, 2, 5>>}
==============================================================================
