--------------------------------- MODULE Absence ---------------------------------
(***************************************************************************)
(* The value of a field that holds nothing: Python's None, JSON's null.     *)
(***************************************************************************)

CONSTANT None       \* no value
==================================================================================
