--------------------------- MODULE MCRequestReader ---------------------------
(* A layout small enough for TLC, with the shapes of proxy.cpp: a SEARCH    *)
(* (values, then keywords), a LIST_COMPANIES (nothing), an UPLOAD (values,  *)
(* then a body).  The bytes are "-", "1" and "2" beside the zero, so that   *)
(* sizes are positive, negative, zero or no numbers at all; "1" and "2" are *)
(* the codes as well.                                                       *)
EXTENDS RequestReader, TLC

SmallBytes    == {0, Minus, 49, 50}
SmallLayout   == (0 :> <<1>>) @@ (49 :> << >>) @@ (50 :> <<1, 2>>)
SmallKeywords == (0 :> 2) @@ (49 :> 0) @@ (50 :> 0)
SmallUploads  == {50}
=============================================================================
