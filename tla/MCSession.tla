------------------------------ MODULE MCSession ------------------------------
(* Requests for TLC: documents of up to three chunks, sizes announced that   *)
(* are too small and too large, replies with empty names and with names that *)
(* end in a line end.                                                        *)
EXTENDS Session

Word == {<< >>, <<Letter>>, <<Newline>>}

RowOf(company) == <<<<Letter>>, company, <<Letter>>, <<Newline>>>>

UpTo2(S) == {<< >>} \cup {<<a>> : a \in S} \cup {<<a, b>> : a, b \in S}

Uploads   == [op : {"UPLOAD"}, length : 0..3, size : 0..3]
Downloads == [op : {"DOWNLOAD"}, length : 0..3, old : {<< >>, <<Chunk(1)>>}]
Changes   == [op : StatusOps, tooLong : BOOLEAN]
Lists     == [op : {"LIST"}, names : UpTo2(Word)]
Searches  == [op : {"SEARCH"}, rows : UpTo2({RowOf(w) : w \in Word})]

AllRequests == Uploads \cup Downloads \cup Changes \cup Lists \cup Searches

\* The file is what it was when its size was taken.
HonestUploads == {r \in Uploads : r.size = r.length}
=============================================================================
