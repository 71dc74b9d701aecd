----------------------------- MODULE ArchiveSpec -----------------------------
(***************************************************************************)
(* What the archive promises of a document, whatever its tables, its spool *)
(* and its connections do: an upload owns an id for ever; its content only *)
(* ever grows, as a beginning of what was uploaded; once it is stored it   *)
(* stays, whole and listed, until its owner wants it removed; and once it  *)
(* is reported as removed nothing of it ever shows again.                  *)
(*                                                                         *)
(* Archive implements this (Archive!Promise).                              *)
(***************************************************************************)
EXTENDS Naturals, Sequences

CONSTANTS Page,    \* the ids of documents
          User, Nobody,
          Sizes,   \* the sizes of what is uploaded
          NULL     \* the text of a document that is not indexed

VARIABLES owner,   \* owner[p], the user p belongs to
          size,    \* size[p], the size its owner announced
          phase,   \* how far the life of p has come
          content, \* content[p], what a download of p delivers
          listed,  \* listed[p]: p can be found
          text     \* text[p], what a search of p looks at

doc == <<owner, size, phase, content, listed, text>>

Phase == {"free", "partial", "stored", "disposed", "removed"}

Whole(p) == [k \in 1..size[p] |-> <<p, k>>]

Init ==
  /\ owner = [p \in Page |-> Nobody]
  /\ size = [p \in Page |-> 0]
  /\ phase = [p \in Page |-> "free"]
  /\ content = [p \in Page |-> << >>]
  /\ listed = [p \in Page |-> FALSE]
  /\ text = [p \in Page |-> NULL]

\* An id is given to an upload once.  Its new owner may have asked for its
\* removal before, by guess.
Begin(p) ==
  /\ phase[p] = "free"
  /\ \E u \in User : owner' = [owner EXCEPT ![p] = u]
  /\ \E n \in Sizes : size' = [size EXCEPT ![p] = n]
  /\ phase' \in {[phase EXCEPT ![p] = ph] : ph \in {"partial", "disposed"}}
  /\ listed' = [listed EXCEPT ![p] = TRUE]
  /\ UNCHANGED <<content, text>>

\* The next chunk arrives.
Grow(p) ==
  /\ phase[p] \in {"partial", "disposed"}
  /\ Len(content[p]) < size[p]
  /\ content' = [content EXCEPT ![p] = Append(@, <<p, Len(@) + 1>>)]
  /\ UNCHANGED <<owner, size, phase, listed, text>>

Store(p) ==
  /\ phase[p] = "partial"
  /\ content[p] = Whole(p)
  /\ listed[p]
  /\ phase' = [phase EXCEPT ![p] = "stored"]
  /\ UNCHANGED <<owner, size, content, listed, text>>

\* Indexed, under a beginning of what is stored of it; if it is to be removed, the
\* text may be an older one.
SetText(p) ==
  /\ listed[p]
  /\ \E n \in 0..size[p] :
       /\ phase[p] # "disposed" => n <= Len(content[p])
       /\ text' = [text EXCEPT ![p] = SubSeq(Whole(p), 1, n)]
  /\ UNCHANGED <<owner, size, phase, content, listed>>

\* The owner wants it removed: it may be found no more, and its text with it.
Unlisted(p) ==
  \/ UNCHANGED <<listed, text>>
  \/ /\ listed' = [listed EXCEPT ![p] = FALSE]
     /\ text' = [text EXCEPT ![p] = NULL]

Dispose(p) ==
  /\ phase[p] \in {"partial", "stored", "disposed"}
  /\ phase' = [phase EXCEPT ![p] = "disposed"]
  /\ Unlisted(p)
  /\ content' \in {content, [content EXCEPT ![p] = << >>]}
  /\ content' = content \/ phase[p] = "disposed"
  /\ UNCHANGED <<owner, size>>

\* Nothing is left of it, and its owner is told so.
Remove(p) ==
  /\ phase[p] = "disposed"
  /\ ~listed[p]
  /\ content[p] = << >>
  /\ phase' = [phase EXCEPT ![p] = "removed"]
  /\ UNCHANGED <<owner, size, content, listed, text>>

Next == \E p \in Page :
  Begin(p) \/ Grow(p) \/ Store(p) \/ SetText(p) \/ Dispose(p) \/ Remove(p)

Spec == Init /\ [][Next]_doc
=============================================================================
