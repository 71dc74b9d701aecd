---------------------------- MODULE RequestReader ----------------------------
(***************************************************************************)
(* How a handler reads its request: the buffer of FD (include/file/file.h) *)
(* over the TLS stream, getRequest, the load() templates of                *)
(* include/server/proxy.h, and copy(), which moves the body of an upload   *)
(* from that buffer to the spool file.                                     *)
(*                                                                         *)
(* A request is one byte, the code, and then values ended by a zero byte;  *)
(* an upload goes on with as many bytes as its last value says.            *)
(* What the client sends arrives in pieces of any size up to cacheSize;    *)
(* between two pieces the client may close, the stream may fail, or the    *)
(* select() before the read may time out.  The read itself has no time     *)
(* limit: a client that stops inside of a TLS record keeps it waiting.     *)
(***************************************************************************)
EXTENDS Integers, Sequences, FiniteSets, SequencesExt

CONSTANTS Byte,       \* the bytes a client sends (ASCII), 0 among them
          MaxSent,    \* bound on the length of what a client sends
          cacheSize,  \* the argument of load() (1024 in _ssl.cpp:141)
          Layout,     \* Layout[code]: the max of each value the request loads
          Keywords,   \* Keywords[code]: max_params of the trailing vector
          MaxKeyword, \* max_size of the vector
          Uploads     \* the codes whose last value is the size of a body

ASSUME ByteAssumption   == 0 \in Byte /\ Byte \subseteq Nat
ASSUME CacheAssumption  == cacheSize \in Nat \ {0} /\ MaxSent \in Nat
ASSUME LayoutAssumption ==
  /\ 0 \in DOMAIN Layout          \* SEARCH (proxy.h:28)
  /\ \A code \in DOMAIN Layout : Layout[code] \in Seq(Nat)
  /\ Keywords \in [DOMAIN Layout -> Nat]
  /\ MaxKeyword \in Nat
  /\ Uploads \subseteq {code \in DOMAIN Layout : Layout[code] # << >> /\ Keywords[code] = 0}

VARIABLES sent,       \* all the bytes the client sends
          delivered,  \* how many of them load() has read
          cache,      \* _cache
          cursor,     \* _data_p, as the number of bytes of _cache before it
          fresh,      \* no load() succeeded yet: _data_p is null
          eof,        \* _stream.eof()
          pc,
          code,       \* the request code
          values,     \* the values loaded
          buf,        \* the value being loaded
          req_errno,  \* requestBase::req_errno
          err_msg,    \* whether requestBase::err_msg was set
          left,       \* the argument max of copy()
          stored,     \* what copy() wrote to the spool file
          answer      \* what copy() returned

fd   == <<delivered, cache, cursor, fresh, eof>>
body == <<left, stored, answer>>
vars == <<sent, fd, pc, code, values, buf, req_errno, err_msg, body>>

Error == {"STREAM_ERR", "TIMEOUT"}

TypeOK ==
  /\ sent \in Seq(Byte)
  /\ delivered \in 0..Len(sent)
  /\ cache \in Seq(Byte) /\ Len(cache) <= cacheSize
  /\ cursor \in 0..cacheSize
  /\ fresh \in BOOLEAN /\ eof \in BOOLEAN
  /\ pc \in {"code", "value", "exec", "copy", "copied", "failed", "unknown", "crashed",
             "blocked"}
  /\ code \in Byte
  /\ values \in Seq(Seq(Byte \ {0}))
  /\ buf \in Seq(Byte \ {0})
  /\ req_errno \in Error \cup {"OK", "CUSTOM_ERR"}
  /\ err_msg \in BOOLEAN
  /\ left \in Int
  /\ stored \in Seq(Byte)
  /\ answer \in Error \cup {"none", "OK", "COPY_STREAM_ERR"}

Init ==
  /\ sent \in UNION {[1..n -> Byte] : n \in 0..MaxSent}
  /\ delivered = 0
  /\ cache = << >>
  /\ cursor = 0
  /\ fresh = TRUE
  /\ eof = FALSE
  /\ pc = "code"
  /\ code = 0
  /\ values = << >>
  /\ buf = << >>
  /\ req_errno = "OK"
  /\ err_msg = FALSE
  /\ left = 0
  /\ stored = << >>
  /\ answer = "none"

-----------------------------------------------------------------------------
(* FD::load *)

end_of_buffer == cursor = Len(cache)

\* A slip ParsedAsSent rules out: the cursor behind the first byte.
LoadsBytesSkips(n, used) ==
  /\ n \in 1..cacheSize
  /\ delivered + n <= Len(sent)
  /\ cache' = SubSeq(sent, delivered + 1, delivered + n)
  /\ delivered' = delivered + n
  /\ cursor' = IF used = 0 THEN 1 ELSE used
  /\ fresh' = FALSE
  /\ UNCHANGED eof

\* The read returns n bytes, and the caller takes the first `used' of them.
LoadsBytes(n, used) ==
  /\ n \in 1..cacheSize
  /\ delivered + n <= Len(sent)
  /\ cache' = SubSeq(sent, delivered + 1, delivered + n)
  /\ delivered' = delivered + n
  /\ cursor' = used
  /\ fresh' = FALSE
  /\ UNCHANGED eof

\* The client has closed: the read returns no byte, which is no error.
LoadsEof ==
  /\ delivered = Len(sent)
  /\ cache' = << >>
  /\ cursor' = 0
  /\ fresh' = FALSE
  /\ eof' = TRUE
  /\ UNCHANGED delivered

\* A slip TypeOK rules out: the cache grows by max_bytes.
LoadFailsGrows ==
  /\ cache' = cache \o [i \in 1..cacheSize |-> 0]
  /\ UNCHANGED <<delivered, cursor, fresh, eof>>

\* select() or the read fails.  _cache has been resized before, and keeps that
\* size; the cursor stays where it was.
LoadFails ==
  /\ cache' = [i \in 1..cacheSize |-> IF i <= Len(cache) THEN cache[i] ELSE 0]
  /\ UNCHANGED <<delivered, cursor, fresh, eof>>

-----------------------------------------------------------------------------
(* getRequest and load() *)

\* Does the request load another value behind vs?  The vector ends at an empty
\* value or after max_params values.
More(c, vs) ==
  LET fixed == Len(Layout[c])
  IN \/ Len(vs) < fixed
     \/ /\ Len(vs) < fixed + Keywords[c]
        /\ Len(vs) > fixed => Last(vs) # << >>

max(c, vs) == IF Len(vs) < Len(Layout[c]) THEN Layout[c][Len(vs) + 1] ELSE MaxKeyword

Dispatch(c) ==
  /\ code' = c
  /\ pc' = IF c \notin DOMAIN Layout THEN "unknown"
           ELSE IF More(c, << >>) THEN "value" ELSE "exec"

\* switch(socket->next()): next() yields 0 for an empty read and for a failed
\* one, and 0 is the code of SEARCH.
GetRequest ==
  /\ pc = "code"
  /\ \/ \E n \in 1..cacheSize : LoadsBytes(n, 1) /\ Dispatch(cache'[1])
     \/ (LoadsEof \/ LoadFails) /\ Dispatch(0)
  /\ UNCHANGED <<sent, values, buf, req_errno, err_msg, body>>

\* Slips ValueBounded and ReadingBounded rule out: ">=", and no check at all.
TooLongAtMax == Len(buf) >= max(code, values)
NeverTooLong == FALSE

TooLong == Len(buf) > max(code, values)

Blank == (9..13) \cup {32}
Plus  == 43
Minus == 45
Digit == 48..57

\* How many blanks a string begins with.
Blanks(str) ==
  CHOOSE n \in 0..Len(str) :
    /\ \A i \in 1..n : str[i] \in Blank
    /\ n < Len(str) => str[n + 1] \notin Blank

\* atol(): blanks, a sign, and digits up to the first byte that is none.  (The
\* eleven bytes load() may take do not overflow an int64_t.)
Number(str) ==
  LET sign  == Blanks(str) + 1
      signed(s) == sign <= Len(str) /\ str[sign] = s
      first == IF signed(Plus) \/ signed(Minus) THEN sign + 1 ELSE sign
      value[n \in 0..Len(str)] ==
        IF n < first THEN 0
        ELSE IF \A i \in first..n : str[i] \in Digit
             THEN 10 * value[n - 1] + (str[n] - 48)
             ELSE value[n - 1]
  IN IF signed(Minus) THEN -value[Len(str)] ELSE value[Len(str)]

\* The value is loaded; after the last one the handler goes on, a requestUpload
\* with _socket->copy(out, size).
EndValue ==
  /\ values' = Append(values, buf)
  /\ buf' = << >>
  /\ pc' = IF More(code, values') THEN "value"
           ELSE IF code \in Uploads THEN "copy" ELSE "exec"
  /\ left' = IF pc' = "copy" THEN Number(buf) ELSE left
  /\ UNCHANGED <<stored, answer>>

Fail(errno, msg) ==
  /\ pc' = "failed"
  /\ req_errno' = errno
  /\ err_msg' = msg
  /\ UNCHANGED <<values, buf, body>>

\* eachByte at the end of the buffer.
LoadMore ==
  /\ pc = "value"
  /\ ~eof
  /\ end_of_buffer
  /\ \/ /\ LoadsEof \/ \E n \in 1..cacheSize : LoadsBytes(n, 0)
        /\ UNCHANGED <<pc, values, buf, req_errno, err_msg, body>>
     \/ LoadFails /\ \E errno \in Error : Fail(errno, FALSE)
  /\ UNCHANGED <<sent, code>>

\* eachByte calls f with the byte under the cursor.  The size is looked at
\* before the byte is.  A null cursor is dereferenced all the same.
TakeByte ==
  /\ pc = "value"
  /\ ~eof
  /\ ~end_of_buffer
  /\ IF fresh
     THEN pc' = "crashed" /\ UNCHANGED <<cursor, values, buf, req_errno, err_msg, body>>
     ELSE LET ch == cache[cursor + 1]
          IN /\ cursor' = cursor + 1
             /\ \/ /\ TooLong
                   /\ Fail("CUSTOM_ERR", TRUE)
                \/ /\ ~TooLong
                   /\ ch = 0
                   /\ EndValue
                   /\ UNCHANGED <<req_errno, err_msg>>
                \/ /\ ~TooLong
                   /\ ch # 0
                   /\ buf' = Append(buf, ch)
                   /\ UNCHANGED <<pc, values, req_errno, err_msg, body>>
  /\ UNCHANGED <<sent, delivered, cache, fresh, eof, code>>

\* A slip Settles rules out: eachByte tries again at the end of the stream.
ValueAtEofRetries ==
  /\ pc = "value"
  /\ eof
  /\ UNCHANGED vars

\* eachByte returns OK at the end of the stream: the value counts as it is.
ValueAtEof ==
  /\ pc = "value"
  /\ eof
  /\ EndValue
  /\ UNCHANGED <<sent, fd, code, req_errno, err_msg>>

-----------------------------------------------------------------------------
(* FD::copy *)

\* A slip StoredIsBody rules out: max is not looked at within a round.
TakenAll(avail) == avail

\* The inner loop pushes a byte before it looks at max: of the bytes at hand it
\* takes one more than max.  A max below zero, -1 or another, never gets to zero.
Taken(avail) == IF left < 0 \/ avail <= left THEN avail ELSE left + 1

\* out.out() writes the bytes, or fails.
Out(bytes) ==
  \/ /\ stored' = stored \o bytes
     /\ left' = IF left < 0 \/ Len(bytes) <= left THEN left - Len(bytes) ELSE 0
     /\ UNCHANGED <<pc, answer>>
  \/ /\ pc' = "copied"
     /\ answer' = "COPY_STREAM_ERR"
     /\ UNCHANGED <<stored, left>>

\* One round of the outer loop: load() at the end of the buffer, push, out().
CopyRound ==
  /\ pc = "copy"
  /\ ~eof
  /\ left # 0
  /\ \/ /\ ~end_of_buffer
        /\ cursor' = cursor + Taken(Len(cache) - cursor)
        /\ Out(SubSeq(cache, cursor + 1, cursor'))
        /\ UNCHANGED <<delivered, cache, fresh, eof>>
     \/ /\ end_of_buffer
        /\ \E n \in 1..cacheSize :
             LoadsBytes(n, Taken(n)) /\ Out(SubSeq(cache', 1, cursor'))
     \/ /\ end_of_buffer
        /\ LoadsEof
        /\ Out(<< >>)
     \/ /\ end_of_buffer
        /\ LoadFails
        /\ pc' = "copied"
        /\ answer' \in Error
        /\ UNCHANGED <<left, stored>>
  /\ UNCHANGED <<sent, code, values, buf, req_errno, err_msg>>

CopyEnds ==
  /\ pc = "copy"
  /\ eof \/ left = 0
  /\ pc' = "copied"
  /\ answer' = "OK"
  /\ UNCHANGED <<sent, fd, code, values, buf, req_errno, err_msg, left, stored>>

-----------------------------------------------------------------------------
\* A load() that does not return: select() saw the first bytes of a TLS record, and
\* SSL_read() waits for the others on a blocking socket.
LoadBlocks ==
  /\ \/ pc = "code"
     \/ pc = "value" /\ ~eof /\ end_of_buffer
     \/ pc = "copy" /\ ~eof /\ left # 0 /\ end_of_buffer
  /\ LoadFails      \* the cache has been resized
  /\ pc' = "blocked"
  /\ UNCHANGED <<sent, code, values, buf, req_errno, err_msg, body>>

Next ==
  \/ GetRequest \/ LoadMore \/ TakeByte \/ ValueAtEof \/ CopyRound \/ CopyEnds
  \/ LoadBlocks

\* The worker goes on: a wait for the client ends, by TIMEOUT at the latest, or is
\* one that LoadBlocks tells of, which nothing is bound to.
Spec == Init /\ [][Next]_vars /\ WF_vars(Next /\ pc' # "blocked")

-----------------------------------------------------------------------------
(* What the client meant: the values are what lies between zero bytes. *)

\* The zero bytes behind the code, among the first n bytes of s.
ZerosTo(s, n) == {i \in 2..n : s[i] = 0}

\* How many values the client ended.
Ended(s) == Cardinality(ZerosTo(s, Len(s)))

\* The place of the zero byte that ends the k-th value, of which k zero bytes lie
\* behind the code; the end of s stands for those that are missing.
EndOf(s, k) ==
  IF k = 0 THEN 1
  ELSE IF k > Ended(s) THEN Len(s) + 1
  ELSE CHOOSE i \in 2..Len(s) : s[i] = 0 /\ Cardinality(ZerosTo(s, i)) = k

ValueOf(s, k) == SubSeq(s, EndOf(s, k - 1) + 1, EndOf(s, k) - 1)

\* The values the request loads are those the client sent, however the bytes
\* were cut into pieces; only when the client closed a value may lack its end,
\* and is then what was left of the bytes (file.h:114-131, proxy.h:61-128).
ParsedAsSent ==
  \A k \in 1..Len(values) :
    /\ values[k] = ValueOf(sent, k)
    /\ k > Ended(sent) => eof

\* What an upload stores is a beginning of what lies behind its last value, from
\* the first byte on, although copy() starts in the buffer that load() left half
\* read; answered OK, it is the whole body of a client that sends no more than the
\* size it gave, and one byte beyond the size at most of a client that does.  A
\* size below zero counts as none: all that the client sends is stored
\* (file.h:216, 224-239; proxy.h:95).
StoredIsBody ==
  stored # << >> \/ answer = "OK" =>
    LET ended  == Len(values) <= Ended(sent)
        bytes  == SubSeq(sent, EndOf(sent, Len(values)) + 1, Len(sent))
        size   == Number(Last(values))
    IN /\ IsPrefix(stored, bytes)
       /\ size >= 0 => Len(stored) <= size + 1
       /\ answer = "OK" => stored = bytes \/ (ended /\ 0 <= size /\ size <= Len(stored))

\* A value that its client ended is no longer than its max, and none is refused that
\* is only as long as its max (proxy.h:63: "size() > max").
ValueBounded ==
  /\ \A k \in 1..Len(values) :
       ~eof => Len(values[k]) <= max(code, SubSeq(values, 1, k - 1))
  /\ req_errno = "CUSTOM_ERR" => Len(buf) > max(code, values)

\* The server reads no more than the bounds of proxy.h allow: a client cannot
\* make it collect values without end ("Don't want to read client
\* indefinetely", proxy.h:22).
ReadingBounded ==
  pc # "code" /\ code \in DOMAIN Layout =>
    /\ Len(values) <= Len(Layout[code]) + Keywords[code]
    /\ pc = "value" => Len(buf) <= max(code, values) + 1

\* The reader's own loops come to an end, whatever is cut, closed or fails: the
\* handler runs or gives up the request.  The exceptions are a thread that died of
\* the dangling cursor, which CursorValid is about, and one that SSL_read() keeps
\* because its client stopped inside of a TLS record.
Settles ==
  (pc \in {"code", "value", "copy"})
    ~> (pc \in {"exec", "copied", "failed", "unknown"} \cup {"crashed", "blocked"})

-----------------------------------------------------------------------------
(* What a comment says of the reader, and it does not do. *)

\* "If _cache.empty() return '\0'" (file.h:110): a byte is taken from the buffer
\* only when a load() has filled it.
CursorValid == pc # "crashed"
=============================================================================
