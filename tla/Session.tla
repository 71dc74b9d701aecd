------------------------------- MODULE Session -------------------------------
(***************************************************************************)
(* One run of the client program (src/src/client) and the worker that      *)
(* serves it, over a connection that may break: what the client concludes  *)
(* from what it hears, and what is true at the server.                     *)
(*                                                                         *)
(* A byte is a number.  The header of a request and a reply other than a   *)
(* download are written at once.  Content is written byte by byte, which   *)
(* allows all that longer writes do; a round of the server's FD::copy      *)
(* takes any number of the bytes that wait.  Neither side ends TLS with a  *)
(* close_notify, so the end of a connection is what TCP tells of it.       *)
(***************************************************************************)
EXTENDS Naturals, Sequences, FiniteSets, SequencesExt

CONSTANTS Requests,  \* what the client program may be started to do
          Window,    \* how many bytes of content the sockets of one direction hold
          Faults     \* the kinds of failure a run allows

StatusOps == {"NEW_COMPANY", "REMOVE_COMPANY", "REMOVE_DOCUMENT"}

FaultKinds ==
  {"in", "out",     \* the client cannot read its file, or write its output
   "kill",          \* the client program is killed
   "query",         \* a statement fails at the server, with its effect or without
   "read", "write", \* the server cannot read or write the spool
   "short",          \* a write takes only some of the bytes, and FD::out() is content
   "slow",           \* what was sent is under way for more than three seconds
   "crash",         \* the server process dies
   "reset",         \* the connection is reset
   "silent"}        \* nothing passes any more, and nobody is told

OK       == 0    \* _response::OK, and the end of a string
ERR      == 1    \* _response::INTERNAL_ERROR
Msg      == 2    \* the text that follows it
Newline  == 3
Comma    == 4
Letter   == 5
Junk     == 6    \* what a dangling cursor reads
Header   == 7    \* the code and the values of a request
Chunk(k) == 10 + k

Content(n) == [k \in 1..n |-> Chunk(k)]

Character == {Newline, Letter}

ASSUME RequestsAssumption ==
  \A r \in Requests :
    \/ r.op = "UPLOAD" /\ r.length \in Nat /\ r.size \in Nat
    \/ r.op = "DOWNLOAD" /\ r.length \in Nat /\ r.old \in Seq(Nat)
    \/ r.op = "LIST" /\ r.names \in Seq(Seq(Character))
    \/ r.op = "SEARCH" /\ r.rows \in Seq(Seq(Seq(Character)))
         /\ \A i \in DOMAIN r.rows : Len(r.rows[i]) = 4 /\ r.rows[i][1] # << >>  \* a date
    \/ r.op \in StatusOps /\ r.tooLong \in BOOLEAN
ASSUME WindowAssumption == Window \in Nat \ {0}
ASSUME SessionFaultsAssumption == Faults \subseteq FaultKinds

VARIABLES req,     \* what the client program is to do
          c2s,     \* sent by the client and not read
          s2c,     \* sent by the server and not read
          conn,    \* the connection, as the client can see it
          held,    \* does a child of another worker hold the server's socket?
          cpc, todo, heard, out, col, result,  \* the client
          shown,   \* what a list or a search has written to the terminal
          unsaid,  \* did the client lose what it wrote, and go on as if it had not?
          spc, left, stored, sent, done,       \* the worker
          gap      \* did the worker, of what it wrote to the spool?

net    == <<c2s, s2c, conn, held>>
client == <<cpc, todo, heard, out, col, result, shown, unsaid>>
server == <<spc, left, stored, sent, done, gap>>
vars   == <<req, net, client, server>>

TypeOK ==
  /\ req \in Requests
  /\ c2s \in Seq(Nat) /\ Len(c2s) <= Window + 1
  /\ s2c \in Seq(Nat)
  /\ conn \in {"up", "closed", "reset", "silent"}
  /\ held \in {"no", "yes", "over"}
  /\ cpc \in {"start", "sending", "waiting", "receiving", "reading", "complain", "done"}
  /\ todo \in Nat
  /\ heard \in {"none", "OK", "ERR", "eof", "lost"}
  /\ out \in Seq(Nat)        \* the file of a download, or the cache of fout
  /\ col \in 0..3            \* x of perform_search
  /\ result \in {"none", "0", "-1", "killed"}
  /\ shown \in Seq(Nat)
  /\ unsaid \in BOOLEAN
  /\ spc \in {"request", "exec", "receiving", "sending", "closed", "dead", "stuck"}
  /\ left \in Nat
  /\ stored \in Seq(Nat)
  /\ sent \in Nat
  /\ done \in BOOLEAN        \* the statement of the request took effect
  /\ gap \in BOOLEAN

Init ==
  /\ req \in Requests
  /\ c2s = << >> /\ s2c = << >>
  /\ conn = "up"
  /\ held = "no"
  /\ cpc = "start"
  /\ todo = 0
  /\ heard = "none"
  /\ out = IF req.op = "DOWNLOAD" THEN req.old ELSE << >>
  /\ col = 0
  /\ result = "none"
  /\ shown = << >>
  /\ unsaid = FALSE
  /\ spc = "request"
  /\ left = 0
  /\ stored = << >>
  /\ sent = 0
  /\ done = FALSE
  /\ gap = FALSE

Fails(kind) == kind \in Faults

-----------------------------------------------------------------------------
(* The connection *)

Break(how) ==
  /\ conn' = how
  /\ c2s' \in Prefixes(c2s)
  /\ s2c' \in Prefixes(s2c)

\* The network fails.
Fault ==
  /\ conn = "up" /\ cpc # "start"
  /\ \E how \in {"reset", "silent"} : Fails(how) /\ Break(how)
  /\ UNCHANGED <<req, held, client, server>>

\* Another worker forks pdftotext, which inherits the socket, and ends.
Fork ==
  /\ held = "no" /\ cpc # "start" /\ spc \notin {"closed", "dead"}
  /\ held' = "yes"
  /\ UNCHANGED <<req, c2s, s2c, conn, client, server>>

ChildExits ==
  /\ held = "yes"
  /\ held' = "over"
  /\ UNCHANGED <<req, c2s, s2c, conn, client, server>>

\* The last descriptor of the server's socket is gone.  The client is told of the
\* end, or of a reset when bytes of its own were left unread.
ServerSocketCloses ==
  /\ spc \in {"closed", "dead"}
  /\ held # "yes"
  /\ conn = "up"
  /\ IF c2s = << >>
     THEN conn' = "closed" /\ UNCHANGED <<c2s, s2c>>
     ELSE Break("reset")
  /\ UNCHANGED <<req, held, client, server>>

\* The client is gone and the server is told, by a reset.
ClientSocketCloses ==
  /\ cpc = "done"
  /\ conn = "up"
  /\ s2c # << >>
  /\ Break("reset")
  /\ UNCHANGED <<req, held, client, server>>

-----------------------------------------------------------------------------
(* The client *)

Finish(how) == cpc' = "done" /\ result' = how

\* ssl_connect, and print(server, code, values ...); an upload opens its file
\* before it says anything.
Start ==
  /\ cpc = "start"
  /\ \/ /\ c2s' = <<Header>>
        /\ cpc' = IF req.op = "UPLOAD" THEN "sending" ELSE "waiting"
        /\ todo' = IF req.op = "UPLOAD" THEN req.length ELSE 0
        /\ UNCHANGED result
     \/ /\ req.op = "UPLOAD"
        /\ Fails("in")
        /\ Finish("-1")
        /\ UNCHANGED <<c2s, todo>>
  /\ UNCHANGED <<req, s2c, conn, held, heard, out, col, shown, unsaid, server>>

\* A write on a connection that the other side has left.
WriteFails == (cpc' = "complain" /\ UNCHANGED result) \/ Finish("killed")

\* A round of in.copy(server), whatever size was announced.
SendChunk ==
  /\ cpc = "sending"
  /\ todo > 0
  /\ \/ /\ conn = "up"
        /\ Len(c2s) < Window
        /\ c2s' = Append(c2s, Chunk(req.length - todo + 1))
        /\ todo' = todo - 1
        /\ UNCHANGED <<s2c, conn, cpc, result>>
     \/ /\ conn = "closed"
        /\ todo' = todo - 1
        /\ Break("reset")
        /\ UNCHANGED <<cpc, result>>
     \/ /\ conn = "silent"
        /\ todo' = todo - 1
        /\ UNCHANGED <<c2s, s2c, conn, cpc, result>>
     \/ /\ conn = "reset"
        /\ WriteFails
        /\ UNCHANGED <<c2s, s2c, conn, todo>>
     \/ /\ Fails("in")
        /\ cpc' = "complain"
        /\ UNCHANGED <<c2s, s2c, conn, todo, result>>
  /\ UNCHANGED <<req, held, heard, out, col, shown, unsaid, server>>

SendEnds ==
  /\ cpc = "sending"
  /\ todo = 0
  /\ cpc' = "waiting"
  /\ UNCHANGED <<req, net, todo, heard, out, col, result, shown, unsaid, server>>

ReadsOn == req.op \in {"DOWNLOAD", "LIST", "SEARCH"}

\* Its two lines; all that the parser looks at is that they end.
Title == <<Newline>>

\* print(fout, ...) of the title, whose result is not looked at.  What could not be
\* written stays in the cache.
PrintTitle(read) ==
  \/ shown' = Title /\ out' = read /\ UNCHANGED unsaid
  \/ Fails("short") /\ out' = read /\ unsaid' = TRUE /\ UNCHANGED shown
  \/ Fails("out") /\ out' = Title \o read /\ unsaid' = TRUE /\ UNCHANGED shown

\* What follows an OK, with what eachByte() or copy() finds in the cache first.
Proceed(read) ==
  \/ ~ReadsOn /\ Finish("0") /\ UNCHANGED <<out, shown, unsaid>>
  \/ /\ req.op \in {"DOWNLOAD", "LIST"}
     /\ cpc' = IF req.op = "DOWNLOAD" THEN "receiving" ELSE "reading"
     /\ out' = out \o read
     /\ UNCHANGED <<result, shown, unsaid>>
  \/ req.op = "SEARCH" /\ cpc' = "reading" /\ PrintTitle(read) /\ UNCHANGED result

\* if(server.next()): next() yields 0 when there is nothing to read, and when the
\* read fails, and 0 is OK.  After a failed read _data_p is left outside of the
\* resized _cache, and who reads on reads what lies there.
HearStatus ==
  /\ cpc = "waiting"
  /\ \/ /\ s2c # << >>
        /\ s2c' = Tail(s2c)
        /\ IF Head(s2c) = OK
           THEN heard' = "OK" /\ Proceed(<< >>)
           ELSE /\ heard' = "ERR"
                /\ cpc' = "complain"
                /\ UNCHANGED <<result, out, shown, unsaid>>
     \/ /\ s2c = << >>
        /\ conn = "closed"
        /\ heard' = "eof"
        /\ Proceed(<< >>)
        /\ UNCHANGED s2c
     \/ /\ s2c = << >>
        /\ conn = "reset"
        /\ heard' = "lost"
        /\ \/ Proceed(<<Junk>>)
           \/ ReadsOn /\ Finish("killed") /\ UNCHANGED <<out, shown, unsaid>>
        /\ UNCHANGED s2c
  /\ UNCHANGED <<req, c2s, conn, held, todo, col, server>>

\* server_err(): the text up to the end of the connection, or as much as fits.
Complain ==
  /\ cpc = "complain"
  /\ s2c # << >> \/ conn \in {"closed", "reset"}
  /\ s2c' \in {<< >>, s2c}
  /\ Finish("-1")
  /\ UNCHANGED <<req, c2s, conn, held, todo, heard, out, col, shown, unsaid, server>>

\* A slip DownloadIsTrue rules out: the result of load() is not looked at.
ReceiveIgnoresErrors ==
  /\ cpc = "receiving"
  /\ \/ /\ s2c # << >>
        /\ out' = Append(out, Head(s2c))
        /\ s2c' = Tail(s2c)
        /\ UNCHANGED <<cpc, result>>
     \/ /\ s2c = << >>
        /\ conn \in {"closed", "reset"}
        /\ Finish("0")
        /\ UNCHANGED <<out, s2c>>
  /\ UNCHANGED <<req, c2s, conn, held, todo, heard, col, shown, unsaid, server>>

\* A round of server.copy(outfile), behind what the file held before.
Receive ==
  /\ cpc = "receiving"
  /\ \/ /\ s2c # << >>
        /\ s2c' = Tail(s2c)
        /\ \/ out' = Append(out, Head(s2c)) /\ UNCHANGED unsaid
           \/ Fails("short") /\ unsaid' = TRUE /\ UNCHANGED out
        /\ UNCHANGED <<cpc, result>>
     \/ /\ s2c # << >> \/ (conn = "closed" /\ heard = "OK")
        /\ Fails("out")
        /\ Finish("-1")
        /\ s2c' = IF s2c = << >> THEN s2c ELSE Tail(s2c)
        /\ UNCHANGED <<out, unsaid>>
     \/ /\ s2c = << >>
        /\ conn \in {"closed", "reset"}
        /\ Finish(IF conn = "closed" THEN "0" ELSE "-1")
        /\ UNCHANGED <<out, unsaid, s2c>>
  /\ UNCHANGED <<req, c2s, conn, held, todo, heard, col, shown, server>>

\* The lambdas of perform_list_company and perform_search: whether they BREAK at
\* ch, and what they make of it otherwise.
Breaks(ch) ==
  /\ ch = OK
  /\ req.op = "SEARCH" => col # 3
  /\ out # << >> /\ Last(out) = Newline

\* A slip RepliesAreShown rules out: a row of three fields.
ShownAsThree(ch) ==
  CASE ch # OK -> <<ch>>
    [] ch = OK /\ req.op = "LIST" -> IF out = << >> THEN << >> ELSE <<Newline>>
    [] OTHER -> IF col = 2 THEN <<Newline>> ELSE <<Comma>>

ShownAs(ch) ==
  CASE ch # OK -> <<ch>>
    [] ch = OK /\ req.op = "LIST" -> IF out = << >> THEN << >> ELSE <<Newline>>
    [] OTHER -> IF col = 3 THEN <<Newline>> ELSE <<Comma>>

\* fout.out(), at the end of both: perform_list_company returns 0 whatever came of
\* it, perform_search returns its result.
Flush ==
  \/ shown' = shown \o out /\ Finish("0") /\ UNCHANGED unsaid
  \/ /\ Fails("short")
     /\ \E part \in Prefixes(out) : shown' = shown \o part
     /\ unsaid' = TRUE
     /\ Finish("0")
  \/ /\ Fails("out")
     /\ UNCHANGED shown
     /\ IF req.op = "LIST" THEN Finish("0") /\ unsaid' = TRUE
                           ELSE Finish("-1") /\ UNCHANGED unsaid

\* server.eachByte(...), whose error is not looked at.
Read ==
  /\ cpc = "reading"
  /\ \/ /\ s2c # << >>
        /\ s2c' = Tail(s2c)
        /\ IF Breaks(Head(s2c))
           THEN Flush /\ UNCHANGED <<out, col>>
           ELSE /\ out' = out \o ShownAs(Head(s2c))
                /\ col' = IF req.op = "SEARCH" /\ Head(s2c) = OK
                          THEN (col + 1) % 4 ELSE col
                /\ UNCHANGED <<cpc, result, shown, unsaid>>
     \/ /\ s2c = << >>
        /\ conn \in {"closed", "reset"}
        /\ Flush
        /\ UNCHANGED <<s2c, out, col>>
  /\ UNCHANGED <<req, c2s, conn, held, todo, heard, server>>

Kill ==
  /\ Fails("kill")
  /\ cpc \notin {"start", "done"}
  /\ Finish("killed")
  /\ UNCHANGED <<req, net, todo, heard, out, col, shown, unsaid, server>>

Client == Start \/ SendChunk \/ SendEnds \/ HearStatus \/ Complain \/ Receive \/ Read

-----------------------------------------------------------------------------
(* The worker *)

peerGone == cpc = "done" /\ conn = "up"   \* and what it sent has been read

Say(bytes) ==
  s2c' = IF conn = "up" /\ cpc # "done" THEN s2c \o bytes ELSE s2c

Leave(bytes) == spc' = "closed" /\ Say(bytes)

ErrorReply == <<ERR, Msg>>

\* getRequest, and load() of the values.  Without a byte getRequest yields SEARCH,
\* which loads nothing at the end of the stream and answers nobody; and after an
\* error or three seconds it looks through a null cursor (RequestReader).  A value
\* that does not come is not answered either.
ReadRequest ==
  /\ spc = "request"
  /\ cpc # "start"
  /\ \/ c2s # << >> /\ c2s' = Tail(c2s) /\ spc' = "exec"
     \/ c2s = << >> /\ peerGone /\ spc' = "closed" /\ UNCHANGED c2s
     \/ c2s = << >> /\ conn \in {"reset", "silent"} /\ spc' = "dead" /\ UNCHANGED c2s
     \/ Fails("slow") /\ spc' \in {"closed", "dead"} /\ UNCHANGED c2s
  /\ UNCHANGED <<req, s2c, conn, held, client, left, stored, sent, done, gap>>

\* The connection falls silent inside a TLS record: select() has seen its beginning,
\* and SSL_read, on a socket that blocks, waits for its end without a limit.
WaitForRest ==
  /\ conn = "silent"
  /\ spc = "request" \/ (spc = "receiving" /\ left > 0)
  /\ spc' = "stuck"
  /\ UNCHANGED <<req, net, client, left, stored, sent, done, gap>>

\* No connection to the database, or no such user: the request is left unread.
Refuse ==
  /\ spc = "request"
  /\ cpc # "start"
  /\ Fails("query")
  /\ Leave(ErrorReply)
  /\ UNCHANGED <<req, c2s, conn, held, client, left, stored, sent, done, gap>>

Terminated(strings) == FlattenSeq([i \in DOMAIN strings |-> Append(strings[i], OK)])

\* The handlers that answer once.
ExecStatus ==
  /\ spc = "exec"
  /\ req.op \in StatusOps
  /\ \/ /\ ~req.tooLong
        /\ done' = TRUE
        /\ Leave(<<OK>>)
     \/ /\ Fails("query") \/ (req.tooLong /\ req.op # "REMOVE_DOCUMENT")
        /\ done' \in {FALSE, ~req.tooLong}
        /\ Leave(ErrorReply)
     \/ \* print() of db.err_msg, a null pointer: the handler ends by an exception
        /\ req.tooLong /\ req.op = "REMOVE_DOCUMENT"
        /\ Leave(<< >>)
        /\ UNCHANGED done
  /\ UNCHANGED <<req, c2s, conn, held, client, left, stored, sent, gap>>

ExecList ==
  /\ spc = "exec"
  /\ req.op \in {"LIST", "SEARCH"}
  /\ \/ /\ done' = TRUE
        /\ Leave(<<OK>> \o Terminated(IF req.op = "LIST" THEN req.names
                                      ELSE FlattenSeq(req.rows)) \o <<OK>>)
     \/ /\ Fails("query")
        /\ UNCHANGED done
        /\ Leave(IF req.op = "LIST" THEN ErrorReply ELSE <<OK, OK>>)
  /\ UNCHANGED <<req, c2s, conn, held, client, left, stored, sent, gap>>

ExecDownload ==
  /\ spc = "exec"
  /\ req.op = "DOWNLOAD"
  /\ \/ spc' = "sending" /\ Say(<<OK>>)
     \/ Leave(ErrorReply)       \* there is no such file
  /\ UNCHANGED <<req, c2s, conn, held, client, left, stored, sent, done, gap>>

\* A round of page.copy(*_socket).  An error, or three seconds without room in
\* the socket, is reported behind what was sent, if that can be sent.
ServeChunk ==
  /\ spc = "sending"
  /\ \/ /\ sent < req.length
        /\ Len(s2c) < Window
        /\ Say(<<Chunk(sent + 1)>>)
        /\ sent' = sent + 1
        /\ UNCHANGED spc
     \/ /\ sent = req.length
        /\ Leave(<< >>)
        /\ UNCHANGED sent
     \/ /\ Fails("read") \/ Len(s2c) >= Window \/ cpc = "done" \/ conn # "up"
        /\ Leave(ErrorReply) \/ Leave(<< >>)
        /\ UNCHANGED sent
  /\ UNCHANGED <<req, c2s, conn, held, client, left, stored, done, gap>>

ExecUpload ==
  /\ spc = "exec"
  /\ req.op = "UPLOAD"
  /\ \/ /\ spc' = "receiving"
        /\ left' = req.size
        /\ UNCHANGED s2c
     \/ /\ Leave(ErrorReply)    \* there is no such company
        /\ UNCHANGED left
  /\ UNCHANGED <<req, c2s, conn, held, client, stored, sent, done, gap>>

\* What copy() takes of a round's bytes: max of them, and one more if there is one.
TakenOf(bytes, max) == IF Len(bytes) <= max THEN bytes ELSE SubSeq(bytes, 1, max + 1)

\* A slip TypeOK rules out: max is not looked at.
StoreChunkPastMax ==
  /\ spc = "receiving"
  /\ c2s # << >>
  /\ c2s' = Tail(c2s)
  /\ stored' = Append(stored, Head(c2s))
  /\ left' = left - 1
  /\ UNCHANGED <<req, s2c, conn, held, client, spc, sent, done, gap>>

\* A round of _socket->copy(out, size): a load() of some of the bytes, of which
\* those behind the document are dropped, and out.out().
StoreChunk ==
  /\ spc = "receiving"
  /\ left > 0
  /\ \E n \in 1..Len(c2s) :
       LET taken == TakenOf(SubSeq(c2s, 1, n), left)
       IN /\ c2s' = SubSeq(c2s, n + 1, Len(c2s))
          /\ \/ /\ \/ stored' = stored \o taken /\ UNCHANGED gap
                   \/ /\ Fails("short")
                      /\ \E part \in Prefixes(taken) : stored' = stored \o part
                      /\ gap' = TRUE
                /\ left' = IF n <= left THEN left - n ELSE 0
                /\ UNCHANGED <<spc, s2c>>
             \/ /\ Fails("write")
                /\ Leave(ErrorReply)
                /\ UNCHANGED <<stored, left, gap>>
  /\ UNCHANGED <<req, conn, held, client, sent, done>>

\* Slips ExchangeEnds and OkIsTrue rule out: a read without a time limit, and a
\* time-out taken for the end.
StoreStopsOnlyAtError ==
  /\ spc = "receiving"
  /\ left > 0
  /\ c2s = << >>
  /\ \/ peerGone /\ Leave(<<OK>>)
     \/ conn = "reset" /\ Leave(ErrorReply)
  /\ UNCHANGED <<req, c2s, conn, held, client, left, stored, sent, done, gap>>

StoreStopsAsEnd ==
  /\ spc = "receiving"
  /\ left > 0
  /\ c2s = << >>
  /\ Leave(<<OK>>)
  /\ UNCHANGED <<req, c2s, conn, held, client, left, stored, sent, done, gap>>

\* No byte for three seconds, an error, or the end of the stream, which copy()
\* takes for the end of the document.
StoreStops ==
  /\ spc = "receiving"
  /\ left > 0
  /\ \/ /\ c2s = << >> \/ Fails("slow")
        /\ Leave(ErrorReply)
     \/ c2s = << >> /\ peerGone /\ Leave(<<OK>>)
  /\ UNCHANGED <<req, c2s, conn, held, client, left, stored, sent, done, gap>>

StoreEnds ==
  /\ spc = "receiving"
  /\ left = 0
  /\ Leave(<<OK>>)
  /\ UNCHANGED <<req, c2s, conn, held, client, left, stored, sent, done, gap>>

Crash ==
  /\ Fails("crash")
  /\ cpc # "start"
  /\ spc \notin {"closed", "dead"}
  /\ spc' = "dead"
  /\ UNCHANGED <<req, net, client, left, stored, sent, done, gap>>

Worker ==
  \/ Refuse \/ ReadRequest \/ ExecStatus \/ ExecList \/ ExecDownload \/ ServeChunk
  \/ ExecUpload \/ StoreChunk \/ StoreStops \/ StoreEnds

-----------------------------------------------------------------------------
Next ==
  \/ Client \/ Worker \/ WaitForRest
  \/ Fork \/ ChildExits \/ ServerSocketCloses \/ ClientSocketCloses
  \/ Fault \/ Kill \/ Crash

\* The programs run, pdftotext ends, and the kernel tells the client of a socket
\* that was closed.
Fairness ==
  /\ WF_vars(Client)
  /\ WF_vars(Worker)
  /\ WF_vars(ChildExits)
  /\ WF_vars(ServerSocketCloses)

Spec == Init /\ [][Next]_vars /\ Fairness

-----------------------------------------------------------------------------
\* An OK that the client was told by the server is true, whatever timed out, broke
\* or was read as an end of file on the way: the statement has taken effect, and the
\* client sent as much as it announced.  If no write to the spool was cut short
\* without a word, the document is stored as far as its announced size, and by one
\* byte more at most (proxy.cpp:220-257; the OK that copy() gives for an upload cut
\* short is heard by nobody).
OkIsTrue ==
  heard = "OK" =>
    /\ req.op = "UPLOAD" =>
         /\ req.size <= req.length
         /\ gap \/ \E n \in {req.size, req.size + 1} : n <= req.length /\ stored = Content(n)
    /\ req.op \in StatusOps => done

\* What a download appends to its file, once the client was told OK, is a beginning
\* of the document, with a report of an error behind it at the very most, unless a
\* write to the file was cut short without a word.  What the client then calls a
\* success is all that the server sent; that this was the whole document it cannot
\* know (download.cpp:54, proxy.cpp:143-174).
DownloadIsTrue ==
  req.op = "DOWNLOAD" /\ heard = "OK" /\ ~unsaid =>
    LET got == SubSeq(out, Len(req.old) + 1, Len(out))
    IN /\ IsPrefix(req.old, out)
       /\ \E n \in 0..req.length : IsPrefix(got, Content(n) \o ErrorReply)
       /\ result = "0" =>
            got \in {Content(sent), Content(sent) \o ErrorReply}

Lines(names) ==
  FlattenSeq([i \in DOMAIN names |->
    IF names[i] = << >> THEN << >> ELSE Append(names[i], Newline)])
Row(r) == r[1] \o <<Comma>> \o r[2] \o <<Comma>> \o r[3] \o <<Comma>> \o r[4] \o <<Newline>>
Table(rows) == FlattenSeq([i \in DOMAIN rows |-> Row(rows[i])])

EndsLine(s) == s # << >> /\ Last(s) = Newline

\* What reaches the terminal of a list or of a search the server has answered is a
\* beginning of the list or of the table, and all of it when the client says 0,
\* unless the connection broke, a name is empty or ends in a line end, which the
\* parsers take for the end, or a write failed or was cut short and nobody was told:
\* the title of the table, and all of the list (list.cpp:49-67, search.cpp:116-137).
RepliesAreShown ==
  heard = "OK" /\ done /\ ~unsaid =>
    /\ req.op = "LIST" =>
         LET ordinary == \A i \in DOMAIN req.names : req.names[i] # << >> /\ ~EndsLine(req.names[i])
             full     == Lines(req.names)
         IN /\ IsPrefix(shown, full)
            /\ result = "0" /\ conn \in {"up", "closed"} /\ ordinary => shown = full
    /\ req.op = "SEARCH" =>
         LET ordinary == \A i \in DOMAIN req.rows : \A f \in 1..3 : ~EndsLine(req.rows[i][f])
             full     == Title \o IF req.rows = << >> THEN <<Comma>> ELSE Table(req.rows)
         IN /\ IsPrefix(shown, full)
            /\ result = "0" /\ conn \in {"up", "closed"} /\ ordinary => shown = full

\* The exchange ends for both: neither waits for the other for ever, although the
\* client has no time limit and announces a size that may not be what it sends.
\* Only a connection that falls silent keeps a client, and a worker only if it does
\* so inside a TLS record (_ssl.cpp:94, :141, ssl_stream.cpp:22).
ExchangeEnds ==
  /\ (cpc # "start") ~> (cpc = "done" \/ conn = "silent")
  /\ (cpc # "start") ~> (spc \in {"closed", "dead"} \/ (spc = "stuck" /\ conn = "silent"))

-----------------------------------------------------------------------------
\* What the tests say of the client's functions: they return 0 for what was done
\* (test.cpp:126-146, EXPECT_EQ(0, client::perform_upload(...)) << "Upload failed").
SuccessIsTrue ==
  result = "0" =>
    /\ req.op = "UPLOAD" => stored = Content(req.length)
    /\ req.op = "DOWNLOAD" => out = req.old \o Content(req.length)
    /\ req.op \in StatusOps => done
=============================================================================
