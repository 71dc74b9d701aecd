------------------------------ MODULE Archive -------------------------------
(***************************************************************************)
(* What the server keeps (the Company and Document tables, the spool of    *)
(* pdf files) and the connection handlers of src/server/proxy.cpp that     *)
(* change it, one per worker thread, each with its own Database.           *)
(*                                                                         *)
(* A statement sent to MySQL is one step, and so is each call that opens,  *)
(* reads, writes or unlinks a file; the handlers interleave between them.  *)
(* A statement or a call may fail, the peer may go away, the process may   *)
(* die: the kinds of failure a run allows are the constant Faults.         *)
(***************************************************************************)
EXTENDS Naturals, Sequences, FiniteSets, SequencesExt

CONSTANTS Handler,     \* worker threads that serve a connection
          User,        \* idUser of the rows of table user
          Nobody,      \* no user: a Common Name that table user lacks
          NULL,        \* content of a document not indexed yet
          Name,        \* company names that requests carry
          Ops,         \* the request codes (proxy.h:26-36) a run exercises
          Sizes,       \* sizes of the uploaded documents, in chunks
          Faults,      \* the kinds of failure a run allows
          MaxCompany,  \* the largest id the column idCompany holds
          MaxPage      \* the largest id the column idPage holds

Page == 1..MaxPage

Request ==
       [op : {"SEARCH"}, name : Name \cup {""}, keywords : {"plain", "quoted"}]
  \cup [op : {"LIST_COMPANIES"}]
  \cup [op : {"DOWNLOAD", "REMOVE_DOCUMENT"}, idPage : Page]
  \cup [op : {"UPLOAD"}, name : Name, size : Sizes]
  \cup [op : {"NEW_COMPANY", "REMOVE_COMPANY"}, name : Name]

NoRequest == [op |-> "NONE"]

FaultKinds ==
  {"query",  \* a statement (or the connection to MySQL) fails
   "open", "read", "write", "unlink",  \* a call on the spool fails
   "short",  \* write() stores less than it is given and reports no error
   "proc",   \* pdftotext cannot be started or read, or ends before its time
   "peer",   \* the client closes, resets or falls silent
   "crash",  \* the server process dies and is started again
   "restart"}  \* mysqld does (one before MySQL 8)

ASSUME NobodyAssumption == Nobody \notin User
ASSUME NullAssumption   == NULL \notin Seq(Page \X (Nat \ {0}))
ASSUME OpsAssumption    == Ops \subseteq {"SEARCH", "LIST_COMPANIES", "DOWNLOAD", "UPLOAD",
                              "NEW_COMPANY", "REMOVE_COMPANY", "REMOVE_DOCUMENT"}
ASSUME SizesAssumption  == Sizes \subseteq Nat
ASSUME FaultsAssumption == Faults \subseteq FaultKinds
ASSUME BoundsAssumption == MaxCompany \in Nat /\ MaxPage \in Nat

Chunk == Page \X (Nat \ {0})     \* <<idPage of the upload, position>>
NoFile == 0                      \* a stream whose open() failed

VARIABLES company,      \* rows of table Company
          document,     \* rows of table Document
          nextCompany,  \* AUTO_INCREMENT of Company (InnoDB: kept in memory)
          nextPage,     \* AUTO_INCREMENT of Document (MyISAM: kept with the table)
          files,        \* the spool directory: files[path] is an inode
          disk,         \* disk[inode]: the chunks of the file
          conn,         \* conn[h]: the connection worker h serves
          upload,       \* history: upload[id], who uploaded it and its size
          acked,        \* history: uploads whose OK was sent, all bytes received
          tried,        \* history: <<idUser, idPage>> somebody tried to remove
          removed       \* history: those of them that were answered OK, and whose
                        \* DELETE came after the INSERT

database == <<company, document, nextCompany, nextPage>>
spool    == <<files, disk>>
history  == <<upload, acked, tried, removed>>
vars     == <<database, spool, conn, history>>

PC == {"idle", "authenticated", "exec", "sending", "opening", "receiving",
       "extracting", "indexing", "unlinking", "reply", "closed", "stuck"}

Response == {"none", "OK", "INTERNAL_ERROR", "CORRUPT_REQUEST"}

Text == {NULL} \cup Seq(Chunk)

Connection ==
  [pc     : PC,
   idUser : User \cup {Nobody},
   req    : Request \cup {NoRequest},
   idPage : Nat,        \* the document an upload created
   file   : Nat,        \* inode of the open ioFile
   left   : Nat,        \* max of FD::copy: what is still to be received
   got    : Seq(Chunk), \* what a download sent, or the text of an upload
   found  : SUBSET Page,   \* what a search answered
   late   : BOOLEAN,    \* history: a download began after the upload's OK, a
                        \* removal after the INSERT of the row
   answer : Response]

Idle ==
  [pc |-> "idle", idUser |-> Nobody, req |-> NoRequest, idPage |-> 0,
   file |-> NoFile, left |-> 0, got |-> << >>, found |-> {}, late |-> FALSE,
   answer |-> "none"]

\* What the program counter tells of the rest of a connection.
Consistent(c) ==
  /\ c.pc = "authenticated" \/ c.req # NoRequest => c.idUser \in User
  /\ c.pc \in {"exec", "sending", "unlinking"} => c.req \in Request
  /\ c.pc = "unlinking" => c.req.op = "REMOVE_DOCUMENT"
  /\ c.pc \in {"opening", "receiving", "extracting", "indexing"} =>
       c.req \in Request /\ c.req.op = "UPLOAD" /\ c.idPage \in Page
  /\ c.pc = "receiving" => c.left <= c.req.size
  /\ c.pc = "sending" => c.req.op = "DOWNLOAD" /\ c.file # NoFile

TablesOK ==
  /\ company \in SUBSET [id : 1..MaxCompany, user : User, name : Name]
  /\ document \in SUBSET [id : Page, user : User, company : 1..MaxCompany, content : Text]
  /\ nextCompany \in 1..(MaxCompany + 1)
  /\ nextPage \in 1..(MaxPage + 1)

SpoolOK ==
  /\ disk \in Seq(Seq(Chunk))
  /\ DOMAIN files \subseteq User \X Page
  /\ files \in [DOMAIN files -> 1..Len(disk)]

HistoryOK ==
  /\ upload \in [Page -> [user : User \cup {Nobody}, size : Nat]]
  /\ acked \in SUBSET Page
  /\ tried \in SUBSET (User \X Page)
  /\ removed \in SUBSET (User \X Page)

ConnOK ==
  /\ conn \in [Handler -> Connection]
  /\ \A h \in Handler : Consistent(conn[h]) /\ conn[h].file <= Len(disk)

TypeOK == TablesOK /\ SpoolOK /\ HistoryOK /\ ConnOK

Init ==
  /\ company = {}
  /\ document = {}
  /\ nextCompany = 1
  /\ nextPage = 1
  /\ files = << >>
  /\ disk = << >>
  /\ conn = [h \in Handler |-> Idle]
  /\ upload = [id \in Page |-> [user |-> Nobody, size |-> 0]]
  /\ acked = {}
  /\ tried = {}
  /\ removed = {}

-----------------------------------------------------------------------------
(* The statements of database.cpp, as what they do to the tables.  A       *)
(* statement that reports an error may still have been executed (the       *)
(* connection was lost before the result arrived).                         *)

\* A slip TypeOK rules out: a counter that passes the width of its column.
newCompanyTwice(name, u) ==
  /\ company' = company \cup {[id |-> i, user |-> u, name |-> name] :
                                i \in {nextCompany, nextCompany + 1}}
  /\ nextCompany' = nextCompany + 2
  /\ UNCHANGED <<document, nextPage>>

newCompany(name, u) ==
  /\ company' = company \cup {[id |-> nextCompany, user |-> u, name |-> name]}
  /\ nextCompany' = nextCompany + 1
  /\ UNCHANGED <<document, nextPage>>

removeCompany(name, u) ==
  /\ company' = {c \in company : ~(c.name = name /\ c.user = u)}
  /\ UNCHANGED <<document, nextCompany, nextPage>>

\* The companies the sub-select may yield: LIMIT 1 without ORDER BY.
CompanyNamed(name, u) == {c \in company : c.user = u /\ c.name = name}

\* Slips CompanyOfOwner and FileOfOneUpload rule out: the sub-select without
\* the user, and an id that is free again once its document is gone.
newDocumentAnyOwner(u, name) ==
  /\ \E c \in {c \in company : c.name = name} :
       document' = document \cup
         {[id |-> nextPage, user |-> u, company |-> c.id, content |-> NULL]}
  /\ nextPage' = nextPage + 1
  /\ UNCHANGED <<company, nextCompany>>

newDocumentReusesId(u, name) ==
  LET id == CHOOSE i \in Page : /\ \A d \in document : d.id # i
                               /\ \A j \in 1..(i - 1) : \E d \in document : d.id = j
  IN /\ \E c \in CompanyNamed(name, u) :
          document' = document \cup
            {[id |-> id, user |-> u, company |-> c.id, content |-> NULL]}
     /\ nextPage' = id + 1
     /\ UNCHANGED <<company, nextCompany>>

newDocument(u, name) ==
  /\ \E c \in CompanyNamed(name, u) :
       document' = document \cup
         {[id |-> nextPage, user |-> u, company |-> c.id, content |-> NULL]}
  /\ nextPage' = nextPage + 1
  /\ UNCHANGED <<company, nextCompany>>

\* Slips OrphanOnlyByRemoval and OnlyOwnerChanges rule out: DELETE with one of
\* its two conditions missing.
removeDocumentsOfUser(idPage, u) ==
  /\ document' = {d \in document : d.user # u}
  /\ UNCHANGED <<company, nextCompany, nextPage>>

removeDocumentAnyOwner(idPage, u) ==
  /\ document' = {d \in document : d.id # idPage}
  /\ UNCHANGED <<company, nextCompany, nextPage>>

removeDocument(idPage, u) ==
  /\ document' = {d \in document : ~(d.id = idPage /\ d.user = u)}
  /\ UNCHANGED <<company, nextCompany, nextPage>>

\* A slip IndexMatchesFile rules out: UPDATE without its condition.
setAllContent(idPage, text) ==
  /\ document' = {[d EXCEPT !.content = text] : d \in document}
  /\ UNCHANGED <<company, nextCompany, nextPage>>

setDocContent(idPage, text) ==
  /\ document' =
       {IF d.id = idPage THEN [d EXCEPT !.content = text] ELSE d : d \in document}
  /\ UNCHANGED <<company, nextCompany, nextPage>>

\* A slip OnlyOwnData rules out: the search of everybody's documents.
searchAll(u, name) ==
  {d.id : d \in {d \in document :
     \E c \in company : c.id = d.company /\ name \in {"", c.name}}}

\* The inner join of search: a document whose company is gone is not found.  The
\* date and the keywords narrow it further.
search(u, name) ==
  {d.id : d \in {d \in document : d.user = u /\
     \E c \in company : c.id = d.company /\ name \in {"", c.name}}}

-----------------------------------------------------------------------------
(* The spool. *)

getDocPath(u, idPage) == <<u, idPage>>

exists(path) == path \in DOMAIN files

\* fileStreamWrite: O_CREAT | O_APPEND | O_WRONLY.
openForAppend(path) ==
  IF exists(path)
  THEN UNCHANGED spool
  ELSE /\ disk' = Append(disk, << >>)
       /\ files' = [p \in DOMAIN files \cup {path} |->
                      IF p = path THEN Len(disk) + 1 ELSE files[p]]

inode(path) == IF exists(path) THEN files[path] ELSE Len(disk) + 1

unlink(path) ==
  /\ files' = [p \in DOMAIN files \ {path} |-> files[p]]
  /\ UNCHANGED disk

-----------------------------------------------------------------------------
(* Steps of a handler. *)

At(h, label) == conn[h].pc = label
Exec(h, op)  == At(h, "exec") /\ conn[h].req.op = op
Fails(kind)  == kind \in Faults

Goto(h, label) == conn' = [conn EXCEPT ![h].pc = label]

\* print(*_socket, response, ...), the last thing the handler does.
Answer(h, response) ==
  conn' = [conn EXCEPT ![h].pc = "reply", ![h].answer = response]

\* The client falls silent in the middle of a TLS record, or reads no more of an
\* answer that fills its window: select() has let the call begin, and nothing bounds
\* how long it waits on the blocking socket.  Nothing of such a connection is needed
\* any more.
PeerStalls(h) ==
  /\ conn[h].pc \in {"authenticated", "receiving", "sending", "reply"}
  /\ At(h, "receiving") => conn[h].left > 0
  /\ Fails("peer")
  /\ conn' = [conn EXCEPT ![h] = [Idle EXCEPT !.pc = "stuck"]]
  /\ UNCHANGED <<database, spool, history>>

\* The lambda of start_server: connect to MySQL and look the Common Name up.
Accept(h, cn) ==
  /\ At(h, "idle")
  /\ \/ /\ cn \in User
        /\ conn' = [conn EXCEPT ![h].pc = "authenticated", ![h].idUser = cn]
     \/ /\ cn \notin User \/ Fails("query")
        /\ Answer(h, "INTERNAL_ERROR")
  /\ UNCHANGED <<database, spool, history>>

\* getRequest and the load() at the head of every exec.
ReadRequest(h, r) ==
  /\ At(h, "authenticated")
  /\ r.op \in Ops
  /\ conn' = [conn EXCEPT ![h].pc = "exec", ![h].req = r]
  /\ UNCHANGED <<database, spool, history>>

\* The code is unknown, or a value is too long, or the client falls silent: the
\* handler returns (or throws, in requestRemoveDocument) before it did anything.
BadRequest(h) ==
  /\ At(h, "authenticated")
  /\ Fails("peer")
  /\ \E response \in {"none", "CORRUPT_REQUEST"} : Answer(h, response)
  /\ UNCHANGED <<database, spool, history>>

\* The answer is on its way and ~Client closes the connection.
Reply(h) ==
  /\ At(h, "reply")
  /\ Goto(h, "closed")
  /\ removed' = IF conn[h].req.op = "REMOVE_DOCUMENT" /\ conn[h].answer = "OK" /\ conn[h].late
                THEN removed \cup {<<conn[h].idUser, conn[h].req.idPage>>}
                ELSE removed
  /\ UNCHANGED <<database, spool, upload, acked, tried>>

\* The worker is free for the next connection.
Hangup(h) ==
  /\ At(h, "closed")
  /\ conn' = [conn EXCEPT ![h] = Idle]
  /\ UNCHANGED <<database, spool, history>>

\* One statement.  MySQL refuses it unless it is `valid'; else it succeeds, or
\* fails with or without its effect.
Statement(h, valid, effect, next) ==
  \/ valid /\ effect /\ next
  \/ valid /\ Fails("query") /\ effect /\ Answer(h, "INTERNAL_ERROR")
  \/ /\ ~valid \/ Fails("query")
     /\ UNCHANGED database
     /\ Answer(h, "INTERNAL_ERROR")

\* What the SELECT of search may yield.  A statement that fails counts as an empty
\* result, for err_msg of the Database is not looked at.  Keywords with a quotation
\* mark in them go into the statement as they are (database.cpp:106-113): what is
\* selected then is theirs to say.
Selected(h) ==
  LET r == conn[h].req
  IN IF r.keywords = "plain" THEN SUBSET search(conn[h].idUser, r.name)
     ELSE SUBSET {d.id : d \in document}

Search(h) ==
  /\ Exec(h, "SEARCH")
  /\ \E ids \in Selected(h) :
       conn' = [conn EXCEPT ![h].pc = "reply", ![h].found = ids, ![h].answer = "OK"]
  /\ UNCHANGED <<database, spool, history>>

ListCompanies(h) ==
  /\ Exec(h, "LIST_COMPANIES")
  /\ Statement(h, TRUE, UNCHANGED database, Answer(h, "OK"))
  /\ UNCHANGED <<spool, history>>

NewCompany(h) ==
  /\ Exec(h, "NEW_COMPANY")
  /\ Statement(h, nextCompany <= MaxCompany,
       newCompany(conn[h].req.name, conn[h].idUser), Answer(h, "OK"))
  /\ UNCHANGED <<spool, history>>

RemoveCompany(h) ==
  /\ Exec(h, "REMOVE_COMPANY")
  /\ Statement(h, TRUE,
       removeCompany(conn[h].req.name, conn[h].idUser), Answer(h, "OK"))
  /\ UNCHANGED <<spool, history>>

(* requestRemoveDocument: the row first, then the file. *)

RemoveRow(h) ==
  /\ Exec(h, "REMOVE_DOCUMENT")
  /\ Statement(h, TRUE, removeDocument(conn[h].req.idPage, conn[h].idUser),
       conn' = [conn EXCEPT ![h].pc = "unlinking",
                            ![h].late = conn[h].req.idPage < nextPage])
  /\ tried' = tried \cup {<<conn[h].idUser, conn[h].req.idPage>>}
  /\ UNCHANGED <<spool, upload, acked, removed>>

RemoveFile(h) ==
  LET path == getDocPath(conn[h].idUser, conn[h].req.idPage)
  IN /\ At(h, "unlinking")
     /\ \/ exists(path) /\ unlink(path) /\ Answer(h, "OK")
        \/ /\ ~exists(path) \/ Fails("unlink")
           /\ Answer(h, "INTERNAL_ERROR")
           /\ UNCHANGED spool
     /\ UNCHANGED <<database, history>>

(* requestDownload looks at the spool only, never at table Document. *)

OpenDownload(h) ==
  LET path == getDocPath(conn[h].idUser, conn[h].req.idPage)
  IN /\ Exec(h, "DOWNLOAD")
     /\ \/ /\ exists(path)
           /\ conn' = [conn EXCEPT ![h].pc = "sending", ![h].file = files[path],
                                   ![h].answer = "OK",
                                   ![h].late = conn[h].req.idPage \in acked]
        \/ /\ ~exists(path) \/ Fails("open")
           /\ Answer(h, "INTERNAL_ERROR")
     /\ UNCHANGED <<database, spool, history>>

\* Slips LateDownloadWhole and ConnectionEnds rule out: an error taken for the
\* end of the file, and an end of the file that is not noticed.
SendChunkErrorIsEnd(h) ==
  LET c == conn[h]
  IN /\ At(h, "sending")
     /\ \/ /\ Len(c.got) < Len(disk[c.file])
           /\ conn' = [conn EXCEPT ![h].got = Append(@, disk[c.file][Len(c.got) + 1])]
        \/ /\ \/ Len(c.got) >= Len(disk[c.file])
              \/ Fails("read") \/ Fails("peer")
           /\ Goto(h, "reply")
     /\ UNCHANGED <<database, spool, history>>

SendChunkNoEnd(h) ==
  LET c == conn[h]
  IN /\ At(h, "sending")
     /\ \/ /\ Len(c.got) < Len(disk[c.file])
           /\ conn' = [conn EXCEPT ![h].got = Append(@, disk[c.file][Len(c.got) + 1])]
        \/ Len(c.got) >= Len(disk[c.file]) /\ UNCHANGED conn
     /\ UNCHANGED <<database, spool, history>>

\* One round of page.copy(*_socket): the next chunk, the end of the file as it
\* is now, or an error, which is reported behind what was already sent.
SendChunk(h) ==
  LET c == conn[h]
  IN /\ At(h, "sending")
     /\ \/ /\ Len(c.got) < Len(disk[c.file])
           /\ conn' = [conn EXCEPT ![h].got = Append(@, disk[c.file][Len(c.got) + 1])]
        \/ /\ Len(c.got) >= Len(disk[c.file])
           /\ Goto(h, "reply")
        \/ /\ Fails("read") \/ Fails("peer")
           /\ Answer(h, "INTERNAL_ERROR")
     /\ UNCHANGED <<database, spool, history>>

(* requestUpload: the row, the file, the answer, then the text of the pdf. *)

\* Without a company of that name Company_idCompany would be NULL.
InsertDocument(h) ==
  LET u == conn[h].idUser
      r == conn[h].req
  IN /\ Exec(h, "UPLOAD")
     /\ Statement(h, nextPage <= MaxPage /\ CompanyNamed(r.name, u) # {},
          newDocument(u, r.name),
          conn' = [conn EXCEPT ![h].pc = "opening", ![h].idPage = nextPage])
     /\ upload' = IF nextPage' = nextPage THEN upload
                  ELSE [upload EXCEPT ![nextPage] = [user |-> u, size |-> r.size]]
     /\ UNCHANGED <<spool, acked, tried, removed>>

\* The result of out.access() is ignored.
OpenUpload(h) ==
  LET path == getDocPath(conn[h].idUser, conn[h].idPage)
      receive(f) == conn' = [conn EXCEPT ![h].pc = "receiving", ![h].file = f,
                                         ![h].left = conn[h].req.size]
  IN /\ At(h, "opening")
     /\ \/ openForAppend(path) /\ receive(inode(path))
        \/ Fails("open") /\ receive(NoFile) /\ UNCHANGED spool
     /\ UNCHANGED <<database, history>>

\* A slip AckedUploadStored rules out: a failed write goes unnoticed.
ReceiveChunkUnchecked(h) ==
  LET c == conn[h]
      chunk == <<c.idPage, c.req.size - c.left + 1>>
  IN /\ At(h, "receiving")
     /\ c.left > 0
     /\ conn' = [conn EXCEPT ![h].left = @ - 1]
     /\ \/ c.file # NoFile /\ disk' = [disk EXCEPT ![c.file] = Append(@, chunk)]
        \/ (c.file = NoFile \/ Fails("write")) /\ UNCHANGED disk
     /\ UNCHANGED <<database, files, history>>

\* One round of _socket->copy(out, size) while the client sends.
ReceiveChunk(h) ==
  LET c == conn[h]
      chunk == <<c.idPage, c.req.size - c.left + 1>>
      more  == conn' = [conn EXCEPT ![h].left = @ - 1]
  IN /\ At(h, "receiving")
     /\ c.left > 0
     /\ \/ /\ c.file # NoFile
           /\ disk' = [disk EXCEPT ![c.file] = Append(@, chunk)]
           /\ more
        \/ /\ Fails("short") /\ c.file # NoFile
           /\ more
           /\ UNCHANGED disk
        \/ /\ c.file = NoFile \/ Fails("write")
           /\ Answer(h, "INTERNAL_ERROR")
           /\ UNCHANGED disk
     /\ UNCHANGED <<database, files, history>>

\* The client sends no more: an error or a timeout is answered, a close is not
\* told from the end of the document.
ReceiveStops(h) ==
  /\ At(h, "receiving")
  /\ conn[h].left > 0
  /\ Fails("peer")
  /\ Answer(h, "INTERNAL_ERROR") \/ Goto(h, "extracting")
  /\ UNCHANGED <<database, spool, history>>

\* A slip AckedIsIndexed rules out: the connection is closed before the index.
ReceiveEndsHere(h) ==
  /\ At(h, "receiving")
  /\ conn[h].left = 0
  /\ conn' = [conn EXCEPT ![h].pc = "closed", ![h].answer = "OK"]
  /\ acked' = acked \cup {conn[h].idPage}
  /\ UNCHANGED <<database, spool, upload, tried, removed>>

\* A slip ImplementsPromise rules out: copy() stops one byte short of max.
ReceiveEndsEarly(h) ==
  /\ At(h, "receiving")
  /\ conn[h].left <= 1
  /\ conn' = [conn EXCEPT ![h].pc = "extracting", ![h].answer = "OK"]
  /\ acked' = acked \cup {conn[h].idPage}
  /\ UNCHANGED <<database, spool, upload, tried, removed>>

\* max reached: copy() returns OK and so is the answer.
ReceiveEnds(h) ==
  /\ At(h, "receiving")
  /\ conn[h].left = 0
  /\ conn' = [conn EXCEPT ![h].pc = "extracting", ![h].answer = "OK"]
  /\ acked' = acked \cup {conn[h].idPage}
  /\ UNCHANGED <<database, spool, upload, tried, removed>>

\* What pdftotext prints for a file stands for the file.
textAt(path) == IF exists(path) THEN disk[files[path]] ELSE << >>

\* The connection is sealed already.  pdftotext reads the file by its path.  Without
\* pipe or process, and after an error on the pipe, there is no text; but how the
\* process ended is not asked, and what one printed that could not execvp(), or died
\* half-way, counts as the text.
Extract(h) ==
  LET text == textAt(getDocPath(conn[h].idUser, conn[h].idPage))
      printed(t) == conn' = [conn EXCEPT ![h].pc = "indexing", ![h].got = t]
  IN /\ At(h, "extracting")
     /\ \/ printed(text)
        \/ Fails("proc") /\ \E n \in 0..Len(text) : printed(SubSeq(text, 1, n))
        \/ Fails("proc") /\ Goto(h, "closed")
     /\ UNCHANGED <<database, spool, history>>

\* A slip RemovedStaysRemoved rules out: the row is written anew (REPLACE).
IndexReplaces(h) ==
  LET c == conn[h]
  IN /\ At(h, "indexing")
     /\ \E k \in company :
          document' = {d \in document : d.id # c.idPage} \cup
            {[id |-> c.idPage, user |-> c.idUser, company |-> k.id, content |-> c.got]}
     /\ Goto(h, "closed")
     /\ UNCHANGED <<company, nextCompany, nextPage, spool, history>>

Index(h) ==
  /\ At(h, "indexing")
  /\ \/ setDocContent(conn[h].idPage, conn[h].got)
     \/ Fails("query") /\ UNCHANGED database
  /\ Goto(h, "closed")
  /\ UNCHANGED <<spool, history>>

-----------------------------------------------------------------------------
Step(h) ==
  \/ \E r \in Request : ReadRequest(h, r)
  \/ BadRequest(h)
  \/ PeerStalls(h)
  \/ Reply(h)
  \/ Hangup(h)
  \/ Search(h)
  \/ ListCompanies(h)
  \/ NewCompany(h)
  \/ RemoveCompany(h)
  \/ RemoveRow(h)
  \/ RemoveFile(h)
  \/ OpenDownload(h)
  \/ SendChunk(h)
  \/ InsertDocument(h)
  \/ OpenUpload(h)
  \/ ReceiveChunk(h)
  \/ ReceiveStops(h)
  \/ ReceiveEnds(h)
  \/ Extract(h)
  \/ Index(h)

\* The process dies and is started again: tables and spool stay as they are.
Crash ==
  /\ Fails("crash")
  /\ conn' = [h \in Handler |-> Idle]
  /\ UNCHANGED <<database, spool, history>>

\* mysqld is started again: InnoDB sets the counter of Company behind the largest id
\* there is, whatever was given before; MyISAM stores that of Document.  (What the
\* open connections to it go through is the fault "query".)
Restart ==
  /\ Fails("restart")
  /\ \E n \in 1..(MaxCompany + 1) :
       /\ \A c \in company : c.id < n
       /\ n > 1 => \E c \in company : c.id = n - 1
       /\ nextCompany' = n
  /\ UNCHANGED <<company, document, nextPage, spool, conn, history>>

Next ==
  \/ \E h \in Handler, cn \in User \cup {Nobody} : Accept(h, cn)
  \/ \E h \in Handler : Step(h)
  \/ Crash
  \/ Restart

Spec == Init /\ [][Next]_vars

\* Every worker thread goes on: MySQL and the file system answer, pdftotext ends,
\* and so does a wait for the client, by the TIMEOUT of select() (_ssl.cpp:141) at the
\* latest, unless it is one of those PeerStalls tells of, which nobody is bound to.
FairSpec == Spec /\ \A h \in Handler : WF_vars(Step(h) /\ conn'[h].pc # "stuck")

-----------------------------------------------------------------------------
(* Safety *)

Whole(idPage) == [k \in 1..upload[idPage].size |-> <<idPage, k>>]

\* A spool file holds a beginning of one upload, that of the document its path
\* names, by the user its path names: O_APPEND never continues an old file, as
\* AUTO_INCREMENT gives every upload a path of its own.
FileOfOneUpload ==
  \A path \in DOMAIN files :
    /\ upload[path[2]].user = path[1]
    /\ IsPrefix(disk[files[path]], Whole(path[2]))

\* A document whose upload was answered OK, and that nobody tried to remove, has
\* its row and its whole file, whatever the other connections do and whenever
\* the server dies (proxy.cpp:198-250).
AckedUploadStored ==
  \A id \in acked :
    LET path == getDocPath(upload[id].user, id)
    IN path \in tried \/
       /\ \E d \in document : d.id = id /\ d.user = upload[id].user
       /\ exists(path) /\ disk[files[path]] = Whole(id)

\* A document that was removed, with OK for an answer, never comes back, although
\* its upload may still be writing, extracting or indexing it (proxy.cpp:260-276).
RemovedStaysRemoved ==
  \A path \in removed :
    /\ ~exists(path)
    /\ \A d \in document : ~(d.id = path[2] /\ d.user = path[1])

\* The row is written before the file, so that no failure and no crash leaves a
\* file without a row, unless somebody tried to remove the document.
OrphanOnlyByRemoval ==
  \A path \in DOMAIN files :
    path \in tried \/ \E d \in document : d.user = path[1] /\ d.id = path[2]

\* A document is filed under a company of its own user (or one since removed).  It
\* takes a counter that does not go back: after a restart of a mysqld before MySQL 8
\* the id of a removed company may go to another user's, while documents still carry
\* it (dossier_setup.sql:40, 58).
CompanyOfOwner ==
  \A d \in document, c \in company : c.id = d.company => c.user = d.user

\* Ids of companies are unique, restarts of mysqld or not.
CompanyIds ==
  /\ nextCompany \in Nat
  /\ \A c \in company : c.id \in Nat /\ c.id < nextCompany
  /\ \A c, k \in company : c.id = k.id => c = k

\* Why CompanyOfOwner holds, as an inductive invariant: no id that a document refers
\* to is given again.
OwnerInv ==
  /\ CompanyIds
  /\ \A d \in document : d.company \in Nat /\ d.company < nextCompany
  /\ CompanyOfOwner

\* The text a search matches is a beginning of the text of the document's own file,
\* and all of it unless a pdftotext ended before its time (proxy.cpp:259-277).
IndexMatchesFile ==
  \A d \in document :
    LET file == textAt(getDocPath(d.user, d.id))
    IN d.content # NULL /\ getDocPath(d.user, d.id) \notin tried =>
         /\ IsPrefix(d.content, file)
         /\ d.content = file \/ Fails("proc")

\* A search for plain words and a download deliver only what the requesting user
\* uploaded, and a download only chunks of the document asked for, from its start.
OnlyOwnData ==
  \A h \in Handler :
    /\ conn[h].req.op = "SEARCH" /\ conn[h].req.keywords = "plain" =>
         \A id \in conn[h].found : upload[id].user = conn[h].idUser
    /\ conn[h].req.op = "DOWNLOAD" /\ conn[h].got # << >> =>
         /\ upload[conn[h].req.idPage].user = conn[h].idUser
         /\ IsPrefix(conn[h].got, Whole(conn[h].req.idPage))

\* A download that began after the OK of the upload and ended without an error
\* delivered the whole document, even when it is removed meanwhile.
LateDownloadWhole ==
  \A h \in Handler :
    LET c == conn[h]
    IN c.pc = "closed" /\ c.req.op = "DOWNLOAD" /\ c.answer = "OK" /\ c.late =>
         c.got = Whole(c.req.idPage)

\* What belongs to a user changes only by a step of one of its own connections.
RowsOf(u)  == {d \in document : d.user = u}
FilesOf(u) == {<<path, disk[files[path]]>> : path \in {p \in DOMAIN files : p[1] = u}}
CompaniesOf(u) == {c \in company : c.user = u}

OnlyOwnerChanges ==
  [][\A u \in User :
       (\A h \in Handler : conn[h].idUser = u => conn'[h] = conn[h])
         => UNCHANGED <<RowsOf(u), FilesOf(u), CompaniesOf(u)>>]_vars

\* The life of a document, as ArchiveSpec tells it: the path and the row that the
\* upload of id created, and what its owner was told of it.
pathOf(id) == getDocPath(upload[id].user, id)
rowsOf(id) == {d \in document : d.id = id /\ d.user = upload[id].user}

phaseOf(id) ==
  CASE upload[id].user = Nobody -> "free"
    [] pathOf(id) \in removed  -> "removed"
    [] pathOf(id) \in tried \ removed -> "disposed"
    [] OTHER -> IF id \in acked THEN "stored" ELSE "partial"

contentOf(id) == textAt(pathOf(id))

textOf(id) ==
  IF rowsOf(id) = {} THEN NULL ELSE (CHOOSE d \in rowsOf(id) : TRUE).content

Promise == INSTANCE ArchiveSpec WITH
  owner   <- [id \in Page |-> upload[id].user],
  size    <- [id \in Page |-> upload[id].size],
  phase   <- [id \in Page |-> phaseOf(id)],
  content <- [id \in Page |-> contentOf(id)],
  listed  <- [id \in Page |-> rowsOf(id) # {}],
  text    <- [id \in Page |-> textOf(id)]

\* Tables, spool and handlers together keep the promise of ArchiveSpec: no
\* interleaving, no crash and no failure but a short write() takes a document through
\* a step of its life that is not there (proxy.cpp:178-418, database.cpp:130-320).
ImplementsPromise == Promise!Spec

\* What the README promises ("archive documents for future retrieval", "Files can
\* be searched"): a document stored and not removed is found by its user.
StoredIsFound ==
  \A id \in acked :
    \/ \E path \in tried : path[2] = id
    \/ id \in search(upload[id].user, "")

\* An uploaded document becomes searchable by its content, unless it is removed;
\* for runs in which neither a statement, pdftotext nor the process fails
\* (proxy.cpp:252-278).
AckedIsIndexed ==
  \A id \in Page :
    id \in acked ~>
      \/ \E path \in tried : path[2] = id
      \/ \E d \in document : d.id = id /\ d.content = Whole(id)

\* A worker is done with its connection in the end, unless a silent client holds it
\* in the middle of a TLS record.
ConnectionEnds ==
  \A h \in Handler : ~At(h, "idle") ~> At(h, "idle") \/ At(h, "stuck")
=============================================================================
