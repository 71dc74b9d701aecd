--------------------------- MODULE ArchiveProofs ----------------------------
(***************************************************************************)
(* Proofs about Archive, for any number of connections, users, companies   *)
(* and documents, and any choice of the faults.                            *)
(***************************************************************************)
EXTENDS Archive, TLAPS, SequenceTheorems

-----------------------------------------------------------------------------
(* The type invariant. *)

\* A step of one connection that leaves the others alone.
LEMMA SetConn ==
  ASSUME ConnOK, NEW h \in Handler, NEW c \in Connection, Consistent(c),
         conn' = [conn EXCEPT ![h] = c],
         Len(disk) \in Nat, Len(disk') \in Nat, Len(disk) <= Len(disk'),
         c.file <= Len(disk')
  PROVE  ConnOK'
<1>1. ASSUME NEW g \in Handler PROVE conn'[g] = IF g = h THEN c ELSE conn[g]
  BY DEF ConnOK
<1>2. ASSUME NEW g \in Handler PROVE conn[g].file \in Nat
  BY DEF ConnOK, Connection
<1>3. conn' \in [Handler -> Connection]
  BY DEF ConnOK
<1>4. ASSUME NEW g \in Handler
      PROVE  Consistent(conn'[g]) /\ conn'[g].file <= Len(disk')
  <2>1. CASE g = h
    BY <1>1, <2>1
  <2>2. CASE g # h
    BY <1>1, <1>2, <2>2 DEF ConnOK
  <2> QED BY <2>1, <2>2
<1> QED BY <1>3, <1>4 DEF ConnOK

\* A step that opens and writes no file keeps the length of disk.
LEMMA SameDisk ==
  ASSUME TypeOK, UNCHANGED disk
  PROVE  Len(disk) \in Nat /\ Len(disk') \in Nat /\ Len(disk) <= Len(disk')
BY LenProperties DEF TypeOK, SpoolOK

\* What TypeOK says of the connection of h.
LEMMA ConnType ==
  ASSUME TypeOK, NEW h \in Handler
  PROVE  /\ conn \in [Handler -> Connection]
         /\ conn[h] \in Connection
         /\ Consistent(conn[h])
         /\ conn[h].file <= Len(disk)
BY DEF TypeOK, ConnOK

\* The handler answers: the answer may follow any step.
LEMMA AnswerConn ==
  ASSUME TypeOK, NEW h \in Handler, NEW r \in Response, Answer(h, r), UNCHANGED disk
  PROVE  ConnOK'
<1> DEFINE c == [conn[h] EXCEPT !.pc = "reply", !.answer = r]
<1>1. conn' = [conn EXCEPT ![h] = c]
  BY DEF Answer
<1>2. c \in Connection /\ c.file = conn[h].file
  BY ConnType DEF Connection, PC
<1>3. Consistent(c)
  BY ConnType DEF Connection, Consistent
<1> HIDE DEF c
<1> QED BY <1>1, <1>2, <1>3, SetConn, ConnType, SameDisk DEF TypeOK

\* What the code of a request tells of its other fields.
LEMMA RequestFields ==
  ASSUME NEW r \in Request
  PROVE  /\ r # NoRequest
         /\ r.op \in {"DOWNLOAD", "REMOVE_DOCUMENT"} => r.idPage \in Page
         /\ r.op \in {"UPLOAD", "NEW_COMPANY", "REMOVE_COMPANY"} => r.name \in Name
         /\ r.op = "UPLOAD" => r.size \in Nat
<1>1. r.op # "NONE"
  BY DEF Request
<1>2. r # NoRequest
  BY <1>1 DEF NoRequest
<1>3. CASE r \in [op : {"SEARCH"}, name : Name \cup {""}, keywords : {"plain", "quoted"}]
  BY <1>2, <1>3
<1>4. CASE r \in [op : {"LIST_COMPANIES"}]
  BY <1>2, <1>4
<1>5. CASE r \in [op : {"DOWNLOAD", "REMOVE_DOCUMENT"}, idPage : Page]
  BY <1>2, <1>5
<1>6. CASE r \in [op : {"UPLOAD"}, name : Name, size : Sizes]
  BY <1>2, <1>6, SizesAssumption
<1>7. CASE r \in [op : {"NEW_COMPANY", "REMOVE_COMPANY"}, name : Name]
  BY <1>2, <1>7
<1> QED BY <1>3, <1>4, <1>5, <1>6, <1>7 DEF Request

LEMMA InitType == Init => TypeOK
<1> SUFFICES ASSUME Init PROVE TypeOK
  OBVIOUS
<1> USE DEF Init
<1>1. TablesOK
  BY BoundsAssumption DEF TablesOK
<1>2. SpoolOK
  BY DEF SpoolOK
<1>3. HistoryOK
  BY DEF HistoryOK
<1>4. ConnOK
  BY NobodyAssumption DEF ConnOK, Connection, Idle, PC, Response, Consistent, NoFile, NoRequest
<1> QED BY <1>1, <1>2, <1>3, <1>4 DEF TypeOK

-----------------------------------------------------------------------------
\* The statements keep the tables typed.

LEMMA NewCompanyTables ==
  ASSUME TablesOK, nextCompany <= MaxCompany, NEW name \in Name, NEW u \in User,
         newCompany(name, u)
  PROVE  TablesOK'
<1>1. nextCompany \in 1..MaxCompany /\ nextCompany + 1 \in 1..(MaxCompany + 1)
  BY BoundsAssumption DEF TablesOK
<1> QED BY <1>1 DEF TablesOK, newCompany

LEMMA RemoveCompanyTables ==
  ASSUME TablesOK, NEW name, NEW u, removeCompany(name, u)
  PROVE  TablesOK'
BY DEF TablesOK, removeCompany

LEMMA NewDocumentTables ==
  ASSUME TablesOK, nextPage <= MaxPage, NEW name, NEW u \in User, newDocument(u, name)
  PROVE  TablesOK' /\ nextPage \in Page /\ nextPage' # nextPage
<1>1. nextPage \in Page /\ nextPage + 1 \in 1..(MaxPage + 1) /\ nextPage + 1 # nextPage
  BY BoundsAssumption DEF TablesOK, Page
<1>2. PICK k \in company :
        document' = document \cup
          {[id |-> nextPage, user |-> u, company |-> k.id, content |-> NULL]}
  BY DEF newDocument, CompanyNamed
<1>3. k.id \in 1..MaxCompany
  BY DEF TablesOK
<1>4. NULL \in Text
  BY DEF Text
<1> QED BY <1>1, <1>2, <1>3, <1>4 DEF TablesOK, newDocument

LEMMA RemoveDocumentTables ==
  ASSUME TablesOK, NEW idPage, NEW u, removeDocument(idPage, u)
  PROVE  TablesOK'
BY DEF TablesOK, removeDocument

LEMMA SetDocContentTables ==
  ASSUME TablesOK, NEW idPage, NEW text \in Text, setDocContent(idPage, text)
  PROVE  TablesOK'
<1>1. UNCHANGED <<company, nextCompany, nextPage>>
  BY DEF setDocContent
<1>2. document' \subseteq [id : Page, user : User, company : 1..MaxCompany, content : Text]
  BY DEF setDocContent, TablesOK
<1> QED BY <1>1, <1>2 DEF TablesOK

-----------------------------------------------------------------------------
\* The steps of a handler.

LEMMA AcceptType ==
  ASSUME TypeOK, NEW h \in Handler, NEW cn \in User \cup {Nobody}, Accept(h, cn)
  PROVE  TypeOK'
<1> USE DEF Accept
<1>1. TablesOK' /\ SpoolOK' /\ HistoryOK'
  BY DEF TypeOK, database, spool, history, TablesOK, SpoolOK, HistoryOK
<1>2. ConnOK'
  <2>1. CASE /\ cn \in User
             /\ conn' = [conn EXCEPT ![h].pc = "authenticated", ![h].idUser = cn]
    <3> DEFINE c == [conn[h] EXCEPT !.pc = "authenticated", !.idUser = cn]
    <3>1. conn' = [conn EXCEPT ![h] = c]
      BY <2>1
    <3>2. c \in Connection /\ c.file = conn[h].file /\ Consistent(c)
      BY <2>1, ConnType DEF Connection, PC, Consistent
    <3> HIDE DEF c
    <3> QED BY <3>1, <3>2, SetConn, ConnType, SameDisk DEF TypeOK, spool
  <2>2. CASE Answer(h, "INTERNAL_ERROR")
    BY <2>2, AnswerConn DEF Response, spool
  <2> QED BY <2>1, <2>2
<1> QED BY <1>1, <1>2 DEF TypeOK

LEMMA ReadRequestType ==
  ASSUME TypeOK, NEW h \in Handler, NEW r \in Request, ReadRequest(h, r)
  PROVE  TypeOK'
<1> USE DEF ReadRequest
<1>1. TablesOK' /\ SpoolOK' /\ HistoryOK'
  BY DEF TypeOK, database, spool, history, TablesOK, SpoolOK, HistoryOK
<1> DEFINE c == [conn[h] EXCEPT !.pc = "exec", !.req = r]
<1>2. conn' = [conn EXCEPT ![h] = c]
  OBVIOUS
<1>3. c \in Connection /\ c.file = conn[h].file /\ Consistent(c)
  BY ConnType DEF Connection, PC, Consistent, At
<1> HIDE DEF c
<1>4. ConnOK'
  BY <1>2, <1>3, SetConn, ConnType, SameDisk DEF TypeOK, spool
<1> QED BY <1>1, <1>4 DEF TypeOK

LEMMA BadRequestType ==
  ASSUME TypeOK, NEW h \in Handler, BadRequest(h)
  PROVE  TypeOK'
<1> USE DEF BadRequest
<1>1. TablesOK' /\ SpoolOK' /\ HistoryOK'
  BY DEF TypeOK, database, spool, history, TablesOK, SpoolOK, HistoryOK
<1>2. ConnOK'
  BY AnswerConn DEF Response, spool
<1> QED BY <1>1, <1>2 DEF TypeOK

LEMMA ReplyType ==
  ASSUME TypeOK, NEW h \in Handler, Reply(h)
  PROVE  TypeOK'
<1> USE DEF Reply
<1>1. TablesOK' /\ SpoolOK'
  BY DEF TypeOK, database, spool, TablesOK, SpoolOK
<1>2. HistoryOK'
  <2>1. CASE conn[h].req.op = "REMOVE_DOCUMENT"
    <3>1. conn[h].req \in Request
      BY <2>1, ConnType DEF Connection, NoRequest
    <3>2. conn[h].req.idPage \in Page
      BY <2>1, <3>1 DEF Request
    <3>3. conn[h].req # NoRequest
      BY <2>1 DEF NoRequest
    <3>4. conn[h].idUser \in User
      BY <3>3, ConnType DEF Consistent
    <3> QED BY <3>2, <3>4 DEF TypeOK, HistoryOK
  <2>2. CASE conn[h].req.op # "REMOVE_DOCUMENT"
    BY <2>2 DEF TypeOK, HistoryOK
  <2> QED BY <2>1, <2>2
<1> DEFINE c == [conn[h] EXCEPT !.pc = "closed"]
<1>3. conn' = [conn EXCEPT ![h] = c]
  BY DEF Goto
<1>4. c \in Connection /\ c.file = conn[h].file /\ Consistent(c)
  BY ConnType DEF Connection, PC, Consistent
<1> HIDE DEF c
<1>5. ConnOK'
  BY <1>3, <1>4, SetConn, ConnType, SameDisk DEF TypeOK, spool
<1> QED BY <1>1, <1>2, <1>5 DEF TypeOK

\* A connection that does not exist.
LEMMA IdleType == Idle \in Connection /\ Consistent(Idle) /\ Idle.file = 0
BY NobodyAssumption DEF Connection, Idle, PC, Response, Consistent, NoFile, NoRequest

LEMMA HangupType ==
  ASSUME TypeOK, NEW h \in Handler, Hangup(h)
  PROVE  TypeOK'
<1> USE DEF Hangup
<1>1. TablesOK' /\ SpoolOK' /\ HistoryOK'
  BY DEF TypeOK, database, spool, history, TablesOK, SpoolOK, HistoryOK
<1>2. ConnOK'
  <2>1. Idle.file <= Len(disk')
    BY IdleType, SameDisk DEF spool
  <2> QED BY <2>1, IdleType, SetConn, SameDisk DEF TypeOK, spool
<1> QED BY <1>1, <1>2 DEF TypeOK

LEMMA PeerStallsType ==
  ASSUME TypeOK, NEW h \in Handler, PeerStalls(h)
  PROVE  TypeOK'
<1> USE DEF PeerStalls
<1>1. TablesOK' /\ SpoolOK' /\ HistoryOK'
  BY DEF TypeOK, database, spool, history, TablesOK, SpoolOK, HistoryOK
<1> DEFINE c == [Idle EXCEPT !.pc = "stuck"]
<1>2. conn' = [conn EXCEPT ![h] = c]
  OBVIOUS
<1>3. c \in Connection /\ c.file = 0 /\ Consistent(c)
  BY IdleType DEF Connection, Idle, PC, Consistent
<1> HIDE DEF c
<1>4. Len(disk) \in Nat /\ Len(disk') \in Nat /\ Len(disk) <= Len(disk')
  BY SameDisk DEF spool
<1>5. c.file <= Len(disk')
  BY <1>3, <1>4
<1>6. ConnOK'
  BY <1>2, <1>3, <1>4, <1>5, SetConn DEF TypeOK
<1> QED BY <1>1, <1>6 DEF TypeOK

LEMMA RestartType ==
  ASSUME TypeOK, Restart
  PROVE  TypeOK'
<1> USE DEF Restart
<1>1. SpoolOK' /\ HistoryOK' /\ ConnOK'
  BY DEF TypeOK, spool, history, SpoolOK, HistoryOK, ConnOK
<1>2. TablesOK'
  BY DEF TypeOK, TablesOK
<1> QED BY <1>1, <1>2 DEF TypeOK

LEMMA CrashType ==
  ASSUME TypeOK, Crash
  PROVE  TypeOK'
<1> USE DEF Crash
<1>1. TablesOK' /\ SpoolOK' /\ HistoryOK'
  BY DEF TypeOK, database, spool, history, TablesOK, SpoolOK, HistoryOK
<1>2. ConnOK'
  <2>1. Idle.file <= Len(disk')
    BY IdleType, SameDisk DEF spool
  <2> QED BY <2>1, IdleType DEF ConnOK
<1> QED BY <1>1, <1>2 DEF TypeOK

\* The user and the request of a handler whose exec has begun.
LEMMA ExecType ==
  ASSUME TypeOK, NEW h \in Handler, NEW op, Exec(h, op)
  PROVE  /\ conn[h].req \in Request
         /\ conn[h].req.op = op
         /\ conn[h].idUser \in User
<1>1. conn[h].pc = "exec" /\ conn[h].req \in Request
  BY ConnType DEF Exec, At, Consistent
<1>2. conn[h].req # NoRequest
  BY <1>1, RequestFields
<1> QED BY <1>1, <1>2, ConnType DEF Exec, Consistent

LEMMA SearchPages ==
  ASSUME TypeOK, NEW u, NEW name
  PROVE  search(u, name) \in SUBSET Page
<1> SUFFICES ASSUME NEW id \in search(u, name) PROVE id \in Page
  OBVIOUS
<1>1. \E d \in document : d.id = id
  BY DEF search
<1> QED BY <1>1 DEF TypeOK, TablesOK

LEMMA SelectedPages ==
  ASSUME TypeOK, NEW h \in Handler
  PROVE  Selected(h) \subseteq SUBSET Page
<1>1. search(conn[h].idUser, conn[h].req.name) \in SUBSET Page
  BY SearchPages
<1>2. {d.id : d \in document} \in SUBSET Page
  BY DEF TypeOK, TablesOK
<1> QED BY <1>1, <1>2 DEF Selected

LEMMA SearchType ==
  ASSUME TypeOK, NEW h \in Handler, Search(h)
  PROVE  TypeOK'
<1> USE DEF Search
<1>1. TablesOK' /\ SpoolOK' /\ HistoryOK'
  BY DEF TypeOK, database, spool, history, TablesOK, SpoolOK, HistoryOK
<1>2. PICK ids \in Selected(h) :
        conn' = [conn EXCEPT ![h].pc = "reply", ![h].found = ids, ![h].answer = "OK"]
  OBVIOUS
<1>3. ids \in SUBSET Page
  BY <1>2, SelectedPages
<1> DEFINE c == [conn[h] EXCEPT !.pc = "reply", !.found = ids, !.answer = "OK"]
<1>4. conn' = [conn EXCEPT ![h] = c]
  BY <1>2
<1>5. c.idUser \in User
  BY ExecType
<1>6. c \in Connection /\ c.file = conn[h].file /\ Consistent(c)
  <2>1. conn[h] \in Connection /\ Consistent(conn[h])
    BY ConnType
  <2>2. c \in Connection /\ c.file = conn[h].file
    BY <1>3, <2>1 DEF Connection, PC, Response
  <2>3. Consistent(c)
    BY <1>5, <2>1 DEF Connection, Consistent
  <2> QED BY <2>2, <2>3
<1> HIDE DEF c
<1>7. ConnOK'
  BY <1>4, <1>6, SetConn, ConnType, SameDisk DEF TypeOK, spool
<1> QED BY <1>1, <1>7 DEF TypeOK

LEMMA ListCompaniesType ==
  ASSUME TypeOK, NEW h \in Handler, ListCompanies(h)
  PROVE  TypeOK'
<1>1. TablesOK' /\ SpoolOK' /\ HistoryOK'
  BY DEF ListCompanies, Statement, TypeOK, database, spool, history, TablesOK, SpoolOK, HistoryOK
<1>2. ConnOK'
  BY AnswerConn DEF ListCompanies, Statement, Response, spool
<1> QED BY <1>1, <1>2 DEF TypeOK

LEMMA NewCompanyType ==
  ASSUME TypeOK, NEW h \in Handler, NewCompany(h)
  PROVE  TypeOK'
<1>1. conn[h].req.name \in Name /\ conn[h].idUser \in User
  BY ExecType, RequestFields DEF NewCompany
<1>2. TablesOK'
  <2>1. CASE UNCHANGED database
    BY <2>1 DEF TypeOK, database, TablesOK
  <2>2. CASE nextCompany <= MaxCompany /\ newCompany(conn[h].req.name, conn[h].idUser)
    BY <1>1, <2>2, NewCompanyTables DEF TypeOK
  <2> QED BY <2>1, <2>2 DEF NewCompany, Statement
<1>3. SpoolOK' /\ HistoryOK'
  BY DEF NewCompany, TypeOK, spool, history, SpoolOK, HistoryOK
<1>4. ConnOK'
  BY AnswerConn DEF NewCompany, Statement, Response, spool
<1> QED BY <1>2, <1>3, <1>4 DEF TypeOK

LEMMA RemoveCompanyType ==
  ASSUME TypeOK, NEW h \in Handler, RemoveCompany(h)
  PROVE  TypeOK'
<1>1. TablesOK'
  <2>1. CASE UNCHANGED database
    BY <2>1 DEF TypeOK, database, TablesOK
  <2>2. CASE removeCompany(conn[h].req.name, conn[h].idUser)
    BY <2>2, RemoveCompanyTables DEF TypeOK
  <2> QED BY <2>1, <2>2 DEF RemoveCompany, Statement
<1>2. SpoolOK' /\ HistoryOK'
  BY DEF RemoveCompany, TypeOK, spool, history, SpoolOK, HistoryOK
<1>3. ConnOK'
  BY AnswerConn DEF RemoveCompany, Statement, Response, spool
<1> QED BY <1>1, <1>2, <1>3 DEF TypeOK

LEMMA RemoveRowType ==
  ASSUME TypeOK, NEW h \in Handler, RemoveRow(h)
  PROVE  TypeOK'
<1>1. /\ conn[h].req \in Request /\ conn[h].req.op = "REMOVE_DOCUMENT"
      /\ conn[h].idUser \in User
      /\ conn[h].req.idPage \in Page
  BY ExecType, RequestFields DEF RemoveRow
<1>2. TablesOK'
  <2>1. CASE UNCHANGED database
    BY <2>1 DEF TypeOK, database, TablesOK
  <2>2. CASE removeDocument(conn[h].req.idPage, conn[h].idUser)
    BY <2>2, RemoveDocumentTables DEF TypeOK
  <2> QED BY <2>1, <2>2 DEF RemoveRow, Statement
<1>3. SpoolOK'
  BY DEF RemoveRow, TypeOK, spool, SpoolOK
<1>4. HistoryOK'
  BY <1>1 DEF RemoveRow, TypeOK, HistoryOK
<1>5. ConnOK'
  <2>1. CASE conn' = [conn EXCEPT ![h].pc = "unlinking",
                                  ![h].late = conn[h].req.idPage < nextPage]
    <3> DEFINE late == conn[h].req.idPage < nextPage
               c == [conn[h] EXCEPT !.pc = "unlinking", !.late = late]
    <3>1. conn' = [conn EXCEPT ![h] = c]
      BY <2>1
    <3>2. late \in BOOLEAN
      OBVIOUS
    <3> HIDE DEF late
    <3>3. c \in Connection /\ c.file = conn[h].file
      BY <3>2, ConnType DEF Connection, PC
    <3>4. Consistent(c)
      BY <1>1, ConnType DEF Connection, Consistent
    <3> HIDE DEF c
    <3> QED BY <3>1, <3>3, <3>4, SetConn, ConnType, SameDisk DEF TypeOK, RemoveRow, spool
  <2>2. CASE Answer(h, "INTERNAL_ERROR")
    BY <2>2, AnswerConn DEF RemoveRow, Response, spool
  <2> QED BY <2>1, <2>2 DEF RemoveRow, Statement
<1> QED BY <1>2, <1>3, <1>4, <1>5 DEF TypeOK

LEMMA RemoveFileType ==
  ASSUME TypeOK, NEW h \in Handler, RemoveFile(h)
  PROVE  TypeOK'
<1>1. TablesOK' /\ HistoryOK'
  BY DEF RemoveFile, TypeOK, database, history, TablesOK, HistoryOK
<1>2. UNCHANGED disk
  BY DEF RemoveFile, unlink, spool
<1>3. SpoolOK'
  <2>1. CASE UNCHANGED spool
    BY <2>1 DEF TypeOK, spool, SpoolOK
  <2>2. CASE unlink(getDocPath(conn[h].idUser, conn[h].req.idPage))
    BY <2>2 DEF TypeOK, unlink, SpoolOK
  <2> QED BY <2>1, <2>2 DEF RemoveFile
<1>4. ConnOK'
  BY <1>2, AnswerConn DEF RemoveFile, Response
<1> QED BY <1>1, <1>3, <1>4 DEF TypeOK

LEMMA OpenDownloadType ==
  ASSUME TypeOK, NEW h \in Handler, OpenDownload(h)
  PROVE  TypeOK'
<1> DEFINE path == getDocPath(conn[h].idUser, conn[h].req.idPage)
<1>1. TablesOK' /\ SpoolOK' /\ HistoryOK' /\ UNCHANGED disk
  BY DEF OpenDownload, TypeOK, database, spool, history, TablesOK, SpoolOK, HistoryOK
<1>2. CASE Answer(h, "INTERNAL_ERROR")
  BY <1>1, <1>2, AnswerConn DEF Response, TypeOK
<1>3. CASE /\ exists(path)
           /\ conn' = [conn EXCEPT ![h].pc = "sending", ![h].file = files[path],
                                   ![h].answer = "OK",
                                   ![h].late = conn[h].req.idPage \in acked]
  <2> DEFINE late == conn[h].req.idPage \in acked
             f == files[path]
             c == [conn[h] EXCEPT !.pc = "sending", !.file = f,
                                  !.answer = "OK", !.late = late]
  <2>1. conn' = [conn EXCEPT ![h] = c]
    BY <1>3
  <2>2. f \in 1..Len(disk)
    BY <1>3 DEF exists, TypeOK, SpoolOK
  <2>3. Len(disk) \in Nat /\ Len(disk') = Len(disk)
    BY <1>1, SameDisk
  <2>4. f \in Nat /\ f # NoFile /\ f <= Len(disk')
    BY <2>2, <2>3 DEF NoFile
  <2>5. late \in BOOLEAN
    OBVIOUS
  <2>6. conn[h].req \in Request /\ conn[h].req.op = "DOWNLOAD" /\ conn[h].idUser \in User
    BY ExecType DEF OpenDownload
  <2> HIDE DEF late, f
  <2>7. conn[h] \in Connection /\ Consistent(conn[h])
    BY ConnType
  <2>8. c \in Connection /\ c.file = f
    BY <2>4, <2>5, <2>7 DEF Connection, PC, Response
  <2>9. Consistent(c)
    BY <2>4, <2>6, <2>7 DEF Connection, Consistent
  <2> HIDE DEF c
  <2>10. ConnOK'
    <3>1. Len(disk) \in Nat /\ Len(disk') \in Nat /\ Len(disk) <= Len(disk')
      BY <1>1, SameDisk
    <3>2. c.file <= Len(disk')
      BY <2>4, <2>8
    <3> QED BY <2>1, <2>8, <2>9, <3>1, <3>2, SetConn DEF TypeOK
  <2> QED BY <1>1, <2>10 DEF TypeOK
<1> QED BY <1>2, <1>3 DEF OpenDownload

LEMMA SendChunkType ==
  ASSUME TypeOK, NEW h \in Handler, SendChunk(h)
  PROVE  TypeOK'
<1>1. TablesOK' /\ SpoolOK' /\ HistoryOK' /\ UNCHANGED disk
  BY DEF SendChunk, TypeOK, database, spool, history, TablesOK, SpoolOK, HistoryOK
<1>2. conn[h].pc = "sending" /\ conn[h] \in Connection /\ Consistent(conn[h])
  BY ConnType DEF SendChunk, At
<1>3. CASE /\ Len(conn[h].got) < Len(disk[conn[h].file])
           /\ conn' = [conn EXCEPT
                         ![h].got = Append(@, disk[conn[h].file][Len(conn[h].got) + 1])]
  <2> DEFINE f == conn[h].file
             new == disk[f][Len(conn[h].got) + 1]
             got == Append(conn[h].got, new)
             c == [conn[h] EXCEPT !.got = got]
  <2>1. conn' = [conn EXCEPT ![h] = c]
    BY <1>3
  <2>2. f \in 1..Len(disk)
    <3>1. f \in Nat /\ f # 0 /\ f <= Len(disk)
      BY <1>2, ConnType DEF Connection, Consistent, NoFile
    <3> QED BY <3>1, SameDisk, <1>1
  <2>3. disk[f] \in Seq(Chunk)
    BY <2>2, LenProperties DEF TypeOK, SpoolOK
  <2>4. conn[h].got \in Seq(Chunk)
    BY <1>2 DEF Connection
  <2>5. Len(conn[h].got) + 1 \in 1..Len(disk[f])
    BY <1>3, <2>3, <2>4, LenProperties
  <2>6. new \in Chunk
    BY <2>3, <2>5, LenProperties
  <2> HIDE DEF new
  <2>7. got \in Seq(Chunk)
    BY <2>4, <2>6, AppendProperties
  <2> HIDE DEF got
  <2>8. c \in Connection /\ c.file = conn[h].file
    BY <1>2, <2>7 DEF Connection
  <2>9. Consistent(c)
    BY <1>2, <2>7 DEF Connection, Consistent
  <2> HIDE DEF c
  <2>10. ConnOK'
    BY <1>1, <2>1, <2>8, <2>9, SetConn, ConnType, SameDisk DEF TypeOK
  <2> QED BY <1>1, <2>10 DEF TypeOK
<1>4. CASE Goto(h, "reply")
  <2> DEFINE c == [conn[h] EXCEPT !.pc = "reply"]
  <2>1. conn' = [conn EXCEPT ![h] = c]
    BY <1>4 DEF Goto
  <2>2. c \in Connection /\ c.file = conn[h].file /\ Consistent(c)
    BY <1>2 DEF Connection, PC, Consistent
  <2> HIDE DEF c
  <2>3. ConnOK'
    BY <1>1, <2>1, <2>2, SetConn, ConnType, SameDisk DEF TypeOK
  <2> QED BY <1>1, <2>3 DEF TypeOK
<1>5. CASE Answer(h, "INTERNAL_ERROR")
  BY <1>1, <1>5, AnswerConn DEF Response, TypeOK
<1> QED BY <1>3, <1>4, <1>5 DEF SendChunk

-----------------------------------------------------------------------------
\* The steps of requestUpload.

LEMMA InsertDocumentType ==
  ASSUME TypeOK, NEW h \in Handler, InsertDocument(h)
  PROVE  TypeOK'
<1> DEFINE u == conn[h].idUser
           r == conn[h].req
<1>1. r \in Request /\ r.op = "UPLOAD" /\ u \in User /\ r.size \in Nat
  BY ExecType, RequestFields DEF InsertDocument
<1>2. CASE UNCHANGED database /\ Answer(h, "INTERNAL_ERROR")
  <2>1. TablesOK' /\ SpoolOK' /\ HistoryOK'
    BY <1>2 DEF InsertDocument, TypeOK, database, spool, TablesOK, SpoolOK, HistoryOK
  <2>2. ConnOK'
    BY <1>2, AnswerConn DEF InsertDocument, Response, spool
  <2> QED BY <2>1, <2>2 DEF TypeOK
<1>3. ASSUME nextPage <= MaxPage, newDocument(u, r.name),
             \/ conn' = [conn EXCEPT ![h].pc = "opening", ![h].idPage = nextPage]
             \/ Answer(h, "INTERNAL_ERROR")
      PROVE  TypeOK'
  <2>1. TablesOK' /\ nextPage \in Page /\ nextPage' # nextPage
    BY <1>1, <1>3, NewDocumentTables DEF TypeOK
  <2>2. SpoolOK'
    BY DEF InsertDocument, TypeOK, spool, SpoolOK
  <2>3. HistoryOK'
    BY <1>1, <2>1 DEF InsertDocument, TypeOK, HistoryOK
  <2>4. CASE conn' = [conn EXCEPT ![h].pc = "opening", ![h].idPage = nextPage]
    <3> DEFINE c == [conn[h] EXCEPT !.pc = "opening", !.idPage = nextPage]
    <3>1. conn' = [conn EXCEPT ![h] = c]
      BY <2>4
    <3>2. nextPage \in Nat
      BY <2>1 DEF Page
    <3>3. c \in Connection /\ c.file = conn[h].file
      BY <3>2, ConnType DEF Connection, PC
    <3>4. Consistent(c)
      BY <1>1, <2>1, ConnType DEF Connection, Consistent
    <3> HIDE DEF c
    <3>5. ConnOK'
      BY <3>1, <3>3, <3>4, SetConn, ConnType, SameDisk DEF TypeOK, InsertDocument, spool
    <3> QED BY <2>1, <2>2, <2>3, <3>5 DEF TypeOK
  <2>5. CASE Answer(h, "INTERNAL_ERROR")
    <3>1. ConnOK'
      BY <2>5, AnswerConn DEF InsertDocument, Response, spool
    <3> QED BY <2>1, <2>2, <2>3, <3>1 DEF TypeOK
  <2> QED BY <1>3, <2>4, <2>5
<1> QED BY <1>2, <1>3 DEF InsertDocument, Statement

\* open() appends an empty file or opens the one there is.
LEMMA OpenForAppendSpool ==
  ASSUME SpoolOK, NEW path \in User \X Page, openForAppend(path)
  PROVE  /\ SpoolOK'
         /\ Len(disk) \in Nat /\ Len(disk') \in Nat /\ Len(disk) <= Len(disk')
         /\ inode(path) \in 1..Len(disk')
<1>1. disk \in Seq(Seq(Chunk)) /\ Len(disk) \in Nat
  BY LenProperties DEF SpoolOK
<1>2. CASE exists(path)
  BY <1>1, <1>2 DEF openForAppend, inode, exists, spool, SpoolOK
<1>3. CASE ~exists(path)
  <2>1. /\ disk' = Append(disk, << >>)
        /\ files' = [p \in DOMAIN files \cup {path} |->
                       IF p = path THEN Len(disk) + 1 ELSE files[p]]
    BY <1>3 DEF openForAppend
  <2>2. disk' \in Seq(Seq(Chunk)) /\ Len(disk') = Len(disk) + 1
    <3>1. << >> \in Seq(Chunk)
      OBVIOUS
    <3> QED BY <1>1, <2>1, <3>1, AppendProperties
  <2>3. inode(path) = Len(disk')
    BY <1>3, <2>2 DEF inode
  <2>4. DOMAIN files' \subseteq User \X Page
    BY <2>1 DEF SpoolOK
  <2>5. files' \in [DOMAIN files' -> 1..Len(disk')]
    <3>1. \A p \in DOMAIN files : files[p] \in 1..Len(disk)
      BY DEF SpoolOK
    <3> QED BY <1>1, <2>1, <2>2, <3>1
  <2> QED BY <1>1, <2>2, <2>3, <2>4, <2>5 DEF SpoolOK
<1> QED BY <1>2, <1>3

LEMMA OpenUploadType ==
  ASSUME TypeOK, NEW h \in Handler, OpenUpload(h)
  PROVE  TypeOK'
<1> DEFINE path == getDocPath(conn[h].idUser, conn[h].idPage)
<1>1. /\ conn[h] \in Connection /\ Consistent(conn[h]) /\ conn[h].pc = "opening"
      /\ conn[h].file <= Len(disk)
  BY ConnType DEF OpenUpload, At
<1>2. /\ conn[h].req \in Request /\ conn[h].req.op = "UPLOAD"
      /\ conn[h].idPage \in Page /\ conn[h].req.size \in Nat
      /\ conn[h].idUser \in User
  <2>1. conn[h].req \in Request /\ conn[h].req.op = "UPLOAD" /\ conn[h].idPage \in Page
    BY <1>1 DEF Consistent
  <2>2. conn[h].req # NoRequest /\ conn[h].req.size \in Nat
    BY <2>1, RequestFields
  <2> QED BY <1>1, <2>1, <2>2 DEF Consistent
<1>3. TablesOK' /\ HistoryOK'
  BY DEF OpenUpload, TypeOK, database, history, TablesOK, HistoryOK
<1>4. ASSUME NEW f \in Nat,
             conn' = [conn EXCEPT ![h].pc = "receiving", ![h].file = f,
                                  ![h].left = conn[h].req.size],
             f <= Len(disk'),
             SpoolOK',
             Len(disk) \in Nat, Len(disk') \in Nat, Len(disk) <= Len(disk')
      PROVE  TypeOK'
  <2> DEFINE c == [conn[h] EXCEPT !.pc = "receiving", !.file = f,
                                  !.left = conn[h].req.size]
  <2>1. conn' = [conn EXCEPT ![h] = c]
    BY <1>4
  <2>2. c \in Connection /\ c.file = f
    BY <1>1, <1>2 DEF Connection, PC
  <2>3. Consistent(c)
    BY <1>1, <1>2 DEF Connection, Consistent
  <2> HIDE DEF c
  <2>4. ConnOK'
    BY <1>4, <2>1, <2>2, <2>3, SetConn DEF TypeOK
  <2> QED BY <1>3, <1>4, <2>4 DEF TypeOK
<1>5. path \in User \X Page
  BY <1>2 DEF getDocPath
<1>6. CASE /\ openForAppend(path)
           /\ conn' = [conn EXCEPT ![h].pc = "receiving", ![h].file = inode(path),
                                   ![h].left = conn[h].req.size]
  <2> HIDE DEF path
  <2>1. /\ SpoolOK' /\ inode(path) \in 1..Len(disk')
        /\ Len(disk) \in Nat /\ Len(disk') \in Nat /\ Len(disk) <= Len(disk')
    BY <1>5, <1>6, OpenForAppendSpool DEF TypeOK
  <2>2. inode(path) \in Nat /\ inode(path) <= Len(disk')
    BY <2>1
  <2> QED BY <1>4, <1>6, <2>1, <2>2
<1>7. CASE /\ UNCHANGED spool
           /\ conn' = [conn EXCEPT ![h].pc = "receiving", ![h].file = NoFile,
                                   ![h].left = conn[h].req.size]
  <2>1. SpoolOK'
    BY <1>7 DEF TypeOK, spool, SpoolOK
  <2>2. Len(disk) \in Nat /\ Len(disk') \in Nat /\ Len(disk) <= Len(disk')
    BY <1>7, SameDisk DEF spool
  <2>3. NoFile \in Nat /\ NoFile <= Len(disk')
    BY <2>2 DEF NoFile
  <2> QED BY <1>4, <1>7, <2>1, <2>2, <2>3
<1> QED BY <1>6, <1>7 DEF OpenUpload

LEMMA ReceiveChunkType ==
  ASSUME TypeOK, NEW h \in Handler, ReceiveChunk(h)
  PROVE  TypeOK'
<1> DEFINE f == conn[h].file
           chunk == <<conn[h].idPage, conn[h].req.size - conn[h].left + 1>>
<1>1. /\ conn[h] \in Connection /\ Consistent(conn[h]) /\ conn[h].pc = "receiving"
      /\ conn[h].left > 0
  BY ConnType DEF ReceiveChunk, At
<1>2. /\ conn[h].req \in Request /\ conn[h].req.op = "UPLOAD"
      /\ conn[h].idPage \in Page /\ conn[h].left <= conn[h].req.size
  BY <1>1 DEF Consistent
<1>3. conn[h].left \in Nat /\ conn[h].req.size \in Nat
  BY <1>1, <1>2, RequestFields DEF Connection
<1>4. TablesOK' /\ HistoryOK'
  BY DEF ReceiveChunk, TypeOK, database, history, TablesOK, HistoryOK
<1>5. SpoolOK' /\ Len(disk) \in Nat /\ Len(disk') \in Nat /\ Len(disk) <= Len(disk')
  <2>1. disk \in Seq(Seq(Chunk)) /\ Len(disk) \in Nat
    BY LenProperties DEF TypeOK, SpoolOK
  <2>2. CASE UNCHANGED disk
    BY <2>1, <2>2 DEF ReceiveChunk, TypeOK, SpoolOK
  <2>3. CASE f # NoFile /\ disk' = [disk EXCEPT ![f] = Append(@, chunk)]
    <3>1. f \in 1..Len(disk)
      BY <1>1, <2>1, <2>3, ConnType DEF Connection, NoFile
    <3>2. conn[h].req.size - conn[h].left + 1 \in Nat \ {0}
      BY <1>1, <1>2, <1>3
    <3>3. chunk \in Chunk
      BY <1>2, <3>2 DEF Chunk
    <3> HIDE DEF chunk, f
    <3>4. disk[f] \in Seq(Chunk)
      BY <2>1, <3>1, LenProperties
    <3> DEFINE new == Append(disk[f], chunk)
    <3>5. new \in Seq(Chunk)
      BY <3>3, <3>4, AppendProperties
    <3>6. disk' = [disk EXCEPT ![f] = new]
      BY <2>3
    <3> HIDE DEF new
    <3>7. disk' \in Seq(Seq(Chunk)) /\ Len(disk') = Len(disk)
      BY <2>1, <3>1, <3>5, <3>6, ExceptSeq
    <3>8. UNCHANGED files
      BY DEF ReceiveChunk
    <3> QED BY <2>1, <3>7, <3>8 DEF TypeOK, SpoolOK
  <2> QED BY <2>2, <2>3 DEF ReceiveChunk
<1>6. ConnOK'
  <2>1. CASE conn' = [conn EXCEPT ![h].left = @ - 1]
    <3> DEFINE c == [conn[h] EXCEPT !.left = @ - 1]
    <3>1. conn' = [conn EXCEPT ![h] = c]
      BY <2>1
    <3>2. c \in Connection /\ c.file = conn[h].file
      BY <1>1, <1>3 DEF Connection
    <3>3. Consistent(c)
      BY <1>1, <1>2, <1>3 DEF Connection, Consistent
    <3> HIDE DEF c
    <3>4. conn[h].file \in Nat /\ conn[h].file <= Len(disk)
      BY <1>1, ConnType DEF Connection
    <3>5. c.file <= Len(disk')
      BY <1>5, <3>2, <3>4
    <3>6. ConnOK
      BY DEF TypeOK
    <3> QED BY <1>5, <3>1, <3>2, <3>3, <3>5, <3>6, SetConn
  <2>2. CASE Answer(h, "INTERNAL_ERROR") /\ UNCHANGED disk
    BY <2>2, AnswerConn DEF Response
  <2> QED BY <2>1, <2>2 DEF ReceiveChunk
<1> QED BY <1>4, <1>5, <1>6 DEF TypeOK

\* What Consistent says of an upload under way.
LEMMA UploadType ==
  ASSUME TypeOK, NEW h \in Handler,
         conn[h].pc \in {"opening", "receiving", "extracting", "indexing"}
  PROVE  /\ conn[h].req \in Request /\ conn[h].req.op = "UPLOAD"
         /\ conn[h].idPage \in Page
         /\ conn[h].idUser \in User
<1>1. conn[h].req \in Request /\ conn[h].req.op = "UPLOAD" /\ conn[h].idPage \in Page
  BY ConnType DEF Consistent
<1>2. conn[h].req # NoRequest
  BY <1>1, RequestFields
<1> QED BY <1>1, <1>2, ConnType DEF Consistent

LEMMA ReceiveStopsType ==
  ASSUME TypeOK, NEW h \in Handler, ReceiveStops(h)
  PROVE  TypeOK'
<1>1. TablesOK' /\ SpoolOK' /\ HistoryOK' /\ UNCHANGED disk
  BY DEF ReceiveStops, TypeOK, database, spool, history, TablesOK, SpoolOK, HistoryOK
<1>2. CASE Answer(h, "INTERNAL_ERROR")
  BY <1>1, <1>2, AnswerConn DEF Response, TypeOK
<1>3. CASE Goto(h, "extracting")
  <2> DEFINE c == [conn[h] EXCEPT !.pc = "extracting"]
  <2>1. conn' = [conn EXCEPT ![h] = c]
    BY <1>3 DEF Goto
  <2>2. c \in Connection /\ c.file = conn[h].file /\ Consistent(c)
    BY ConnType, UploadType DEF Connection, PC, Consistent, ReceiveStops, At
  <2> HIDE DEF c
  <2>3. ConnOK'
    BY <1>1, <2>1, <2>2, SetConn, ConnType, SameDisk DEF TypeOK
  <2> QED BY <1>1, <2>3 DEF TypeOK
<1> QED BY <1>2, <1>3 DEF ReceiveStops

LEMMA ReceiveEndsType ==
  ASSUME TypeOK, NEW h \in Handler, ReceiveEnds(h)
  PROVE  TypeOK'
<1>1. TablesOK' /\ SpoolOK' /\ UNCHANGED disk
  BY DEF ReceiveEnds, TypeOK, database, spool, TablesOK, SpoolOK
<1>2. /\ conn[h].idPage \in Page /\ conn[h].idUser \in User
      /\ conn[h].req \in Request /\ conn[h].req.op = "UPLOAD"
  BY UploadType DEF ReceiveEnds, At
<1>3. HistoryOK'
  BY <1>2 DEF ReceiveEnds, TypeOK, HistoryOK
<1> DEFINE c == [conn[h] EXCEPT !.pc = "extracting", !.answer = "OK"]
<1>4. conn' = [conn EXCEPT ![h] = c]
  BY DEF ReceiveEnds
<1>5. c \in Connection /\ c.file = conn[h].file /\ Consistent(c)
  BY <1>2, ConnType DEF Connection, PC, Response, Consistent
<1> HIDE DEF c
<1>6. ConnOK'
  BY <1>1, <1>4, <1>5, SetConn, ConnType, SameDisk DEF TypeOK
<1> QED BY <1>1, <1>3, <1>6 DEF TypeOK

\* The text of a file, and any beginning of it.
LEMMA TextAtType ==
  ASSUME TypeOK, NEW path
  PROVE  textAt(path) \in Seq(Chunk)
<1>1. CASE exists(path)
  <2>1. files[path] \in 1..Len(disk)
    BY <1>1 DEF exists, TypeOK, SpoolOK
  <2>2. disk[files[path]] \in Seq(Chunk)
    BY <2>1, LenProperties DEF TypeOK, SpoolOK
  <2> QED BY <1>1, <2>2 DEF textAt
<1>2. CASE ~exists(path)
  <2>1. textAt(path) = << >>
    BY <1>2 DEF textAt
  <2>2. << >> \in Seq(Chunk)
    OBVIOUS
  <2> QED BY <2>1, <2>2
<1> QED BY <1>1, <1>2

LEMMA BeginningType ==
  ASSUME NEW S, NEW t \in Seq(S), NEW n \in 0..Len(t)
  PROVE  /\ SubSeq(t, 1, n) \in Seq(S)
         /\ Len(SubSeq(t, 1, n)) = n
         /\ \A i \in 1..n : SubSeq(t, 1, n)[i] = t[i]
<1>1. Len(t) \in Nat /\ n \in Nat
  BY LenProperties
<1>2. \A i \in 1..n : t[i] \in S
  BY <1>1, ElementOfSeq
<1> QED BY <1>1, <1>2, SubSeqProperties

LEMMA ExtractType ==
  ASSUME TypeOK, NEW h \in Handler, Extract(h)
  PROVE  TypeOK'
<1> DEFINE path == getDocPath(conn[h].idUser, conn[h].idPage)
           text == textAt(path)
<1>1. TablesOK' /\ SpoolOK' /\ HistoryOK' /\ UNCHANGED disk
  BY DEF Extract, TypeOK, database, spool, history, TablesOK, SpoolOK, HistoryOK
<1>2. /\ conn[h].req \in Request /\ conn[h].req.op = "UPLOAD"
      /\ conn[h].idPage \in Page /\ conn[h].idUser \in User
  BY UploadType DEF Extract, At
<1>3. text \in Seq(Chunk)
  BY TextAtType
<1> HIDE DEF text
<1>4. ASSUME NEW t \in Seq(Chunk), conn' = [conn EXCEPT ![h].pc = "indexing", ![h].got = t]
      PROVE  TypeOK'
  <2> DEFINE c == [conn[h] EXCEPT !.pc = "indexing", !.got = t]
  <2>1. conn' = [conn EXCEPT ![h] = c]
    BY <1>4
  <2>2. c \in Connection /\ c.file = conn[h].file /\ Consistent(c)
    BY <1>2, ConnType DEF Connection, PC, Consistent
  <2> HIDE DEF c
  <2>3. ConnOK'
    BY <1>1, <2>1, <2>2, SetConn, ConnType, SameDisk DEF TypeOK
  <2> QED BY <1>1, <2>3 DEF TypeOK
<1>5. CASE Goto(h, "closed")
  <2> DEFINE c == [conn[h] EXCEPT !.pc = "closed"]
  <2>1. conn' = [conn EXCEPT ![h] = c]
    BY <1>5 DEF Goto
  <2>2. c \in Connection /\ c.file = conn[h].file /\ Consistent(c)
    BY <1>2, ConnType DEF Connection, PC, Consistent
  <2> HIDE DEF c
  <2>3. ConnOK'
    BY <1>1, <2>1, <2>2, SetConn, ConnType, SameDisk DEF TypeOK
  <2> QED BY <1>1, <2>3 DEF TypeOK
<1>6. \A n \in 0..Len(text) : SubSeq(text, 1, n) \in Seq(Chunk)
  BY <1>3, BeginningType
<1>7. \/ conn' = [conn EXCEPT ![h].pc = "indexing", ![h].got = text]
      \/ \E n \in 0..Len(text) :
           conn' = [conn EXCEPT ![h].pc = "indexing", ![h].got = SubSeq(text, 1, n)]
      \/ Goto(h, "closed")
  BY DEF Extract, text
<1> QED BY <1>3, <1>4, <1>5, <1>6, <1>7

LEMMA IndexType ==
  ASSUME TypeOK, NEW h \in Handler, Index(h)
  PROVE  TypeOK'
<1>1. SpoolOK' /\ HistoryOK' /\ UNCHANGED disk
  BY DEF Index, TypeOK, spool, history, SpoolOK, HistoryOK
<1>2. TablesOK'
  <2>1. CASE UNCHANGED database
    BY <2>1 DEF TypeOK, database, TablesOK
  <2>2. CASE setDocContent(conn[h].idPage, conn[h].got)
    <3>1. conn[h].got \in Text
      BY ConnType DEF Connection, Text
    <3> QED BY <2>2, <3>1, SetDocContentTables DEF TypeOK
  <2> QED BY <2>1, <2>2 DEF Index
<1> DEFINE c == [conn[h] EXCEPT !.pc = "closed"]
<1>3. conn' = [conn EXCEPT ![h] = c]
  BY DEF Index, Goto
<1>4. c \in Connection /\ c.file = conn[h].file /\ Consistent(c)
  BY ConnType DEF Connection, PC, Consistent
<1> HIDE DEF c
<1>5. ConnOK'
  BY <1>1, <1>3, <1>4, SetConn, ConnType, SameDisk DEF TypeOK
<1> QED BY <1>1, <1>2, <1>5 DEF TypeOK

-----------------------------------------------------------------------------
LEMMA NextType == TypeOK /\ [Next]_vars => TypeOK'
<1> SUFFICES ASSUME TypeOK, [Next]_vars PROVE TypeOK'
  OBVIOUS
<1>1. CASE UNCHANGED vars
  BY <1>1 DEF vars, database, spool, history, TypeOK, TablesOK, SpoolOK, HistoryOK, ConnOK
<1>2. CASE \E h \in Handler, cn \in User \cup {Nobody} : Accept(h, cn)
  BY <1>2, AcceptType
<1>3. CASE Crash
  BY <1>3, CrashType
<1>4. ASSUME NEW h \in Handler, Step(h) PROVE TypeOK'
  BY <1>4, ReadRequestType, BadRequestType, PeerStallsType, ReplyType, HangupType, SearchType,
     ListCompaniesType, NewCompanyType, RemoveCompanyType, RemoveRowType,
     RemoveFileType, OpenDownloadType, SendChunkType, InsertDocumentType,
     OpenUploadType, ReceiveChunkType, ReceiveStopsType, ReceiveEndsType,
     ExtractType, IndexType DEF Step
<1>5. CASE Restart
  BY <1>5, RestartType
<1> QED BY <1>1, <1>2, <1>3, <1>4, <1>5 DEF Next

\* The tables, the spool and every connection keep their types: no id passes the
\* width of its column, no handler works on a file it has not opened, and none
\* reaches a statement without an authenticated user (proxy.cpp:422-464).
THEOREM TypeCorrect == Spec => []TypeOK
<1>1. Init => TypeOK
  BY InitType
<1>2. TypeOK /\ [Next]_vars => TypeOK'
  BY NextType
<1> QED BY <1>1, <1>2, PTL DEF Spec

-----------------------------------------------------------------------------
(* A document is filed under a company of its own user.                    *)

LEMMA InitOwner == Init => OwnerInv
BY DEF Init, OwnerInv, CompanyIds, CompanyOfOwner

-----------------------------------------------------------------------------
\* What each statement of database.cpp does to OwnerInv.

LEMMA NewCompanyOwner ==
  ASSUME OwnerInv, NEW name, NEW u, newCompany(name, u)
  PROVE  OwnerInv'
<1> DEFINE new == [id |-> nextCompany, user |-> u, name |-> name]
<1>1. /\ company' = company \cup {new}
      /\ nextCompany' = nextCompany + 1
      /\ document' = document
  BY DEF newCompany
<1>2. nextCompany \in Nat /\ new.id = nextCompany
  BY DEF OwnerInv, CompanyIds
<1>3. \A c \in company : c.id \in Nat /\ c.id < nextCompany
  BY DEF OwnerInv, CompanyIds
<1>4. \A d \in document : d.company \in Nat /\ d.company < nextCompany
  BY DEF OwnerInv
<1> HIDE DEF new
<1>5. CompanyIds'
  <2>1. nextCompany' \in Nat
    BY <1>1, <1>2
  <2>2. \A c \in company' : c.id \in Nat /\ c.id < nextCompany'
    BY <1>1, <1>2, <1>3
  <2>3. \A c, k \in company' : c.id = k.id => c = k
    BY <1>1, <1>2, <1>3 DEF OwnerInv, CompanyIds
  <2> QED BY <2>1, <2>2, <2>3 DEF CompanyIds
<1>6. \A d \in document' : d.company \in Nat /\ d.company < nextCompany'
  BY <1>1, <1>2, <1>4
<1>7. CompanyOfOwner'
  \* no document refers to the id that the counter gives only now
  BY <1>1, <1>2, <1>4 DEF OwnerInv, CompanyOfOwner
<1> QED BY <1>5, <1>6, <1>7 DEF OwnerInv

LEMMA RemoveCompanyOwner ==
  ASSUME OwnerInv, NEW name, NEW u, removeCompany(name, u)
  PROVE  OwnerInv'
BY DEF removeCompany, OwnerInv, CompanyIds, CompanyOfOwner

LEMMA NewDocumentOwner ==
  ASSUME OwnerInv, NEW name, NEW u, newDocument(u, name)
  PROVE  OwnerInv'
<1>1. PICK k \in CompanyNamed(name, u) :
        document' = document \cup
          {[id |-> nextPage, user |-> u, company |-> k.id, content |-> NULL]}
  BY DEF newDocument
<1>2. k \in company /\ k.user = u
  BY DEF CompanyNamed
<1>3. UNCHANGED <<company, nextCompany>>
  BY DEF newDocument
<1>4. CompanyIds'
  BY <1>1, <1>2, <1>3 DEF OwnerInv, CompanyIds
<1>5. \A d \in document' : d.company \in Nat /\ d.company < nextCompany'
  BY <1>1, <1>2, <1>3 DEF OwnerInv, CompanyIds
<1>6. CompanyOfOwner'
  \* the company of the new row is the only one with its id, and it is u's
  BY <1>1, <1>2, <1>3 DEF OwnerInv, CompanyIds, CompanyOfOwner
<1> QED BY <1>4, <1>5, <1>6 DEF OwnerInv

LEMMA RemoveDocumentOwner ==
  ASSUME OwnerInv, NEW idPage, NEW u, removeDocument(idPage, u)
  PROVE  OwnerInv'
BY DEF removeDocument, OwnerInv, CompanyIds, CompanyOfOwner

\* UPDATE sets the content and leaves what the invariant looks at.  The rows are
\* records with these fields.
LEMMA SetDocContentOwner ==
  ASSUME OwnerInv, NEW idPage, NEW text, setDocContent(idPage, text),
         \E S, T, U, V : document \subseteq [id : S, user : T, company : U, content : V]
  PROVE  OwnerInv'
<1>1. ASSUME NEW e \in document'
      PROVE  \E d \in document : e.user = d.user /\ e.company = d.company
  BY <1>1 DEF setDocContent
<1>2. UNCHANGED <<company, nextCompany>>
  BY DEF setDocContent
<1> QED BY <1>1, <1>2 DEF OwnerInv, CompanyIds, CompanyOfOwner

\* Every other step leaves company, document and nextCompany alone; a restart of
\* mysqld does not, and is left out.
LEMMA NextOwner ==
  ASSUME ~Fails("restart"), TypeOK, OwnerInv, [Next]_vars
  PROVE  OwnerInv'
<1>1. ASSUME UNCHANGED <<company, document, nextCompany>> PROVE OwnerInv'
  BY <1>1 DEF OwnerInv, CompanyIds, CompanyOfOwner
<1>2. ASSUME UNCHANGED database PROVE OwnerInv'
  BY <1>1, <1>2 DEF database
<1>3. CASE UNCHANGED vars
  BY <1>2, <1>3 DEF vars
<1>4. CASE \E h \in Handler, cn \in User \cup {Nobody} : Accept(h, cn)
  BY <1>2, <1>4 DEF Accept
<1>5. CASE Crash
  BY <1>2, <1>5 DEF Crash
<1>6. ASSUME NEW h \in Handler, Step(h) PROVE OwnerInv'
  <2>1. CASE UNCHANGED database
    BY <1>2, <2>1
  <2>2. CASE NewCompany(h)
    BY <1>2, <2>2, NewCompanyOwner DEF NewCompany, Statement
  <2>3. CASE RemoveCompany(h)
    BY <1>2, <2>3, RemoveCompanyOwner DEF RemoveCompany, Statement
  <2>4. CASE RemoveRow(h)
    BY <1>2, <2>4, RemoveDocumentOwner DEF RemoveRow, Statement
  <2>5. CASE InsertDocument(h)
    BY <1>2, <2>5, NewDocumentOwner DEF InsertDocument, Statement
  <2>6. CASE Index(h)
    <3>1. \E S, T, U, V : document \subseteq [id : S, user : T, company : U, content : V]
      BY DEF TypeOK, TablesOK
    <3> QED BY <1>2, <2>6, <3>1, SetDocContentOwner DEF Index
  <2>7. CASE ListCompanies(h)
    BY <1>2, <2>7 DEF ListCompanies, Statement
  <2> QED
    BY <1>6, <2>1, <2>2, <2>3, <2>4, <2>5, <2>6, <2>7
    DEF Step, ReadRequest, BadRequest, PeerStalls, Reply, Hangup, Search, RemoveFile,
        OpenDownload, SendChunk, OpenUpload, ReceiveChunk, ReceiveStops, ReceiveEnds, Extract
<1>7. ~Restart
  BY DEF Restart
<1> QED BY <1>3, <1>4, <1>5, <1>6, <1>7 DEF Next

\* The invariant holds in every reachable state, if the counter of Company never
\* goes back: mysqld is not restarted, or is one that stores it (MySQL 8).
THEOREM OwnerInvariance ==
  ASSUME ~Fails("restart")
  PROVE  Spec => []OwnerInv
<1>1. Init => TypeOK /\ OwnerInv
  BY InitType, InitOwner
<1>2. TypeOK /\ OwnerInv /\ [Next]_vars => TypeOK' /\ OwnerInv'
  BY NextType, NextOwner
<1> QED BY <1>1, <1>2, PTL DEF Spec

\* However the uploads, the creations and the removals of companies of several
\* users interleave, and whichever statements fail, no document is ever filed
\* under the company of another user (database.cpp:166-168), under the same
\* hypothesis on the counter.
THEOREM DocumentsOfOwner ==
  ASSUME ~Fails("restart")
  PROVE  Spec => []CompanyOfOwner
<1>1. OwnerInv => CompanyOfOwner
  BY DEF OwnerInv
<1>2. Spec => []OwnerInv
  BY OwnerInvariance
<1> QED BY <1>1, <1>2, PTL

-----------------------------------------------------------------------------
(* Why the uploads of Archive never meet: AUTO_INCREMENT gives every       *)
(* upload an id of its own, the id a path, and the path an inode that      *)
(* nobody else writes.  From this inductive invariant, IdInv, follows that *)
(* a step of one user's connection leaves alone what belongs to others.    *)

\* Where a handler has a row of its own and has not done with it.
UploadPC == {"opening", "receiving", "extracting", "indexing"}

Uploading(h)  == conn[h].pc \in UploadPC
Writing(h)    == At(h, "receiving") /\ conn[h].file # NoFile
FileUnmade(h) == At(h, "opening") \/ (At(h, "receiving") /\ conn[h].file = NoFile)
UploadPath(h) == getDocPath(conn[h].idUser, conn[h].idPage)

\* A connection b goes on as c without beginning an upload or opening a file.
Continues(b, c) ==
  /\ c.pc \in UploadPC =>
       b.pc \in UploadPC /\ c.idPage = b.idPage /\ c.idUser = b.idUser /\ c.req = b.req
  /\ c.pc = "opening" => b.pc = "opening"
  /\ c.pc = "receiving" => b.pc = "receiving" /\ c.file = b.file

\* A step of one handler leaves the connections of the others alone.
LEMMA OthersKept ==
  ASSUME TypeOK, NEW h \in Handler, Step(h)
  PROVE  \A g \in Handler : g # h => conn'[g] = conn[g]
<1> SUFFICES ASSUME NEW g \in Handler, g # h PROVE conn'[g] = conn[g]
  OBVIOUS
<1>1. conn \in [Handler -> Connection]
  BY ConnType
<1>2. ASSUME NEW label, Goto(h, label) PROVE conn'[g] = conn[g]
  BY <1>1, <1>2 DEF Goto
<1>3. ASSUME NEW response, Answer(h, response) PROVE conn'[g] = conn[g]
  BY <1>1, <1>3 DEF Answer
<1>4. CASE \E r \in Request : ReadRequest(h, r)
  BY <1>1, <1>4 DEF ReadRequest
<1>5. CASE BadRequest(h) \/ Reply(h) \/ RemoveFile(h) \/ ReceiveStops(h) \/ Index(h)
  BY <1>2, <1>3, <1>5 DEF BadRequest, Reply, RemoveFile, ReceiveStops, Index
<1>6. CASE ListCompanies(h) \/ NewCompany(h) \/ RemoveCompany(h)
  BY <1>3, <1>6 DEF ListCompanies, NewCompany, RemoveCompany, Statement
<1>7. CASE PeerStalls(h) \/ Hangup(h) \/ Search(h) \/ ReceiveEnds(h)
  BY <1>1, <1>7 DEF PeerStalls, Hangup, Search, ReceiveEnds
<1>8. CASE RemoveRow(h)
  BY <1>1, <1>3, <1>8 DEF RemoveRow, Statement
<1>9. CASE InsertDocument(h)
  BY <1>1, <1>3, <1>9 DEF InsertDocument, Statement
<1>10. CASE OpenDownload(h)
  BY <1>1, <1>3, <1>10 DEF OpenDownload
<1>11. CASE OpenUpload(h)
  BY <1>1, <1>11 DEF OpenUpload
<1>12. CASE SendChunk(h)
  BY <1>1, <1>2, <1>3, <1>12 DEF SendChunk
<1>13. CASE ReceiveChunk(h)
  BY <1>1, <1>3, <1>13 DEF ReceiveChunk
<1>14. CASE Extract(h)
  BY <1>1, <1>2, <1>14 DEF Extract
<1> QED
  BY <1>4, <1>5, <1>6, <1>7, <1>8, <1>9, <1>10, <1>11, <1>12, <1>13, <1>14 DEF Step

\* Only INSERT begins an upload, and only open() opens its file.
LEMMA StepContinues ==
  ASSUME TypeOK, NEW h \in Handler, Step(h), ~OpenUpload(h),
         ~(InsertDocument(h) /\ conn'[h].pc = "opening")
  PROVE  Continues(conn[h], conn'[h])
<1>1. conn \in [Handler -> Connection] /\ conn[h] \in Connection
  BY ConnType
<1>2. ASSUME NEW response, Answer(h, response) PROVE Continues(conn[h], conn'[h])
  BY <1>1, <1>2 DEF Answer, Continues, UploadPC, Connection
<1>3. ASSUME Goto(h, "reply") \/ Goto(h, "closed") PROVE Continues(conn[h], conn'[h])
  BY <1>1, <1>3 DEF Goto, Continues, UploadPC, Connection
<1>4. CASE \E r \in Request : ReadRequest(h, r)
  BY <1>1, <1>4 DEF ReadRequest, Continues, UploadPC, Connection
<1>5. CASE BadRequest(h) \/ Reply(h) \/ RemoveFile(h) \/ Index(h)
  BY <1>2, <1>3, <1>5 DEF BadRequest, Reply, RemoveFile, Index
<1>6. CASE ListCompanies(h) \/ NewCompany(h) \/ RemoveCompany(h)
  BY <1>2, <1>6 DEF ListCompanies, NewCompany, RemoveCompany, Statement
<1>7. CASE PeerStalls(h) \/ Hangup(h)
  BY <1>1, <1>7 DEF PeerStalls, Hangup, Idle, Continues, UploadPC
<1>8. CASE Search(h)
  BY <1>1, <1>8 DEF Search, Continues, UploadPC, Connection
<1>9. CASE RemoveRow(h)
  <2>1. CASE conn' = [conn EXCEPT ![h].pc = "unlinking",
                                  ![h].late = conn[h].req.idPage < nextPage]
    BY <1>1, <2>1 DEF Continues, UploadPC, Connection
  <2> QED BY <1>2, <1>9, <2>1 DEF RemoveRow, Statement
<1>10. CASE InsertDocument(h)
  BY <1>1, <1>2, <1>10 DEF InsertDocument, Statement, Continues, UploadPC, Connection
<1>11. CASE OpenDownload(h)
  <2>1. ASSUME NEW f, NEW late, conn' = [conn EXCEPT ![h].pc = "sending", ![h].file = f,
                                           ![h].answer = "OK", ![h].late = late]
        PROVE  Continues(conn[h], conn'[h])
    BY <1>1, <2>1 DEF Continues, UploadPC, Connection
  <2> QED BY <1>2, <1>11, <2>1 DEF OpenDownload
<1>12. CASE SendChunk(h)
  <2>1. CASE conn'[h].pc = "sending"
    BY <2>1 DEF Continues, UploadPC
  <2> QED BY <1>1, <1>2, <1>3, <1>12, <2>1 DEF SendChunk, At, Connection
<1>13. CASE ReceiveChunk(h)
  <2>1. CASE conn' = [conn EXCEPT ![h].left = @ - 1]
    BY <1>1, <2>1 DEF Continues, Connection
  <2> QED BY <1>2, <1>13, <2>1 DEF ReceiveChunk
<1>14. CASE ReceiveStops(h)
  BY <1>1, <1>2, <1>14 DEF ReceiveStops, Goto, At, Continues, UploadPC, Connection
<1>15. CASE ReceiveEnds(h)
  BY <1>1, <1>15 DEF ReceiveEnds, At, Continues, UploadPC, Connection
<1>16. CASE Extract(h)
  <2>1. ASSUME NEW text, conn' = [conn EXCEPT ![h].pc = "indexing", ![h].got = text],
               conn[h].pc = "extracting"
        PROVE  Continues(conn[h], conn'[h])
    BY <1>1, <2>1 DEF Continues, UploadPC, Connection
  <2> QED BY <1>3, <1>16, <2>1 DEF Extract, At
<1> QED
  BY <1>4, <1>5, <1>6, <1>7, <1>8, <1>9, <1>10, <1>11, <1>12, <1>13, <1>14, <1>15, <1>16
  DEF Step

-----------------------------------------------------------------------------
\* An id below the counter was given to one upload, for ever; rows, files and
\* acknowledgements are of ids that were given, and of the user they were given to.
IdsGiven ==
  /\ \A id \in Page : upload[id].user = Nobody <=> nextPage <= id
  /\ \A id \in Page : upload[id].user # Nobody => upload[id].size \in Sizes
  /\ \A d \in document : upload[d.id].user = d.user
  /\ \A d, e \in document : d.id = e.id => d = e
  /\ \A path \in DOMAIN files : upload[path[2]].user = path[1]
  /\ \A id \in acked : upload[id].user # Nobody

\* No two handlers upload under one id, and an id whose file is still to be made or
\* filled is not acknowledged; what is still to be made is not there.
UploadsApart ==
  /\ \A h \in Handler : Uploading(h) =>
       upload[conn[h].idPage] = [user |-> conn[h].idUser, size |-> conn[h].req.size]
  /\ \A g, h \in Handler :
       Uploading(g) /\ Uploading(h) /\ conn[g].idPage = conn[h].idPage => g = h
  /\ \A h \in Handler : conn[h].pc \in {"opening", "receiving"} => conn[h].idPage \notin acked
  /\ \A h \in Handler : FileUnmade(h) => ~exists(UploadPath(h))

\* No two paths share an inode, and no two handlers write one.
FilesApart ==
  /\ \A p, q \in DOMAIN files : files[p] = files[q] => p = q
  /\ \A h \in Handler : Writing(h) =>
       \A p \in DOMAIN files : files[p] = conn[h].file <=> p = UploadPath(h)
  /\ \A g, h \in Handler : Writing(g) /\ Writing(h) /\ conn[g].file = conn[h].file => g = h

IdInv == IdsGiven /\ UploadsApart /\ FilesApart

LEMMA InitIds == Init => IdInv
<1> SUFFICES ASSUME Init PROVE IdInv
  OBVIOUS
<1>1. IdsGiven
  BY BoundsAssumption DEF Init, IdsGiven, Page
<1>2. \A h \in Handler : conn[h].pc = "idle"
  BY DEF Init, Idle
<1>3. \A h \in Handler : ~Uploading(h) /\ ~Writing(h) /\ ~FileUnmade(h)
                         /\ conn[h].pc \notin {"opening", "receiving"}
  BY <1>2 DEF Uploading, UploadPC, Writing, FileUnmade, At
<1>4. UploadsApart
  BY <1>3 DEF UploadsApart
<1>5. FilesApart
  BY <1>3 DEF Init, FilesApart
<1> QED BY <1>1, <1>4, <1>5 DEF IdInv

LEMMA InsertEffect ==
  ASSUME TypeOK, NEW h \in Handler, InsertDocument(h)
  PROVE  \/ UNCHANGED <<document, nextPage, upload>> /\ conn'[h].pc = "reply"
         \/ /\ nextPage \in Page /\ nextPage' = nextPage + 1
            /\ \E k \in company : document' = document \cup
                 {[id |-> nextPage, user |-> conn[h].idUser, company |-> k.id, content |-> NULL]}
            /\ upload' = [upload EXCEPT ![nextPage] =
                            [user |-> conn[h].idUser, size |-> conn[h].req.size]]
            /\ conn[h].idUser \in User /\ conn[h].req.size \in Sizes
            /\ \/ conn'[h].pc = "reply"
               \/ conn' = [conn EXCEPT ![h].pc = "opening", ![h].idPage = nextPage]
<1>1. /\ conn[h].idUser \in User /\ conn[h].req \in Request
      /\ conn[h].req.op = "UPLOAD"
  BY ExecType DEF InsertDocument
<1>2. conn[h].req.size \in Sizes
  BY <1>1 DEF Request
<1>3. conn \in [Handler -> Connection] /\ conn[h] \in Connection
  BY ConnType
<1>4. ASSUME NEW response, Answer(h, response) PROVE conn'[h].pc = "reply"
  BY <1>3, <1>4 DEF Answer, Connection
<1>5. CASE UNCHANGED database /\ Answer(h, "INTERNAL_ERROR")
  BY <1>4, <1>5 DEF InsertDocument, database
<1>6. ASSUME nextPage <= MaxPage, newDocument(conn[h].idUser, conn[h].req.name),
             \/ conn' = [conn EXCEPT ![h].pc = "opening", ![h].idPage = nextPage]
             \/ Answer(h, "INTERNAL_ERROR")
      PROVE  /\ nextPage \in Page /\ nextPage' = nextPage + 1
             /\ \E k \in company : document' = document \cup
                  {[id |-> nextPage, user |-> conn[h].idUser, company |-> k.id, content |-> NULL]}
             /\ upload' = [upload EXCEPT ![nextPage] =
                             [user |-> conn[h].idUser, size |-> conn[h].req.size]]
             /\ \/ conn'[h].pc = "reply"
                \/ conn' = [conn EXCEPT ![h].pc = "opening", ![h].idPage = nextPage]
  <2>1. nextPage \in Page /\ nextPage' = nextPage + 1 /\ nextPage' # nextPage
    BY <1>1, <1>6, NewDocumentTables, RequestFields DEF TypeOK, newDocument
  <2>2. \E k \in company : document' = document \cup
          {[id |-> nextPage, user |-> conn[h].idUser, company |-> k.id, content |-> NULL]}
    BY <1>6 DEF newDocument, CompanyNamed
  <2>3. upload' = [upload EXCEPT ![nextPage] =
                     [user |-> conn[h].idUser, size |-> conn[h].req.size]]
    BY <2>1 DEF InsertDocument
  <2> QED BY <1>4, <1>6, <2>1, <2>2, <2>3
<1> QED BY <1>1, <1>2, <1>5, <1>6 DEF InsertDocument, Statement

LEMMA InsertConn ==
  ASSUME TypeOK, NEW h \in Handler, InsertDocument(h)
  PROVE  /\ conn[h].pc = "exec" /\ conn[h].req.op = "UPLOAD"
         /\ conn'[h].idUser = conn[h].idUser /\ conn'[h].req = conn[h].req
         /\ conn'[h].got = conn[h].got /\ conn'[h].found = conn[h].found
         /\ \/ conn'[h].pc = "reply" /\ conn'[h].answer = "INTERNAL_ERROR"
            \/ conn'[h].pc = "opening" /\ conn'[h].idPage = nextPage
<1>1. conn \in [Handler -> Connection] /\ conn[h] \in Connection
  BY ConnType
<1>2. conn[h].pc = "exec" /\ conn[h].req.op = "UPLOAD"
  BY DEF InsertDocument, Exec, At
<1>3. CASE Answer(h, "INTERNAL_ERROR")
  BY <1>1, <1>2, <1>3 DEF Answer, Connection
<1>4. CASE conn' = [conn EXCEPT ![h].pc = "opening", ![h].idPage = nextPage]
  BY <1>1, <1>2, <1>4 DEF Connection
<1> QED BY <1>3, <1>4 DEF InsertDocument, Statement

LEMMA UploadOwner ==
  ASSUME TypeOK, UploadsApart, NEW h \in Handler, conn[h].pc \in UploadPC
  PROVE  /\ conn[h].idPage \in Page /\ conn[h].idUser \in User
         /\ conn[h].req \in Request /\ conn[h].req.op = "UPLOAD"
         /\ upload[conn[h].idPage].user = conn[h].idUser
         /\ upload[conn[h].idPage].size = conn[h].req.size
<1>1. Uploading(h)
  BY DEF Uploading
<1>2. upload[conn[h].idPage] = [user |-> conn[h].idUser, size |-> conn[h].req.size]
  BY <1>1 DEF UploadsApart
<1> QED BY <1>2, UploadType DEF UploadPC

LEMMA InsertIds ==
  ASSUME TypeOK, IdsGiven, NEW h \in Handler, InsertDocument(h)
  PROVE  IdsGiven'
<1>1. UNCHANGED <<files, acked>>
  BY DEF InsertDocument, spool
<1>2. CASE UNCHANGED <<document, nextPage, upload>>
  BY <1>1, <1>2 DEF IdsGiven
<1>3. ASSUME nextPage \in Page, nextPage' = nextPage + 1,
             NEW k \in company, document' = document \cup
                 {[id |-> nextPage, user |-> conn[h].idUser, company |-> k.id, content |-> NULL]},
             upload' = [upload EXCEPT ![nextPage] =
                            [user |-> conn[h].idUser, size |-> conn[h].req.size]],
             conn[h].idUser \in User, conn[h].req.size \in Sizes
      PROVE  IdsGiven'
  <2>1. /\ upload \in [Page -> [user : User \cup {Nobody}, size : Nat]]
        /\ Nobody \notin User /\ Page \subseteq Nat
        /\ \A d \in document : d.id \in Page /\ d.user \in User
        /\ \A p \in DOMAIN files : p[2] \in Page /\ p[1] \in User
        /\ acked \subseteq Page
    BY NobodyAssumption DEF TypeOK, TablesOK, SpoolOK, HistoryOK, Page
  <2>2. upload[nextPage].user = Nobody
    BY <1>3, <2>1 DEF IdsGiven
  <2>3. /\ upload'[nextPage] = [user |-> conn[h].idUser, size |-> conn[h].req.size]
        /\ \A id \in Page : id # nextPage => upload'[id] = upload[id]
    BY <1>3, <2>1
  <2>4. \A id \in Page : upload'[id].user = Nobody <=> nextPage' <= id
    BY <1>3, <2>1, <2>3 DEF IdsGiven
  <2>5. \A id \in Page : upload'[id].user # Nobody => upload'[id].size \in Sizes
    BY <1>3, <2>3 DEF IdsGiven
  <2>6. \A d \in document : d.id # nextPage
    BY <2>1, <2>2 DEF IdsGiven
  <2>7. \A d \in document' : upload'[d.id].user = d.user
    BY <1>3, <2>1, <2>3, <2>6 DEF IdsGiven
  <2>8. \A d, e \in document' : d.id = e.id => d = e
    BY <1>3, <2>6 DEF IdsGiven
  <2>9. \A path \in DOMAIN files' : upload'[path[2]].user = path[1]
    BY <1>1, <2>1, <2>2, <2>3 DEF IdsGiven
  <2>10. \A id \in acked' : upload'[id].user # Nobody
    BY <1>1, <2>1, <2>2, <2>3 DEF IdsGiven
  <2> QED BY <2>4, <2>5, <2>7, <2>8, <2>9, <2>10 DEF IdsGiven
<1> QED BY <1>2, <1>3, InsertEffect

\* Every other step only forgets rows and files, or acknowledges an upload.
LEMMA NextIds ==
  ASSUME TypeOK, IdInv, [Next]_vars
  PROVE  IdsGiven'
<1>1. IdsGiven /\ UploadsApart
  BY DEF IdInv
<1>2. ASSUME UNCHANGED <<document, nextPage, files, upload, acked>> PROVE IdsGiven'
  BY <1>1, <1>2 DEF IdsGiven
<1>3. CASE UNCHANGED vars
  BY <1>2, <1>3 DEF vars, database, spool, history
<1>4. CASE \E h \in Handler, cn \in User \cup {Nobody} : Accept(h, cn)
  BY <1>2, <1>4 DEF Accept, database, spool, history
<1>5. CASE Crash \/ Restart
  BY <1>2, <1>5 DEF Crash, Restart, database, spool, history
<1>6. ASSUME NEW h \in Handler, Step(h) PROVE IdsGiven'
  <2>1. CASE \/ \E r \in Request : ReadRequest(h, r)
             \/ BadRequest(h) \/ PeerStalls(h) \/ Hangup(h) \/ Search(h) \/ OpenDownload(h)
             \/ SendChunk(h) \/ ReceiveStops(h) \/ Extract(h)
    BY <1>2, <2>1 DEF ReadRequest, BadRequest, PeerStalls, Hangup, Search, OpenDownload,
       SendChunk, ReceiveStops, Extract, database, spool, history
  <2>2. CASE Reply(h) \/ ReceiveChunk(h)
    BY <1>2, <2>2 DEF Reply, ReceiveChunk, database, spool, history
  <2>3. CASE ListCompanies(h) \/ NewCompany(h) \/ RemoveCompany(h)
    BY <1>2, <2>3 DEF ListCompanies, NewCompany, RemoveCompany, Statement, newCompany,
       removeCompany, database, spool, history
  <2>4. CASE RemoveRow(h)
    <3>1. UNCHANGED <<nextPage, files, upload, acked>>
      BY <2>4 DEF RemoveRow, Statement, removeDocument, database, spool
    <3>2. document' \subseteq document
      BY <2>4 DEF RemoveRow, Statement, removeDocument, database
    <3> QED BY <1>1, <3>1, <3>2 DEF IdsGiven
  <2>5. CASE RemoveFile(h)
    <3>1. UNCHANGED <<document, nextPage, upload, acked>>
      BY <2>5 DEF RemoveFile, database, history
    <3>2. DOMAIN files' \subseteq DOMAIN files
      BY <2>5 DEF RemoveFile, unlink, spool
    <3> QED BY <1>1, <3>1, <3>2 DEF IdsGiven
  <2>6. CASE InsertDocument(h)
    BY <1>1, <2>6, InsertIds
  <2>7. CASE OpenUpload(h)
    <3> DEFINE path == UploadPath(h)
    <3>1. UNCHANGED <<document, nextPage, upload, acked>>
      BY <2>7 DEF OpenUpload, database, history
    <3>2. DOMAIN files' \subseteq DOMAIN files \cup {path}
      BY <2>7 DEF OpenUpload, openForAppend, spool, UploadPath
    <3>3. conn[h].pc = "opening"
      BY <2>7 DEF OpenUpload, At
    <3>4. upload[path[2]].user = path[1]
      BY <1>1, <3>3, UploadOwner DEF UploadPC, UploadPath, getDocPath
    <3> HIDE DEF path
    <3> QED BY <1>1, <3>1, <3>2, <3>4 DEF IdsGiven
  <2>8. CASE ReceiveEnds(h)
    <3>1. UNCHANGED <<document, nextPage, upload, files>> /\ acked' = acked \cup {conn[h].idPage}
      BY <2>8 DEF ReceiveEnds, database, spool
    <3>2. conn[h].pc = "receiving"
      BY <2>8 DEF ReceiveEnds, At
    <3>3. upload[conn[h].idPage].user = conn[h].idUser /\ conn[h].idUser \in User
      BY <1>1, <3>2, UploadOwner DEF UploadPC
    <3> QED BY <1>1, <3>1, <3>3, NobodyAssumption DEF IdsGiven
  <2>9. CASE Index(h)
    <3>1. UNCHANGED <<nextPage, files, upload, acked>>
      BY <2>9 DEF Index, setDocContent, database, spool, history
    <3>2. CASE UNCHANGED document
      BY <1>2, <3>1, <3>2
    <3>3. CASE setDocContent(conn[h].idPage, conn[h].got)
      <4> DEFINE new(d) == IF d.id = conn[h].idPage THEN [d EXCEPT !.content = conn[h].got] ELSE d
      <4>1. document' = {new(d) : d \in document}
        BY <3>3 DEF setDocContent
      <4>2. \A d \in document : new(d).id = d.id /\ new(d).user = d.user
        BY DEF TypeOK, TablesOK
      <4> HIDE DEF new
      <4> QED BY <1>1, <3>1, <4>1, <4>2 DEF IdsGiven
    <3> QED BY <2>9, <3>2, <3>3 DEF Index, database
  <2> QED
    BY <1>6, <2>1, <2>2, <2>3, <2>4, <2>5, <2>6, <2>7, <2>8, <2>9 DEF Step
<1> QED BY <1>3, <1>4, <1>5, <1>6 DEF Next

-----------------------------------------------------------------------------
\* Connections that begin no upload, over a spool that gains no file.
LEMMA CalmUploads ==
  ASSUME UploadsApart, FilesApart,
         \A g \in Handler : Continues(conn[g], conn'[g]),
         \A g \in Handler : Uploading(g) => upload'[conn[g].idPage] = upload[conn[g].idPage],
         UNCHANGED acked,
         DOMAIN files' \subseteq DOMAIN files,
         \A p \in DOMAIN files' : files'[p] = files[p]
  PROVE  UploadsApart' /\ FilesApart'
<1>1. ASSUME NEW g \in Handler, Uploading(g)'
      PROVE  /\ Uploading(g) /\ conn'[g].idPage = conn[g].idPage
             /\ conn'[g].idUser = conn[g].idUser /\ conn'[g].req = conn[g].req
             /\ UploadPath(g)' = UploadPath(g)
  BY <1>1 DEF Uploading, Continues, UploadPath, getDocPath
<1>2. ASSUME NEW g \in Handler, Writing(g)'
      PROVE  Writing(g) /\ conn'[g].file = conn[g].file /\ UploadPath(g)' = UploadPath(g)
  BY <1>1, <1>2 DEF Uploading, UploadPC, Writing, At, Continues
<1>3. ASSUME NEW g \in Handler, FileUnmade(g)'
      PROVE  FileUnmade(g) /\ UploadPath(g)' = UploadPath(g)
  BY <1>1, <1>3 DEF Uploading, UploadPC, FileUnmade, At, Continues
<1>4. ASSUME NEW g \in Handler, conn'[g].pc \in {"opening", "receiving"}
      PROVE  conn[g].pc \in {"opening", "receiving"} /\ conn'[g].idPage = conn[g].idPage
  BY <1>1, <1>4 DEF Uploading, UploadPC, Continues
<1>5. UploadsApart'
  BY <1>1, <1>3, <1>4 DEF UploadsApart, exists
<1>6. FilesApart'
  BY <1>2 DEF FilesApart
<1> QED BY <1>5, <1>6

LEMMA InsertUploads ==
  ASSUME TypeOK, IdInv, NEW h \in Handler, InsertDocument(h), conn'[h].pc = "opening"
  PROVE  UploadsApart' /\ FilesApart'
<1>1. UNCHANGED <<files, acked>>
  BY DEF InsertDocument, spool
<1>2. \A g \in Handler : g # h => conn'[g] = conn[g]
  BY OthersKept DEF Step
<1>3. /\ nextPage \in Page
      /\ upload' = [upload EXCEPT ![nextPage] =
                       [user |-> conn[h].idUser, size |-> conn[h].req.size]]
      /\ conn' = [conn EXCEPT ![h].pc = "opening", ![h].idPage = nextPage]
  BY InsertEffect, "opening" # "reply"
<1>4. upload[nextPage].user = Nobody
  BY <1>3 DEF IdInv, IdsGiven, Page
<1>5. /\ conn'[h].pc = "opening" /\ conn'[h].idPage = nextPage
      /\ conn'[h].idUser = conn[h].idUser /\ conn'[h].req = conn[h].req
  BY <1>3, ConnType DEF Connection
<1>6. /\ upload \in [Page -> [user : User \cup {Nobody}, size : Nat]]
      /\ Nobody \notin User
  BY NobodyAssumption DEF TypeOK, HistoryOK
<1>7. /\ upload'[nextPage] = [user |-> conn[h].idUser, size |-> conn[h].req.size]
      /\ \A id \in Page : id # nextPage => upload'[id] = upload[id]
  BY <1>3, <1>6
<1>8. ASSUME NEW g \in Handler, Uploading(g)
      PROVE  conn[g].idPage \in Page /\ conn[g].idPage # nextPage
  BY <1>4, <1>6, <1>8, UploadOwner DEF Uploading, IdInv
<1>9. ASSUME NEW g \in Handler, g # h
      PROVE  /\ Uploading(g)' <=> Uploading(g)
             /\ Writing(g)' <=> Writing(g)
             /\ FileUnmade(g)' <=> FileUnmade(g)
             /\ UploadPath(g)' = UploadPath(g)
  BY <1>2, <1>9 DEF Uploading, Writing, FileUnmade, UploadPath, At
<1>10. ~Writing(h)'
  BY <1>5 DEF Writing, At
<1>11. FilesApart'
  BY <1>1, <1>2, <1>9, <1>10 DEF IdInv, FilesApart
<1>12. UploadsApart'
  <2>1. \A g \in Handler : Uploading(g)' =>
          upload'[conn'[g].idPage] = [user |-> conn'[g].idUser, size |-> conn'[g].req.size]
    BY <1>2, <1>5, <1>7, <1>8, <1>9 DEF IdInv, UploadsApart
  <2>2. \A f, g \in Handler :
          Uploading(f)' /\ Uploading(g)' /\ conn'[f].idPage = conn'[g].idPage => f = g
    BY <1>2, <1>5, <1>8, <1>9 DEF IdInv, UploadsApart
  <2>3. nextPage \notin acked
    BY <1>4 DEF IdInv, IdsGiven
  <2>4. \A g \in Handler : conn'[g].pc \in {"opening", "receiving"} => conn'[g].idPage \notin acked'
    BY <1>1, <1>2, <1>5, <2>3 DEF IdInv, UploadsApart
  <2>5. UploadPath(h)' = <<conn[h].idUser, nextPage>>
    BY <1>5 DEF UploadPath, getDocPath
  <2>6. conn[h].idUser # Nobody
    BY <1>6, ExecType DEF InsertDocument
  <2>7. UploadPath(h)' \notin DOMAIN files
    BY <1>4, <2>5, <2>6 DEF IdInv, IdsGiven
  <2>8. \A g \in Handler : FileUnmade(g)' => UploadPath(g)' \notin DOMAIN files'
    BY <1>1, <1>9, <2>7 DEF IdInv, UploadsApart, exists
  <2> QED BY <2>1, <2>2, <2>4, <2>8 DEF UploadsApart, exists
<1> QED BY <1>11, <1>12

\* As no file has the path yet, open() makes one.
LEMMA OpenUploadEffect ==
  ASSUME TypeOK, UploadsApart, NEW h \in Handler, OpenUpload(h)
  PROVE  /\ conn[h].pc = "opening"
         /\ conn'[h].pc = "receiving" /\ conn'[h].idPage = conn[h].idPage
         /\ conn'[h].idUser = conn[h].idUser /\ conn'[h].req = conn[h].req
         /\ conn'[h].left = conn[h].req.size
         /\ \/ UNCHANGED <<files, disk>> /\ conn'[h].file = NoFile /\ Fails("open")
            \/ /\ disk' = Append(disk, << >>)
               /\ files' = [p \in DOMAIN files \cup {UploadPath(h)} |->
                              IF p = UploadPath(h) THEN Len(disk) + 1 ELSE files[p]]
               /\ conn'[h].file = Len(disk) + 1
<1>1. conn[h].pc = "opening"
  BY DEF OpenUpload, At
<1>2. ~exists(UploadPath(h))
  BY <1>1 DEF UploadsApart, FileUnmade, At
<1>3. ASSUME NEW f, conn' = [conn EXCEPT ![h].pc = "receiving", ![h].file = f,
                                         ![h].left = conn[h].req.size]
      PROVE  /\ conn'[h].pc = "receiving" /\ conn'[h].idPage = conn[h].idPage
             /\ conn'[h].idUser = conn[h].idUser /\ conn'[h].req = conn[h].req
             /\ conn'[h].left = conn[h].req.size /\ conn'[h].file = f
  BY <1>3, ConnType DEF Connection
<1>4. CASE /\ openForAppend(UploadPath(h))
           /\ conn' = [conn EXCEPT ![h].pc = "receiving", ![h].file = inode(UploadPath(h)),
                                   ![h].left = conn[h].req.size]
  <2>1. inode(UploadPath(h)) = Len(disk) + 1
    BY <1>2 DEF inode
  <2>2. /\ disk' = Append(disk, << >>)
        /\ files' = [p \in DOMAIN files \cup {UploadPath(h)} |->
                       IF p = UploadPath(h) THEN Len(disk) + 1 ELSE files[p]]
    BY <1>2, <1>4 DEF openForAppend
  <2> QED BY <1>1, <1>3, <1>4, <2>1, <2>2
<1>5. CASE /\ UNCHANGED spool /\ Fails("open")
           /\ conn' = [conn EXCEPT ![h].pc = "receiving", ![h].file = NoFile,
                                   ![h].left = conn[h].req.size]
  BY <1>1, <1>3, <1>5 DEF spool
<1> QED BY <1>4, <1>5 DEF OpenUpload, UploadPath

LEMMA OpenUploads ==
  ASSUME TypeOK, IdInv, NEW h \in Handler, OpenUpload(h)
  PROVE  UploadsApart' /\ FilesApart'
<1> DEFINE path == UploadPath(h)
<1> USE DEF IdInv
<1>1. UNCHANGED <<upload, acked>>
  BY DEF OpenUpload, history
<1>2. \A g \in Handler : g # h => conn'[g] = conn[g]
  BY OthersKept DEF Step
<1>3. /\ conn[h].pc = "opening"
      /\ conn'[h].pc = "receiving" /\ conn'[h].idPage = conn[h].idPage
      /\ conn'[h].idUser = conn[h].idUser /\ conn'[h].req = conn[h].req
  BY OpenUploadEffect
<1>4. path' = path
  BY <1>3 DEF UploadPath, getDocPath
<1>5. \A g \in Handler : /\ Uploading(g)' <=> Uploading(g)
                         /\ UploadPath(g)' = UploadPath(g)
                         /\ conn'[g].idPage = conn[g].idPage
                         /\ conn'[g].idUser = conn[g].idUser
                         /\ conn'[g].req = conn[g].req
  BY <1>2, <1>3 DEF Uploading, UploadPC, UploadPath, getDocPath
<1>6. \A g \in Handler : g # h => /\ FileUnmade(g)' <=> FileUnmade(g)
                                  /\ Writing(g)' <=> Writing(g)
                                  /\ conn'[g].file = conn[g].file
  BY <1>2 DEF FileUnmade, Writing, At
<1>7. ~exists(path)
  BY <1>3 DEF UploadsApart, FileUnmade, At
<1>8. \A g \in Handler : Uploading(g) /\ UploadPath(g) = path => g = h
  BY <1>3 DEF UploadsApart, Uploading, UploadPC, UploadPath, getDocPath
<1>9. \A g \in Handler : FileUnmade(g) \/ Writing(g) => Uploading(g)
  BY DEF FileUnmade, Writing, At, Uploading, UploadPC
<1>10. ASSUME \A g \in Handler : FileUnmade(g)' => ~exists(UploadPath(g))'
       PROVE  UploadsApart'
  BY <1>1, <1>2, <1>3, <1>5, <1>10 DEF UploadsApart
<1>11. CASE UNCHANGED <<files, disk>> /\ conn'[h].file = NoFile
  <2>1. \A g \in Handler : FileUnmade(g)' => ~exists(UploadPath(g))'
    BY <1>4, <1>5, <1>6, <1>7, <1>11 DEF UploadsApart, exists
  <2>2. ~Writing(h)'
    BY <1>11 DEF Writing
  <2>3. FilesApart'
    BY <1>5, <1>6, <1>11, <2>2 DEF FilesApart
  <2> QED BY <1>10, <2>1, <2>3
<1>12. CASE /\ files' = [p \in DOMAIN files \cup {path} |->
                           IF p = path THEN Len(disk) + 1 ELSE files[p]]
            /\ conn'[h].file = Len(disk) + 1
  <2> HIDE DEF path
  <2>1. ~FileUnmade(h)'
    <3>1. Len(disk) \in Nat
      BY SameDisk, LenProperties DEF TypeOK, SpoolOK
    <3> QED BY <1>3, <1>12, <3>1 DEF FileUnmade, At, NoFile
  <2>2. \A g \in Handler : FileUnmade(g)' => ~exists(UploadPath(g))'
    BY <1>5, <1>6, <1>8, <1>9, <1>12, <2>1 DEF UploadsApart, exists
  <2>3. \A p \in DOMAIN files : files[p] # Len(disk) + 1
    BY LenProperties DEF TypeOK, SpoolOK
  <2>4. \A g \in Handler : conn[g].file # Len(disk) + 1
    <3>1. \A g \in Handler : conn[g].file <= Len(disk) /\ conn[g].file \in Nat
      BY ConnType DEF Connection
    <3> QED BY <3>1, LenProperties DEF TypeOK, SpoolOK
  <2>5. \A p, q \in DOMAIN files' : files'[p] = files'[q] => p = q
    BY <1>12, <2>3 DEF FilesApart
  <2>6. ASSUME NEW g \in Handler, Writing(g)', NEW p \in DOMAIN files'
        PROVE  files'[p] = conn'[g].file <=> p = UploadPath(g)'
    <3>1. CASE g = h
      BY <1>4, <1>12, <2>3, <3>1 DEF path
    <3>2. CASE g # h
      <4>1. Writing(g) /\ conn'[g].file = conn[g].file /\ UploadPath(g)' = UploadPath(g)
        BY <1>5, <1>6, <2>6, <3>2
      <4>2. UploadPath(g) # path
        BY <1>8, <1>9, <3>2, <4>1
      <4> QED BY <1>7, <1>12, <2>4, <2>6, <4>1, <4>2 DEF FilesApart, exists
    <3> QED BY <3>1, <3>2
  <2>7. \A f, g \in Handler :
          Writing(f)' /\ Writing(g)' /\ conn'[f].file = conn'[g].file => f = g
    BY <1>6, <1>12, <2>4 DEF FilesApart
  <2>8. FilesApart'
    BY <2>5, <2>6, <2>7 DEF FilesApart
  <2> QED BY <1>10, <2>2, <2>8
<1> QED BY <1>11, <1>12, OpenUploadEffect

LEMMA EndUploads ==
  ASSUME TypeOK, IdInv, NEW h \in Handler, ReceiveEnds(h)
  PROVE  UploadsApart' /\ FilesApart'
<1> USE DEF IdInv
<1>1. UNCHANGED <<upload, files>> /\ acked' = acked \cup {conn[h].idPage}
  BY DEF ReceiveEnds, spool
<1>2. \A g \in Handler : g # h => conn'[g] = conn[g]
  BY OthersKept DEF Step
<1>3. /\ conn[h].pc = "receiving" /\ conn'[h].pc = "extracting"
      /\ conn'[h].idPage = conn[h].idPage
      /\ conn'[h].idUser = conn[h].idUser /\ conn'[h].req = conn[h].req
  BY ConnType DEF ReceiveEnds, At, Connection
<1>4. \A g \in Handler : /\ Uploading(g)' <=> Uploading(g)
                         /\ UploadPath(g)' = UploadPath(g)
                         /\ conn'[g].idPage = conn[g].idPage
                         /\ conn'[g].idUser = conn[g].idUser
                         /\ conn'[g].req = conn[g].req
  BY <1>2, <1>3 DEF Uploading, UploadPC, UploadPath, getDocPath
<1>5. /\ \A g \in Handler : g # h => /\ FileUnmade(g)' <=> FileUnmade(g)
                                     /\ Writing(g)' <=> Writing(g)
                                     /\ conn'[g].file = conn[g].file
      /\ ~FileUnmade(h)' /\ ~Writing(h)'
  BY <1>2, <1>3 DEF FileUnmade, Writing, At
<1>6. FilesApart'
  BY <1>1, <1>4, <1>5 DEF FilesApart
<1>7. \A g \in Handler : conn'[g].pc \in {"opening", "receiving"} => conn'[g].idPage \notin acked'
  <2> SUFFICES ASSUME NEW g \in Handler, conn'[g].pc \in {"opening", "receiving"}
               PROVE  conn'[g].idPage \notin acked'
    OBVIOUS
  <2>1. g # h /\ conn'[g] = conn[g]
    BY <1>2, <1>3
  <2>2. Uploading(g) /\ Uploading(h)
    BY <1>3, <2>1 DEF Uploading, UploadPC
  <2> QED BY <1>1, <2>1, <2>2 DEF UploadsApart
<1>8. UploadsApart'
  BY <1>1, <1>4, <1>5, <1>7 DEF UploadsApart, exists
<1> QED BY <1>6, <1>8

LEMMA NextUploads ==
  ASSUME TypeOK, IdInv, [Next]_vars
  PROVE  UploadsApart' /\ FilesApart'
<1> USE DEF IdInv
<1>1. ASSUME UNCHANGED <<upload, acked, files>>,
             \A g \in Handler : Continues(conn[g], conn'[g])
      PROVE  UploadsApart' /\ FilesApart'
  BY <1>1, CalmUploads
<1>2. CASE UNCHANGED vars
  BY <1>1, <1>2 DEF vars, spool, history, Continues
<1>3. ASSUME NEW h \in Handler, NEW cn \in User \cup {Nobody}, Accept(h, cn)
      PROVE  UploadsApart' /\ FilesApart'
  <2>1. UNCHANGED <<upload, acked, files>>
    BY <1>3 DEF Accept, spool, history
  <2>2. conn'[h].pc \notin UploadPC
    BY <1>3, ConnType DEF Accept, Answer, UploadPC, Connection
  <2>3. \A g \in Handler : g # h => conn'[g] = conn[g]
    BY <1>3, ConnType DEF Accept, Answer
  <2> QED BY <1>1, <2>1, <2>2, <2>3 DEF Continues, UploadPC
<1>4. CASE Crash
  <2>1. UNCHANGED <<upload, acked, files>> /\ \A g \in Handler : conn'[g].pc = "idle"
    BY <1>4 DEF Crash, spool, history, Idle
  <2> QED BY <1>1, <2>1 DEF Continues, UploadPC
<1>5. ASSUME NEW h \in Handler, Step(h) PROVE UploadsApart' /\ FilesApart'
  <2>1. CASE OpenUpload(h)
    BY <2>1, OpenUploads
  <2>2. CASE InsertDocument(h) /\ conn'[h].pc = "opening"
    BY <2>2, InsertUploads
  <2>3. CASE ReceiveEnds(h)
    BY <2>3, EndUploads
  <2>4. ASSUME ~OpenUpload(h), ~(InsertDocument(h) /\ conn'[h].pc = "opening")
        PROVE  \A g \in Handler : Continues(conn[g], conn'[g])
    <3>1. Continues(conn[h], conn'[h])
      BY <1>5, <2>4, StepContinues
    <3>2. \A g \in Handler : g # h => conn'[g] = conn[g]
      BY <1>5, OthersKept
    <3> QED BY <3>1, <3>2 DEF Continues
  <2>5. CASE RemoveFile(h)
    <3>1. ~OpenUpload(h) /\ ~InsertDocument(h)
      BY <2>5 DEF RemoveFile, OpenUpload, InsertDocument, Exec, At
    <3>2. UNCHANGED <<upload, acked>>
      BY <2>5 DEF RemoveFile, history
    <3>3. DOMAIN files' \subseteq DOMAIN files /\ \A p \in DOMAIN files' : files'[p] = files[p]
      BY <2>5 DEF RemoveFile, unlink, spool
    <3> QED BY <2>4, <3>1, <3>2, <3>3, CalmUploads
  <2>6. CASE InsertDocument(h) /\ conn'[h].pc # "opening"
    <3>1. ~OpenUpload(h)
      BY <2>6 DEF OpenUpload, InsertDocument, Exec, At
    <3>2. UNCHANGED <<acked, files>>
      BY <2>6 DEF InsertDocument, spool
    <3>3. \A g \in Handler : Continues(conn[g], conn'[g])
      BY <2>4, <2>6, <3>1
    <3>4. \A g \in Handler : Uploading(g) => upload'[conn[g].idPage] = upload[conn[g].idPage]
      <4>1. CASE UNCHANGED upload
        BY <4>1
      <4>2. CASE nextPage \in Page /\ upload' = [upload EXCEPT ![nextPage] =
                                [user |-> conn[h].idUser, size |-> conn[h].req.size]]
        <5>1. upload[nextPage].user = Nobody
          BY <4>2 DEF IdsGiven, Page
        <5> QED BY <4>2, <5>1, UploadOwner, NobodyAssumption DEF Uploading, TypeOK, HistoryOK
      <4> QED BY <2>6, <4>1, <4>2, InsertEffect
    <3> QED BY <3>2, <3>3, <3>4, CalmUploads
  <2>7. CASE Step(h) /\ UNCHANGED <<upload, acked, files>>
    BY <1>1, <2>1, <2>2, <2>4, <2>7
  <2>8. CASE \/ \E r \in Request : ReadRequest(h, r)
             \/ BadRequest(h) \/ PeerStalls(h) \/ Reply(h) \/ Hangup(h) \/ Search(h)
             \/ ListCompanies(h) \/ NewCompany(h) \/ RemoveCompany(h) \/ RemoveRow(h)
             \/ OpenDownload(h) \/ SendChunk(h) \/ ReceiveChunk(h) \/ ReceiveStops(h)
             \/ Extract(h) \/ Index(h)
    BY <1>5, <2>7, <2>8 DEF ReadRequest, BadRequest, PeerStalls, Reply, Hangup, Search,
       ListCompanies, NewCompany, RemoveCompany, RemoveRow, OpenDownload, SendChunk,
       ReceiveChunk, ReceiveStops, Extract, Index, spool, history
  <2> QED BY <1>5, <2>1, <2>2, <2>3, <2>5, <2>6, <2>8 DEF Step
<1>6. CASE Restart
  BY <1>1, <1>6 DEF Restart, spool, history, Continues
<1> QED BY <1>2, <1>3, <1>4, <1>5, <1>6 DEF Next

\* The inductive invariant of the ids, the uploads under way and their files.
THEOREM IdInvariance == Spec => []IdInv
<1>1. Init => TypeOK /\ IdInv
  BY InitType, InitIds
<1>2. TypeOK /\ IdInv /\ [Next]_vars => TypeOK' /\ IdInv'
  BY NextType, NextIds, NextUploads DEF IdInv
<1> QED BY <1>1, <1>2, PTL DEF Spec

-----------------------------------------------------------------------------
\* What the steps that change a table or the spool do, as the later proofs use it.

LEMMA RemoveRowEffect ==
  ASSUME TypeOK, NEW h \in Handler, RemoveRow(h)
  PROVE  /\ conn[h].idUser \in User /\ conn[h].req.op = "REMOVE_DOCUMENT"
         /\ conn[h].req.idPage \in Page
         /\ UNCHANGED <<company, nextPage, files, disk, upload, acked, removed>>
         /\ tried' = tried \cup {<<conn[h].idUser, conn[h].req.idPage>>}
         /\ conn'[h].idUser = conn[h].idUser /\ conn'[h].req = conn[h].req
         /\ conn'[h].got = conn[h].got /\ conn'[h].found = conn[h].found
         /\ \/ /\ document' =
                    {d \in document : ~(d.id = conn[h].req.idPage /\ d.user = conn[h].idUser)}
               /\ \/ /\ conn'[h].pc = "unlinking"
                     /\ conn'[h].late = (conn[h].req.idPage < nextPage)
                  \/ conn'[h].pc = "reply" /\ conn'[h].answer = "INTERNAL_ERROR"
            \/ /\ document' = document
               /\ conn'[h].pc = "reply" /\ conn'[h].answer = "INTERNAL_ERROR"
<1>1. /\ conn[h].idUser \in User /\ conn[h].req.op = "REMOVE_DOCUMENT"
      /\ conn[h].req.idPage \in Page
  BY ExecType, RequestFields DEF RemoveRow
<1>2. conn \in [Handler -> Connection] /\ conn[h] \in Connection
  BY ConnType
<1>3. UNCHANGED <<company, nextPage, files, disk, upload, acked, removed>>
  BY DEF RemoveRow, Statement, removeDocument, database, spool
<1>4. tried' = tried \cup {<<conn[h].idUser, conn[h].req.idPage>>}
  BY DEF RemoveRow
<1>5. ASSUME Answer(h, "INTERNAL_ERROR")
      PROVE  /\ conn'[h].pc = "reply" /\ conn'[h].answer = "INTERNAL_ERROR"
             /\ conn'[h].idUser = conn[h].idUser /\ conn'[h].req = conn[h].req
             /\ conn'[h].got = conn[h].got /\ conn'[h].found = conn[h].found
  BY <1>2, <1>5 DEF Answer, Connection
<1>6. ASSUME NEW late, conn' = [conn EXCEPT ![h].pc = "unlinking", ![h].late = late]
      PROVE  /\ conn'[h].pc = "unlinking" /\ conn'[h].late = late
             /\ conn'[h].idUser = conn[h].idUser /\ conn'[h].req = conn[h].req
             /\ conn'[h].got = conn[h].got /\ conn'[h].found = conn[h].found
  BY <1>2, <1>6 DEF Connection
<1>7. CASE UNCHANGED database /\ Answer(h, "INTERNAL_ERROR")
  BY <1>1, <1>3, <1>4, <1>5, <1>7 DEF database
<1>8. CASE /\ removeDocument(conn[h].req.idPage, conn[h].idUser)
           /\ \/ conn' = [conn EXCEPT ![h].pc = "unlinking",
                                      ![h].late = conn[h].req.idPage < nextPage]
              \/ Answer(h, "INTERNAL_ERROR")
  BY <1>1, <1>3, <1>4, <1>5, <1>6, <1>8 DEF removeDocument
<1> QED BY <1>7, <1>8 DEF RemoveRow, Statement

LEMMA RemoveFileEffect ==
  ASSUME TypeOK, NEW h \in Handler, RemoveFile(h)
  PROVE  LET path == getDocPath(conn[h].idUser, conn[h].req.idPage)
         IN /\ conn[h].pc = "unlinking"
            /\ UNCHANGED <<company, document, nextPage, disk, upload, acked, tried, removed>>
            /\ conn'[h].idUser = conn[h].idUser /\ conn'[h].req = conn[h].req
            /\ conn'[h].got = conn[h].got /\ conn'[h].found = conn[h].found
            /\ conn'[h].late = conn[h].late /\ conn'[h].pc = "reply"
            /\ \/ /\ exists(path)
                  /\ files' = [p \in DOMAIN files \ {path} |-> files[p]]
                  /\ conn'[h].answer = "OK"
               \/ UNCHANGED files /\ conn'[h].answer = "INTERNAL_ERROR"
<1>1. conn \in [Handler -> Connection] /\ conn[h] \in Connection
  BY ConnType
<1>2. ASSUME NEW response, Answer(h, response)
      PROVE  /\ conn'[h].pc = "reply" /\ conn'[h].answer = response
             /\ conn'[h].idUser = conn[h].idUser /\ conn'[h].req = conn[h].req
             /\ conn'[h].got = conn[h].got /\ conn'[h].found = conn[h].found
             /\ conn'[h].late = conn[h].late
  BY <1>1, <1>2 DEF Answer, Connection
<1>3. /\ conn[h].pc = "unlinking"
      /\ UNCHANGED <<company, document, nextPage, disk, upload, acked, tried, removed>>
  BY DEF RemoveFile, At, unlink, database, spool, history
<1> QED BY <1>2, <1>3 DEF RemoveFile, unlink, spool

LEMMA ReceiveChunkEffect ==
  ASSUME TypeOK, NEW h \in Handler, ReceiveChunk(h)
  PROVE  LET f == conn[h].file
             chunk == <<conn[h].idPage, conn[h].req.size - conn[h].left + 1>>
         IN /\ conn[h].pc = "receiving" /\ conn[h].left \in Nat /\ conn[h].left > 0
            /\ conn[h].req.size \in Nat /\ conn[h].left <= conn[h].req.size
            /\ UNCHANGED <<company, document, nextPage, files, upload, acked, tried, removed>>
            /\ conn'[h].idUser = conn[h].idUser /\ conn'[h].req = conn[h].req
            /\ conn'[h].idPage = conn[h].idPage /\ conn'[h].file = f
            /\ conn'[h].got = conn[h].got /\ conn'[h].found = conn[h].found
            /\ \/ /\ f \in 1..Len(disk) /\ f # NoFile
                  /\ Len(disk') = Len(disk)
                  /\ disk'[f] = Append(disk[f], chunk)
                  /\ \A i \in 1..Len(disk) : i # f => disk'[i] = disk[i]
                  /\ conn'[h].pc = "receiving" /\ conn'[h].left = conn[h].left - 1
               \/ /\ UNCHANGED disk /\ Fails("short") /\ f # NoFile
                  /\ conn'[h].pc = "receiving" /\ conn'[h].left = conn[h].left - 1
               \/ /\ UNCHANGED disk
                  /\ conn'[h].pc = "reply" /\ conn'[h].answer = "INTERNAL_ERROR"
<1> DEFINE f == conn[h].file
           chunk == <<conn[h].idPage, conn[h].req.size - conn[h].left + 1>>
<1>1. conn \in [Handler -> Connection] /\ conn[h] \in Connection
  BY ConnType
<1>2. conn[h].pc = "receiving" /\ conn[h].left > 0
  BY DEF ReceiveChunk, At
<1>3. conn[h].req \in Request /\ conn[h].req.op = "UPLOAD" /\ conn[h].left <= conn[h].req.size
  BY <1>2, ConnType DEF Consistent
<1>4. conn[h].left \in Nat /\ conn[h].req.size \in Nat
  BY <1>1, <1>3, RequestFields DEF Connection
<1>5. UNCHANGED <<company, document, nextPage, files, upload, acked, tried, removed>>
  BY DEF ReceiveChunk, database, history
<1>6. ASSUME conn' = [conn EXCEPT ![h].left = @ - 1]
      PROVE  /\ conn'[h].idUser = conn[h].idUser /\ conn'[h].req = conn[h].req
             /\ conn'[h].idPage = conn[h].idPage /\ conn'[h].file = f
             /\ conn'[h].got = conn[h].got /\ conn'[h].found = conn[h].found
             /\ conn'[h].pc = "receiving" /\ conn'[h].left = conn[h].left - 1
  BY <1>1, <1>2, <1>6 DEF Connection
<1>7. ASSUME Answer(h, "INTERNAL_ERROR")
      PROVE  /\ conn'[h].idUser = conn[h].idUser /\ conn'[h].req = conn[h].req
             /\ conn'[h].idPage = conn[h].idPage /\ conn'[h].file = f
             /\ conn'[h].got = conn[h].got /\ conn'[h].found = conn[h].found
             /\ conn'[h].pc = "reply" /\ conn'[h].answer = "INTERNAL_ERROR"
  BY <1>1, <1>7 DEF Answer, Connection
<1>8. ASSUME f # NoFile, disk' = [disk EXCEPT ![f] = Append(@, chunk)]
      PROVE  /\ f \in 1..Len(disk)
             /\ Len(disk') = Len(disk)
             /\ disk'[f] = Append(disk[f], chunk)
             /\ \A i \in 1..Len(disk) : i # f => disk'[i] = disk[i]
  <2>1. disk \in Seq(Seq(Chunk)) /\ Len(disk) \in Nat
    BY LenProperties DEF TypeOK, SpoolOK
  <2>2. f \in 1..Len(disk)
    BY <1>1, <1>8, <2>1, ConnType DEF Connection, NoFile
  <2>3. conn[h].req.size - conn[h].left + 1 \in Nat \ {0}
    BY <1>3, <1>4
  <2>4. chunk \in Chunk
    BY <1>2, <2>3, UploadType DEF Chunk
  <2> DEFINE new == Append(disk[f], chunk)
  <2> HIDE DEF chunk, f
  <2>5. disk[f] \in Seq(Chunk)
    BY <2>1, <2>2, LenProperties
  <2>6. new \in Seq(Chunk)
    BY <2>4, <2>5, AppendProperties
  <2>7. disk' = [disk EXCEPT ![f] = new]
    BY <1>8
  <2> HIDE DEF new
  <2>8. Len(disk') = Len(disk) /\ disk'[f] = new
        /\ \A i \in 1..Len(disk) : i # f => disk'[i] = disk[i]
    BY <2>1, <2>2, <2>6, <2>7, ExceptSeq
  <2> QED BY <2>2, <2>8 DEF new
<1> HIDE DEF f, chunk
<1>9. \/ f # NoFile /\ disk' = [disk EXCEPT ![f] = Append(@, chunk)]
         /\ conn' = [conn EXCEPT ![h].left = @ - 1]
      \/ f # NoFile /\ Fails("short") /\ UNCHANGED disk /\ conn' = [conn EXCEPT ![h].left = @ - 1]
      \/ Answer(h, "INTERNAL_ERROR") /\ UNCHANGED disk
  BY DEF ReceiveChunk, f, chunk
<1> QED BY <1>2, <1>3, <1>4, <1>5, <1>6, <1>7, <1>8, <1>9 DEF f, chunk

LEMMA IndexEffect ==
  ASSUME TypeOK, NEW h \in Handler, Index(h)
  PROVE  /\ conn[h].pc = "indexing" /\ conn'[h] = [conn[h] EXCEPT !.pc = "closed"]
         /\ UNCHANGED <<company, nextPage, files, disk, upload, acked, tried, removed>>
         /\ \/ document' = document
            \/ document' = {IF d.id = conn[h].idPage THEN [d EXCEPT !.content = conn[h].got] ELSE d
                              : d \in document}
BY ConnType DEF Index, Goto, At, setDocContent, database, spool, history

-----------------------------------------------------------------------------
\* Rows, files and companies of a user none of whose connections takes the step.

LEMMA SameFiles ==
  ASSUME NEW u, DOMAIN files' \subseteq User \X Page, DOMAIN files \subseteq User \X Page,
         \A p \in User \X Page : p[1] = u =>
           /\ p \in DOMAIN files' <=> p \in DOMAIN files
           /\ p \in DOMAIN files => disk'[files'[p]] = disk[files[p]]
  PROVE  UNCHANGED FilesOf(u)
<1> DEFINE P == {p \in DOMAIN files : p[1] = u}
<1>1. P' = P
  OBVIOUS
<1>2. \A p \in P : disk'[files'[p]] = disk[files[p]]
  OBVIOUS
<1>3. {<<p, disk'[files'[p]]>> : p \in P'} = {<<p, disk[files[p]]>> : p \in P}
  BY <1>1, <1>2
<1> QED BY <1>3 DEF FilesOf

LEMMA NextOthers ==
  ASSUME TypeOK, TypeOK', IdInv, [Next]_vars, NEW u \in User,
         \A h \in Handler : conn[h].idUser = u => conn'[h] = conn[h]
  PROVE  UNCHANGED <<RowsOf(u), FilesOf(u), CompaniesOf(u)>>
<1>0. /\ DOMAIN files \subseteq User \X Page /\ DOMAIN files' \subseteq User \X Page
      /\ \A p \in DOMAIN files : files[p] \in 1..Len(disk)
      /\ disk \in Seq(Seq(Chunk)) /\ Len(disk) \in Nat
  BY LenProperties DEF TypeOK, SpoolOK
<1>1. ASSUME UNCHANGED <<company, document>>
      PROVE  UNCHANGED <<RowsOf(u), CompaniesOf(u)>>
  BY <1>1 DEF RowsOf, CompaniesOf
<1>2. ASSUME UNCHANGED <<files, disk>> PROVE UNCHANGED FilesOf(u)
  BY <1>2 DEF FilesOf
<1>3. CASE UNCHANGED vars
  BY <1>1, <1>2, <1>3 DEF vars, database, spool
<1>4. CASE \E h \in Handler, cn \in User \cup {Nobody} : Accept(h, cn)
  BY <1>1, <1>2, <1>4 DEF Accept, database, spool
<1>5. CASE Crash \/ Restart
  BY <1>1, <1>2, <1>5 DEF Crash, Restart, database, spool
<1>6. ASSUME NEW h \in Handler, Step(h)
      PROVE  UNCHANGED <<RowsOf(u), FilesOf(u), CompaniesOf(u)>>
  <2>0. conn[h].idUser = u => conn'[h].pc = conn[h].pc /\ conn'[h].left = conn[h].left
    OBVIOUS
  <2>1. CASE \/ \E r \in Request : ReadRequest(h, r)
             \/ BadRequest(h) \/ PeerStalls(h) \/ Reply(h) \/ Hangup(h) \/ Search(h)
             \/ OpenDownload(h) \/ SendChunk(h) \/ ReceiveStops(h) \/ ReceiveEnds(h)
             \/ Extract(h)
    BY <1>1, <1>2, <2>1 DEF ReadRequest, BadRequest, PeerStalls, Reply, Hangup, Search,
       OpenDownload, SendChunk, ReceiveStops, ReceiveEnds, Extract, database, spool
  <2>2. CASE ListCompanies(h)
    BY <1>1, <1>2, <2>2 DEF ListCompanies, Statement, database, spool
  <2>3. CASE NewCompany(h) \/ RemoveCompany(h)
    <3>1. UNCHANGED FilesOf(u)
      BY <1>2, <2>3 DEF NewCompany, RemoveCompany, spool
    <3>2. conn[h].pc = "exec" /\ conn'[h].pc = "reply"
      BY <2>3, ConnType DEF NewCompany, RemoveCompany, Statement, Exec, At, Answer, Connection
    <3>3. conn[h].idUser # u
      BY <2>0, <3>2
    <3>4. CASE UNCHANGED database
      BY <1>1, <3>1, <3>4 DEF database
    <3>5. CASE newCompany(conn[h].req.name, conn[h].idUser)
      BY <3>1, <3>3, <3>5 DEF newCompany, RowsOf, CompaniesOf
    <3>6. CASE removeCompany(conn[h].req.name, conn[h].idUser)
      BY <3>1, <3>3, <3>6 DEF removeCompany, RowsOf, CompaniesOf
    <3> QED BY <2>3, <3>4, <3>5, <3>6 DEF NewCompany, RemoveCompany, Statement
  <2>4. CASE RemoveRow(h)
    <3>1. conn[h].pc = "exec" /\ conn'[h].pc # "exec"
      BY <2>4, RemoveRowEffect DEF RemoveRow, Exec, At
    <3>2. conn[h].idUser # u
      BY <2>0, <3>1
    <3>3. UNCHANGED <<company, files, disk>>
      BY <2>4, RemoveRowEffect
    <3>4. \/ document' = document
          \/ document' =
               {d \in document : ~(d.id = conn[h].req.idPage /\ d.user = conn[h].idUser)}
      BY <2>4, RemoveRowEffect
    <3> QED BY <1>2, <3>2, <3>3, <3>4 DEF RowsOf, CompaniesOf
  <2>5. CASE RemoveFile(h)
    <3> DEFINE path == getDocPath(conn[h].idUser, conn[h].req.idPage)
    <3>1. /\ conn[h].pc # conn'[h].pc /\ UNCHANGED <<company, document, disk>>
          /\ \/ files' = [p \in DOMAIN files \ {path} |-> files[p]]
             \/ UNCHANGED files
      BY <2>5, RemoveFileEffect
    <3>2. path[1] # u
      BY <2>0, <3>1 DEF getDocPath
    <3> HIDE DEF path
    <3>3. UNCHANGED FilesOf(u)
      BY <1>0, <3>1, <3>2, SameFiles
    <3> QED BY <1>1, <3>1, <3>3
  <2>6. CASE InsertDocument(h)
    <3>1. UNCHANGED <<company, files, disk>>
      BY <2>6 DEF InsertDocument, Statement, newDocument, database, spool
    <3>2. conn[h].pc = "exec" /\ conn'[h].pc # "exec"
      BY <2>6, InsertConn
    <3>3. conn[h].idUser # u
      BY <2>0, <3>2
    <3>4. \/ document' = document
          \/ \E k \in company : document' = document \cup
               {[id |-> nextPage, user |-> conn[h].idUser, company |-> k.id, content |-> NULL]}
      BY <2>6, InsertEffect
    <3> QED BY <1>2, <3>1, <3>3, <3>4 DEF RowsOf, CompaniesOf
  <2>7. CASE OpenUpload(h)
    <3> DEFINE path == UploadPath(h)
    <3>1. UNCHANGED <<company, document>>
      BY <2>7 DEF OpenUpload, database
    <3>2. /\ conn[h].pc # conn'[h].pc
          /\ \/ UNCHANGED <<files, disk>>
             \/ /\ disk' = Append(disk, << >>)
                /\ files' = [p \in DOMAIN files \cup {path} |->
                              IF p = path THEN Len(disk) + 1 ELSE files[p]]
      BY <2>7, OpenUploadEffect DEF IdInv
    <3>3. path[1] # u
      BY <2>0, <3>2 DEF UploadPath, getDocPath
    <3> HIDE DEF path
    <3>4. ASSUME disk' = Append(disk, << >>)
          PROVE  \A i \in 1..Len(disk) : disk'[i] = disk[i]
      <4>1. << >> \in Seq(Chunk)
        OBVIOUS
      <4> QED BY <1>0, <3>4, <4>1, AppendProperties
    <3>5. UNCHANGED FilesOf(u)
      BY <1>0, <1>2, <3>2, <3>3, <3>4, SameFiles
    <3> QED BY <1>1, <3>1, <3>5
  <2>8. CASE ReceiveChunk(h)
    <3> DEFINE f == conn[h].file
    <3>1. UNCHANGED <<company, document, files>>
      BY <2>8, ReceiveChunkEffect
    <3>2. CASE UNCHANGED disk
      BY <1>1, <1>2, <3>1, <3>2
    <3>3. CASE /\ f \in 1..Len(disk) /\ f # NoFile
               /\ \A i \in 1..Len(disk) : i # f => disk'[i] = disk[i]
               /\ conn[h].left \in Nat /\ conn[h].left > 0
               /\ conn'[h].left = conn[h].left - 1
      <4>1. conn[h].idUser # u
        BY <2>0, <3>3
      <4>2. Writing(h)
        BY <2>8, <3>3 DEF ReceiveChunk, Writing
      <4>3. \A p \in DOMAIN files : files[p] = f => p[1] # u
        BY <4>1, <4>2 DEF IdInv, FilesApart, UploadPath, getDocPath
      <4>4. UNCHANGED FilesOf(u)
        BY <1>0, <3>1, <3>3, <4>3, SameFiles
      <4> QED BY <1>1, <3>1, <4>4
    <3> QED BY <2>8, <3>2, <3>3, ReceiveChunkEffect
  <2>9. CASE Index(h)
    <3>1. UNCHANGED <<company, files, disk>> /\ conn[h].pc = "indexing" /\ conn'[h].pc = "closed"
      BY <2>9, ConnType, IndexEffect DEF Connection
    <3>2. conn[h].idUser # u
      BY <2>0, <3>1
    <3>3. upload[conn[h].idPage].user # u
      BY <3>1, <3>2, UploadOwner DEF IdInv, UploadPC
    <3>4. \A d \in document : d.id = conn[h].idPage => d.user # u
      BY <3>3 DEF IdInv, IdsGiven
    <3> DEFINE new(d) == IF d.id = conn[h].idPage THEN [d EXCEPT !.content = conn[h].got] ELSE d
    <3>5. document' = document \/ document' = {new(d) : d \in document}
      BY <2>9, IndexEffect
    <3>6. \A d \in document : new(d).user = d.user
      BY DEF TypeOK, TablesOK
    <3>7. \A d \in document : d.user = u => new(d) = d
      BY <3>4
    <3> HIDE DEF new
    <3> QED BY <1>2, <3>1, <3>5, <3>6, <3>7 DEF RowsOf, CompaniesOf
  <2> QED
    BY <1>6, <2>1, <2>2, <2>3, <2>4, <2>5, <2>6, <2>7, <2>8, <2>9 DEF Step
<1> QED BY <1>3, <1>4, <1>5, <1>6 DEF Next

\* What belongs to a user is changed by its own connections only, whatever the
\* others do and whichever faults there are (database.cpp:130-320, proxy.cpp:178-418).
THEOREM OthersUntouched == Spec => OnlyOwnerChanges
<1>1. TypeOK /\ TypeOK' /\ IdInv /\ [Next]_vars =>
        [\A u \in User :
           (\A h \in Handler : conn[h].idUser = u => conn'[h] = conn[h])
             => UNCHANGED <<RowsOf(u), FilesOf(u), CompaniesOf(u)>>]_vars
  BY NextOthers
<1> QED BY <1>1, TypeCorrect, IdInvariance, PTL DEF Spec, OnlyOwnerChanges
=============================================================================
