------------------------- MODULE ArchiveSafetyProofs ------------------------
(***************************************************************************)
(* The safety properties of Archive, each from an inductive invariant of   *)
(* its own on top of TypeOK and IdInv: RemovalInv (what is removed is gone *)
(* and nobody can bring it back), Written (what the files hold), Delivered *)
(* (what searches and downloads answer) and IndexInv (what a search looks  *)
(* at).  Each lemma Next... shows that every step keeps one of them.       *)
(*                                                                         *)
(* Written and Delivered suppose that write() stores all it is given, or   *)
(* reports an error: "short" \notin Faults.  Without that the properties   *)
(* are false (the run ArchiveShortWrite).                                  *)
(***************************************************************************)
EXTENDS ArchiveProofs

\* The id was given to an upload.
Known(id) == upload[id].user # Nobody

NoRow(path) == \A d \in document : ~(d.id = path[2] /\ d.user = path[1])

\* Nothing of path is left, and nobody is about to create it.
Gone(path) ==
  /\ Known(path[2]) /\ ~exists(path) /\ NoRow(path)
  /\ \A h \in Handler : At(h, "opening") => UploadPath(h) # path

\* The path that the request of h names.
RequestPath(h) == getDocPath(conn[h].idUser, conn[h].req.idPage)

\* A document that was uploaded has its row, unless somebody tried to remove it.
RowOrTried ==
  \A id \in Page : Known(id) =>
    \/ getDocPath(upload[id].user, id) \in tried
    \/ \E d \in document : d.id = id

\* DELETE has been executed; if it came after the INSERT, the row is gone.
Unlinking ==
  \A h \in Handler : At(h, "unlinking") =>
    /\ RequestPath(h) \in tried
    /\ conn[h].late => Known(conn[h].req.idPage) /\ NoRow(RequestPath(h))

\* h is about to send the OK of a removal whose DELETE came after the INSERT.
ReportsRemoval(h) ==
  /\ At(h, "reply") /\ conn[h].req.op = "REMOVE_DOCUMENT"
  /\ conn[h].answer = "OK" /\ conn[h].late

\* What was reported removed, or is about to be, is gone.
RemovedIsGone ==
  /\ \A h \in Handler : ReportsRemoval(h) => RequestPath(h) \in tried /\ Gone(RequestPath(h))
  /\ \A path \in removed : path \in tried /\ Gone(path)

RemovalInv == RowOrTried /\ Unlinking /\ RemovedIsGone

\* The ids that were given are those below the counter.
LEMMA KnownBelow ==
  ASSUME TypeOK, IdInv, NEW id \in Page
  PROVE  Known(id) <=> id < nextPage
<1>1. nextPage \in Nat /\ id \in Nat
  BY BoundsAssumption DEF TypeOK, TablesOK, Page
<1>2. upload[id].user = Nobody <=> nextPage <= id
  BY DEF IdInv, IdsGiven
<1> QED BY <1>1, <1>2 DEF Known

LEMMA InitRemoval == Init => RemovalInv
<1> SUFFICES ASSUME Init PROVE RemovalInv
  OBVIOUS
<1>1. \A h \in Handler : conn[h].pc = "idle"
  BY DEF Init, Idle
<1> QED BY <1>1 DEF Init, RemovalInv, RowOrTried, Known, Unlinking, RemovedIsGone,
           ReportsRemoval, At

\* Rows are only added for a new id, and only a removal takes one away.
LEMMA RowsKept ==
  ASSUME TypeOK, IdInv, NEW h \in Handler, Step(h), ~InsertDocument(h)
  PROVE  /\ UNCHANGED <<upload, nextPage>>
         /\ \A e \in document' : \E d \in document : d.id = e.id /\ d.user = e.user
         /\ ~RemoveRow(h) =>
              \A d \in document : \E e \in document' : d.id = e.id /\ d.user = e.user
<1>1. CASE UNCHANGED <<upload, nextPage, document>>
  BY <1>1
<1>2. CASE \/ \E r \in Request : ReadRequest(h, r)
           \/ BadRequest(h) \/ PeerStalls(h) \/ Hangup(h) \/ Search(h) \/ OpenDownload(h)
           \/ SendChunk(h) \/ ReceiveStops(h) \/ Extract(h)
  BY <1>1, <1>2 DEF ReadRequest, BadRequest, PeerStalls, Hangup, Search, OpenDownload, SendChunk,
     ReceiveStops, Extract, database, history
<1>3. CASE Reply(h) \/ ReceiveChunk(h) \/ RemoveFile(h) \/ OpenUpload(h) \/ ReceiveEnds(h)
  BY <1>1, <1>3 DEF Reply, ReceiveChunk, RemoveFile, OpenUpload, ReceiveEnds, database, history
<1>4. CASE ListCompanies(h) \/ NewCompany(h) \/ RemoveCompany(h)
  BY <1>1, <1>4 DEF ListCompanies, NewCompany, RemoveCompany, Statement, newCompany,
     removeCompany, database, history
<1>5. CASE RemoveRow(h)
  BY <1>5, RemoveRowEffect
<1>6. CASE Index(h)
  <2> DEFINE new(d) == IF d.id = conn[h].idPage THEN [d EXCEPT !.content = conn[h].got] ELSE d
  <2>1. UNCHANGED <<upload, nextPage>>
        /\ (document' = document \/ document' = {new(d) : d \in document})
    BY <1>6, IndexEffect
  <2>2. \A d \in document : new(d).id = d.id /\ new(d).user = d.user
    BY DEF TypeOK, TablesOK
  <2> HIDE DEF new
  <2> QED BY <2>1, <2>2
<1> QED BY <1>2, <1>3, <1>4, <1>5, <1>6 DEF Step

\* Files only appear under the path of an upload that opens its file.
LEMMA FilesKept ==
  ASSUME TypeOK, IdInv, NEW h \in Handler, Step(h)
  PROVE  /\ ~OpenUpload(h) => DOMAIN files' \subseteq DOMAIN files
         /\ OpenUpload(h) => DOMAIN files' \subseteq DOMAIN files \cup {UploadPath(h)}
         /\ ~RemoveFile(h) => DOMAIN files \subseteq DOMAIN files'
         /\ \A p \in DOMAIN files \cap DOMAIN files' : files'[p] = files[p]
<1>1. CASE UNCHANGED files
  BY <1>1
<1>2. CASE \/ \E r \in Request : ReadRequest(h, r)
           \/ BadRequest(h) \/ PeerStalls(h) \/ Reply(h) \/ Hangup(h) \/ Search(h)
           \/ ListCompanies(h) \/ NewCompany(h) \/ RemoveCompany(h) \/ RemoveRow(h) \/ OpenDownload(h)
           \/ SendChunk(h) \/ InsertDocument(h)
  BY <1>1, <1>2 DEF ReadRequest, BadRequest, PeerStalls, Reply, Hangup, Search, ListCompanies,
     NewCompany, RemoveCompany, RemoveRow, OpenDownload, SendChunk, InsertDocument, spool
<1>3. CASE ReceiveChunk(h) \/ ReceiveStops(h) \/ ReceiveEnds(h) \/ Extract(h) \/ Index(h)
  BY <1>1, <1>3 DEF ReceiveChunk, ReceiveStops, ReceiveEnds, Extract, Index, spool
<1>4. CASE RemoveFile(h)
  <2>1. ~OpenUpload(h)
    BY <1>4 DEF RemoveFile, OpenUpload, At
  <2>2. CASE files' = [p \in DOMAIN files \ {RequestPath(h)} |-> files[p]]
    BY <1>4, <2>1, <2>2
  <2> QED BY <1>1, <1>4, <2>2, RemoveFileEffect DEF RequestPath
<1>5. CASE OpenUpload(h)
  <2>1. ~RemoveFile(h)
    BY <1>5 DEF RemoveFile, OpenUpload, At
  <2>2. CASE /\ files' = [p \in DOMAIN files \cup {UploadPath(h)} |->
                           IF p = UploadPath(h) THEN Len(disk) + 1 ELSE files[p]]
    <3>1. ~exists(UploadPath(h))
      BY <1>5 DEF OpenUpload, IdInv, UploadsApart, FileUnmade
    <3> QED BY <1>5, <2>1, <2>2, <3>1 DEF exists
  <2> QED BY <1>1, <1>5, <2>2, OpenUploadEffect DEF IdInv
<1> QED BY <1>2, <1>3, <1>4, <1>5 DEF Step

\* INSERT gives the next id, which nobody has had, a row, or does nothing.
LEMMA InsertRows ==
  ASSUME TypeOK, IdInv, NEW h \in Handler, InsertDocument(h)
  PROVE  \/ UNCHANGED <<document, nextPage, upload>> /\ conn'[h].pc = "reply"
         \/ /\ nextPage \in Page /\ nextPage' = nextPage + 1 /\ ~Known(nextPage)
            /\ document \subseteq document'
            /\ \A e \in document' : \/ e \in document
                                    \/ /\ e.id = nextPage /\ e.user = conn[h].idUser
                                       /\ e.content = NULL
            /\ \E e \in document' : e.id = nextPage /\ e.user = conn[h].idUser
            /\ upload'[nextPage] = [user |-> conn[h].idUser, size |-> conn[h].req.size]
            /\ \A id \in Page : id # nextPage => upload'[id] = upload[id]
            /\ conn[h].idUser \in User /\ conn[h].req.size \in Sizes
<1>1. ASSUME nextPage \in Page, NEW k \in company,
             document' = document \cup
               {[id |-> nextPage, user |-> conn[h].idUser, company |-> k.id, content |-> NULL]},
             upload' = [upload EXCEPT ![nextPage] =
                          [user |-> conn[h].idUser, size |-> conn[h].req.size]]
      PROVE  /\ ~Known(nextPage)
             /\ document \subseteq document'
             /\ \A e \in document' : \/ e \in document
                                     \/ /\ e.id = nextPage /\ e.user = conn[h].idUser
                                        /\ e.content = NULL
             /\ \E e \in document' : e.id = nextPage /\ e.user = conn[h].idUser
             /\ upload'[nextPage] = [user |-> conn[h].idUser, size |-> conn[h].req.size]
             /\ \A id \in Page : id # nextPage => upload'[id] = upload[id]
  <2> DEFINE row == [id |-> nextPage, user |-> conn[h].idUser, company |-> k.id, content |-> NULL]
  <2>1. row.id = nextPage /\ row.user = conn[h].idUser /\ row.content = NULL
    OBVIOUS
  <2>2. document' = document \cup {row}
    BY <1>1
  <2> HIDE DEF row
  <2>3. upload \in [Page -> [user : User \cup {Nobody}, size : Nat]]
    BY DEF TypeOK, HistoryOK
  <2>4. ~Known(nextPage)
    BY <1>1 DEF IdInv, IdsGiven, Known, Page
  <2> QED BY <1>1, <2>1, <2>2, <2>3, <2>4
<1> QED BY <1>1, InsertEffect

\* What was uploaded under an id stays what it is.
LEMMA UploadKept ==
  ASSUME TypeOK, IdInv, NEW h \in Handler, Step(h)
  PROVE  \A id \in Page : Known(id) => upload'[id] = upload[id] /\ Known(id)'
<1>1. CASE InsertDocument(h)
  BY <1>1, InsertRows DEF Known
<1>2. CASE ~InsertDocument(h)
  BY <1>2, RowsKept DEF Known
<1> QED BY <1>1, <1>2

\* Only a DELETE adds to what somebody tried to remove.
LEMMA TriedKept ==
  ASSUME TypeOK, NEW h \in Handler, Step(h)
  PROVE  tried \subseteq tried' /\ (~RemoveRow(h) => tried' = tried)
<1>1. CASE \/ \E r \in Request : ReadRequest(h, r)
           \/ BadRequest(h) \/ PeerStalls(h) \/ Reply(h) \/ Hangup(h) \/ Search(h)
           \/ ListCompanies(h) \/ NewCompany(h) \/ RemoveCompany(h) \/ RemoveFile(h) \/ OpenDownload(h)
           \/ SendChunk(h) \/ InsertDocument(h)
  BY <1>1 DEF ReadRequest, BadRequest, PeerStalls, Reply, Hangup, Search, ListCompanies,
     NewCompany, RemoveCompany, RemoveFile, OpenDownload, SendChunk, InsertDocument, history
<1>2. CASE \/ OpenUpload(h) \/ ReceiveChunk(h) \/ ReceiveStops(h) \/ ReceiveEnds(h)
           \/ Extract(h) \/ Index(h)
  BY <1>2 DEF OpenUpload, ReceiveChunk, ReceiveStops, ReceiveEnds, Extract, Index, history
<1>3. CASE RemoveRow(h)
  BY <1>3 DEF RemoveRow
<1> QED BY <1>1, <1>2, <1>3 DEF Step

\* Which handler is about to create a file, after a step of h.
LEMMA OpeningAfter ==
  ASSUME TypeOK, NEW h \in Handler, Step(h), NEW g \in Handler, conn'[g].pc = "opening"
  PROVE  \/ conn[g].pc = "opening" /\ UploadPath(g)' = UploadPath(g)
         \/ /\ g = h /\ InsertDocument(h) /\ UploadPath(g)' = <<conn[h].idUser, nextPage>>
<1>1. CASE g # h
  BY <1>1, OthersKept DEF UploadPath
<1>2. CASE g = h /\ InsertDocument(h)
  BY <1>2, InsertConn DEF UploadPath, getDocPath
<1>3. CASE g = h /\ OpenUpload(h)
  <2>1. conn'[h].pc = "receiving"
    BY <1>3, ConnType DEF OpenUpload, Connection
  <2> QED BY <1>3, <2>1
<1>4. CASE g = h /\ ~InsertDocument(h) /\ ~OpenUpload(h)
  BY <1>4, StepContinues DEF Continues, UploadPC, UploadPath, getDocPath
<1> QED BY <1>1, <1>2, <1>3, <1>4

\* What is gone stays gone.
LEMMA GoneStays ==
  ASSUME TypeOK, IdInv, NEW h \in Handler, Step(h), NEW path \in User \X Page, Gone(path)
  PROVE  Gone(path)'
<1>1. Known(path[2]) /\ upload'[path[2]] = upload[path[2]]
  BY UploadKept DEF Gone
<1>2. Known(path[2])'
  BY <1>1 DEF Known
<1>3. InsertDocument(h) => path[2] # nextPage \/ UNCHANGED document
  BY <1>1, InsertRows
<1>4. NoRow(path)'
  <2>1. CASE InsertDocument(h)
    <3>1. UNCHANGED document \/ \A e \in document' : e \in document \/ e.id = nextPage
      BY <2>1, InsertRows
    <3> QED BY <1>3, <2>1, <3>1 DEF Gone, NoRow
  <2>2. CASE ~InsertDocument(h)
    BY <2>2, RowsKept DEF Gone, NoRow
  <2> QED BY <2>1, <2>2
<1>5. ~exists(path)'
  <2>1. OpenUpload(h) => UploadPath(h) # path
    BY DEF OpenUpload, Gone
  <2> QED BY <2>1, FilesKept DEF Gone, exists
<1>6. ASSUME NEW g \in Handler, At(g, "opening")' PROVE UploadPath(g)' # path
  <2>1. CASE conn[g].pc = "opening" /\ UploadPath(g)' = UploadPath(g)
    BY <2>1 DEF Gone, At
  <2>2. CASE g = h /\ InsertDocument(h) /\ UploadPath(g)' = <<conn[h].idUser, nextPage>>
    <3>1. nextPage \in Page => upload[nextPage].user = Nobody
      BY DEF IdInv, IdsGiven, Page, TypeOK, TablesOK
    <3>2. nextPage # path[2]
      BY <1>1, <3>1 DEF Known
    <3> QED BY <2>2, <3>2
  <2> QED BY <1>6, <2>1, <2>2, OpeningAfter DEF At
<1> QED BY <1>2, <1>4, <1>5, <1>6 DEF Gone

\* A row only goes when its path is tried.
LEMMA NextRowOrTried ==
  ASSUME TypeOK, IdInv, RowOrTried, NEW h \in Handler, Step(h)
  PROVE  RowOrTried'
<1> SUFFICES ASSUME NEW id \in Page, Known(id)'
             PROVE  \/ getDocPath(upload'[id].user, id) \in tried'
                    \/ \E d \in document' : d.id = id
  BY DEF RowOrTried
<1>1. CASE ~Known(id)
  <2>1. InsertDocument(h) /\ upload' # upload
    BY <1>1, RowsKept DEF Known
  <2>2. /\ \E d \in document' : d.id = nextPage
        /\ \A i \in Page : i # nextPage => upload'[i] = upload[i]
    BY <2>1, InsertRows
  <2>3. id = nextPage
    BY <1>1, <2>2 DEF Known
  <2> QED BY <2>2, <2>3
<1>2. CASE Known(id)
  <2> DEFINE path == getDocPath(upload[id].user, id)
  <2>1. path' = path
    BY <1>2, UploadKept
  <2>2. CASE path \in tried
    BY <2>1, <2>2, TriedKept
  <2>3. ASSUME NEW d \in document, d.id = id
        PROVE  path \in tried' \/ \E e \in document' : e.id = id
    <3>1. CASE InsertDocument(h)
      BY <2>3, <3>1, InsertRows
    <3>2. CASE RemoveRow(h)
      <4>1. d.user = upload[id].user
        BY <2>3 DEF IdInv, IdsGiven
      <4> QED BY <2>3, <3>2, <4>1, RemoveRowEffect DEF getDocPath
    <3>3. CASE ~InsertDocument(h) /\ ~RemoveRow(h)
      BY <2>3, <3>3, RowsKept
    <3> QED BY <3>1, <3>2, <3>3
  <2> QED BY <1>2, <2>1, <2>2, <2>3 DEF RowOrTried
<1> QED BY <1>1, <1>2

\* No other step leads to unlinking or to the OK of a removal.
LEMMA OtherSteps ==
  ASSUME TypeOK, NEW h \in Handler, Step(h), ~RemoveRow(h), ~RemoveFile(h)
  PROVE  conn'[h].pc # "unlinking" /\ ~ReportsRemoval(h)'
<1>1. conn \in [Handler -> Connection] /\ conn[h] \in Connection /\ Consistent(conn[h])
  BY ConnType
<1> DEFINE Other == conn'[h].pc # "unlinking" /\ ~ReportsRemoval(h)'
<1> USE DEF ReportsRemoval, At
<1>2. ASSUME NEW response \in {"none", "CORRUPT_REQUEST", "INTERNAL_ERROR"}, Answer(h, response)
      PROVE  Other
  BY <1>1, <1>2 DEF Answer, Connection
<1>3. ASSUME NEW op, op # "REMOVE_DOCUMENT", Exec(h, op), Answer(h, "OK") PROVE Other
  BY <1>1, <1>3 DEF Answer, Exec, Connection
<1>4. ASSUME NEW label, Goto(h, label),
             label \in {"closed", "extracting"} \/ conn[h].req.op = "DOWNLOAD",
             label # "unlinking"
      PROVE  Other
  BY <1>1, <1>4 DEF Goto, Connection
<1>5. CASE \E r \in Request : ReadRequest(h, r)
  BY <1>1, <1>5 DEF ReadRequest, Connection
<1>6. CASE BadRequest(h) \/ Reply(h) \/ ReceiveStops(h) \/ Index(h)
  BY <1>2, <1>4, <1>6 DEF BadRequest, Reply, ReceiveStops, Index
<1>7. CASE ListCompanies(h) \/ NewCompany(h) \/ RemoveCompany(h)
  BY <1>2, <1>3, <1>7 DEF ListCompanies, NewCompany, RemoveCompany, Statement
<1>8. CASE PeerStalls(h) \/ Hangup(h)
  BY <1>1, <1>8 DEF PeerStalls, Hangup, Idle
<1>9. CASE Search(h)
  BY <1>1, <1>9 DEF Search, Exec, Connection
<1>10. CASE InsertDocument(h)
  BY <1>10, InsertConn
<1>11. CASE OpenDownload(h)
  <2>1. ASSUME NEW f, NEW late, conn' = [conn EXCEPT ![h].pc = "sending", ![h].file = f,
                                           ![h].answer = "OK", ![h].late = late]
        PROVE  Other
    BY <1>1, <2>1 DEF Connection
  <2> HIDE DEF Other
  <2>2. \/ \E f, late : conn' = [conn EXCEPT ![h].pc = "sending", ![h].file = f,
                                            ![h].answer = "OK", ![h].late = late]
        \/ Answer(h, "INTERNAL_ERROR")
    BY <1>11 DEF OpenDownload
  <2>3. Other
    BY <1>2, <2>1, <2>2
  <2> QED BY <2>3 DEF Other
<1>12. CASE SendChunk(h)
  <2>1. conn[h].pc = "sending" /\ conn[h].req.op = "DOWNLOAD"
    BY <1>1, <1>12 DEF SendChunk, Consistent
  <2>2. ASSUME NEW got, conn' = [conn EXCEPT ![h].got = got] PROVE Other
    BY <1>1, <2>1, <2>2 DEF Connection
  <2> QED BY <1>2, <1>4, <1>12, <2>1, <2>2 DEF SendChunk
<1>13. CASE OpenUpload(h)
  <2>1. ASSUME NEW f, conn' = [conn EXCEPT ![h].pc = "receiving", ![h].file = f,
                                         ![h].left = conn[h].req.size]
        PROVE  Other
    BY <1>1, <2>1 DEF Connection
  <2> QED BY <1>13, <2>1 DEF OpenUpload
<1>14. CASE ReceiveChunk(h)
  BY <1>14, ReceiveChunkEffect
<1>15. CASE ReceiveEnds(h)
  BY <1>1, <1>15 DEF ReceiveEnds, Connection
<1>16. CASE Extract(h)
  <2>1. ASSUME NEW text, conn' = [conn EXCEPT ![h].pc = "indexing", ![h].got = text] PROVE Other
    BY <1>1, <2>1 DEF Connection
  <2> QED BY <1>4, <1>16, <2>1 DEF Extract
<1> QED
  BY <1>5, <1>6, <1>7, <1>8, <1>9, <1>10, <1>11, <1>12, <1>13, <1>14, <1>15, <1>16 DEF Step

\* Between DELETE and unlink() the row cannot come back.
LEMMA NextUnlinking ==
  ASSUME TypeOK, IdInv, Unlinking, NEW h \in Handler, Step(h)
  PROVE  Unlinking'
<1> SUFFICES ASSUME NEW g \in Handler, At(g, "unlinking")'
             PROVE  /\ RequestPath(g)' \in tried'
                    /\ conn'[g].late =>
                         Known(conn[g].req.idPage)' /\ NoRow(RequestPath(g))'
  BY DEF Unlinking
<1>1. CASE g = h
  <2>1. ~RemoveFile(h)
    BY <1>1, RemoveFileEffect DEF At
  <2>2. RemoveRow(h)
    BY <1>1, <2>1, OtherSteps DEF At
  <2> DEFINE path == RequestPath(h)
  <2>3. /\ path' = path /\ path = <<conn[h].idUser, conn[h].req.idPage>>
        /\ tried' = tried \cup {path}
        /\ UNCHANGED <<upload, nextPage>>
        /\ conn[h].req.idPage \in Page /\ conn'[h].req = conn[h].req
    BY <2>2, RemoveRowEffect DEF RequestPath, getDocPath
  <2>4. /\ document' =
             {d \in document : ~(d.id = conn[h].req.idPage /\ d.user = conn[h].idUser)}
        /\ conn'[h].late = (conn[h].req.idPage < nextPage)
    BY <1>1, <2>2, RemoveRowEffect DEF At
  <2>5. NoRow(path)'
    BY <2>3, <2>4 DEF NoRow
  <2>6. conn'[h].late => Known(conn[h].req.idPage)'
    <3>2. conn[h].req.idPage < nextPage => Known(conn[h].req.idPage)
      BY <2>3, KnownBelow
    <3> QED BY <2>3, <2>4, <3>2 DEF Known
  <2> QED BY <1>1, <2>3, <2>5, <2>6
<1>2. CASE g # h
  <2>1. conn'[g] = conn[g] /\ RequestPath(g)' = RequestPath(g)
    BY <1>2, OthersKept DEF RequestPath
  <2>2. RequestPath(g) \in tried
        /\ (conn[g].late => Known(conn[g].req.idPage) /\ NoRow(RequestPath(g)))
    BY <1>2, <2>1 DEF Unlinking, At
  <2>3. conn[g].req.idPage \in Page
    <3>1. conn[g].req \in Request /\ conn[g].req.op = "REMOVE_DOCUMENT"
      BY <1>2, <2>1, ConnType DEF Consistent, At
    <3> QED BY <3>1, RequestFields
  <2>4. Known(conn[g].req.idPage) => Known(conn[g].req.idPage)'
    BY <2>1, <2>3, UploadKept DEF Known
  <2>5. Known(conn[g].req.idPage) /\ NoRow(RequestPath(g)) => NoRow(RequestPath(g))'
    <3>1. CASE InsertDocument(h)
      <4>1. CASE UNCHANGED document
        BY <2>1, <4>1 DEF NoRow
      <4>2. CASE ~Known(nextPage) /\ \A e \in document' : e \in document \/ e.id = nextPage
        BY <2>1, <4>2 DEF NoRow, RequestPath, getDocPath
      <4> QED BY <3>1, <4>1, <4>2, InsertRows
    <3>2. CASE ~InsertDocument(h)
      BY <2>1, <3>2, RowsKept DEF NoRow
    <3> QED BY <3>1, <3>2
  <2>6. RequestPath(g)' \in tried'
    BY <2>1, <2>2, TriedKept
  <2> QED BY <2>1, <2>2, <2>4, <2>5, <2>6
<1> QED BY <1>1, <1>2

\* The history of removals grows with the OK of one.
LEMMA RemovedAfter ==
  ASSUME TypeOK, NEW h \in Handler, Step(h)
  PROVE  \/ removed' = removed
         \/ Reply(h) /\ ReportsRemoval(h) /\ removed' = removed \cup {RequestPath(h)}
<1>1. CASE UNCHANGED removed
  BY <1>1
<1>2. CASE Reply(h)
  BY <1>2 DEF Reply, ReportsRemoval, RequestPath, getDocPath
<1>3. CASE \/ \E r \in Request : ReadRequest(h, r)
           \/ BadRequest(h) \/ PeerStalls(h) \/ Hangup(h) \/ Search(h) \/ ListCompanies(h)
           \/ NewCompany(h) \/ RemoveCompany(h) \/ RemoveRow(h) \/ RemoveFile(h)
           \/ OpenDownload(h) \/ SendChunk(h) \/ InsertDocument(h)
  BY <1>3 DEF ReadRequest, BadRequest, PeerStalls, Hangup, Search, ListCompanies, NewCompany,
     RemoveCompany, RemoveRow, RemoveFile, OpenDownload, SendChunk, InsertDocument, history
<1>4. CASE \/ OpenUpload(h) \/ ReceiveChunk(h) \/ ReceiveStops(h) \/ ReceiveEnds(h)
           \/ Extract(h) \/ Index(h)
  BY <1>4 DEF OpenUpload, ReceiveChunk, ReceiveStops, ReceiveEnds, Extract, Index, history
<1> QED BY <1>2, <1>3, <1>4 DEF Step

\* The path of a removal is one of a user and a document.
LEMMA ReportType ==
  ASSUME TypeOK, NEW h \in Handler, conn[h].req.op = "REMOVE_DOCUMENT"
  PROVE  RequestPath(h) \in User \X Page
<1>1. conn[h].req \in Request
  BY ConnType DEF Connection, NoRequest
<1>2. conn[h].req.idPage \in Page /\ conn[h].req # NoRequest
  BY <1>1, RequestFields
<1>3. conn[h].idUser \in User
  BY <1>2, ConnType DEF Consistent
<1> QED BY <1>2, <1>3 DEF RequestPath, getDocPath

\* What is gone was so at unlink() and stays so.
LEMMA NextRemoved ==
  ASSUME TypeOK, IdInv, Unlinking, RemovedIsGone, NEW h \in Handler, Step(h)
  PROVE  RemovedIsGone'
<1>1. ASSUME NEW path \in User \X Page, path \in tried, Gone(path)
      PROVE  path \in tried' /\ Gone(path)'
  BY <1>1, GoneStays, TriedKept
<1>2. ASSUME NEW g \in Handler, ReportsRemoval(g)'
      PROVE  RequestPath(g)' \in tried' /\ Gone(RequestPath(g))'
  <2>1. CASE g = h
    <3>1. ~RemoveRow(h)
      BY <1>2, <2>1, RemoveRowEffect, "INTERNAL_ERROR" # "OK", "unlinking" # "reply"
      DEF ReportsRemoval, At
    <3>2. RemoveFile(h)
      BY <1>2, <2>1, <3>1, OtherSteps
    <3> DEFINE path == RequestPath(h)
    <3>3. /\ conn[h].pc = "unlinking" /\ conn[h].late
          /\ UNCHANGED <<document, upload, tried>> /\ path' = path
          /\ exists(path)
          /\ files' = [p \in DOMAIN files \ {path} |-> files[p]]
      BY <1>2, <2>1, <3>2, RemoveFileEffect, "INTERNAL_ERROR" # "OK"
      DEF ReportsRemoval, RequestPath
    <3>4. path \in tried /\ Known(conn[h].req.idPage) /\ NoRow(path)
      BY <3>3 DEF Unlinking, At
    <3>5. path[2] = conn[h].req.idPage
      BY DEF RequestPath, getDocPath
    <3> HIDE DEF path
    <3>6. ASSUME NEW f \in Handler, At(f, "opening")' PROVE UploadPath(f)' # path
      <4>1. ~InsertDocument(h)
        BY <3>3 DEF InsertDocument, Exec, At
      <4>2. conn[f].pc = "opening" /\ UploadPath(f)' = UploadPath(f)
        BY <3>6, <4>1, OpeningAfter DEF At
      <4> QED BY <3>3, <4>2 DEF IdInv, UploadsApart, FileUnmade, At
    <3>7. Gone(path)'
      BY <3>3, <3>4, <3>5, <3>6 DEF Gone, Known, NoRow, exists
    <3> QED BY <2>1, <3>3, <3>4, <3>7 DEF path, Gone, Known, NoRow, exists
  <2>2. CASE g # h
    <3>1. conn'[g] = conn[g]
      BY <2>2, OthersKept
    <3>2. ReportsRemoval(g) /\ RequestPath(g)' = RequestPath(g)
      BY <1>2, <3>1 DEF ReportsRemoval, RequestPath, At
    <3> DEFINE path == RequestPath(g)
    <3>3. path \in User \X Page /\ path \in tried /\ Gone(path)
      BY <3>2, ReportType DEF ReportsRemoval, RemovedIsGone
    <3>4. path' \in tried' /\ Gone(path)'
      BY <1>1, <3>2, <3>3 DEF Gone, Known, NoRow, exists
    <3> QED BY <3>4
  <2> QED BY <2>1, <2>2
<1>3. ASSUME NEW path \in removed' PROVE path \in tried' /\ Gone(path)'
  <2>1. CASE path \in removed
    BY <1>1, <2>1 DEF RemovedIsGone, TypeOK, HistoryOK
  <2>2. CASE ReportsRemoval(h) /\ path = RequestPath(h)
    BY <1>1, <2>2, ReportType DEF RemovedIsGone, ReportsRemoval
  <2> QED BY <1>3, <2>1, <2>2, RemovedAfter
<1> QED BY <1>2, <1>3 DEF RemovedIsGone

\* The steps that are no handler's: accept(), a crash and a restart of mysqld leave the
\* rows and the spool alone, and no connection they touch is under way.
LEMMA OtherNext ==
  ASSUME TypeOK, [Next]_vars, \A h \in Handler : ~Step(h)
  PROVE  /\ UNCHANGED <<company, document, nextPage, files, disk, upload, acked, tried, removed>>
         /\ \A g \in Handler :
              \/ conn'[g] = conn[g]
              \/ conn'[g] = Idle
              \/ /\ conn[g].pc = "idle" /\ conn'[g].req = conn[g].req
                 /\ conn'[g].got = conn[g].got /\ conn'[g].found = conn[g].found
                 /\ \/ conn'[g].pc = "authenticated"
                    \/ /\ conn'[g].pc = "reply" /\ conn'[g].answer = "INTERNAL_ERROR"
                       /\ conn'[g].idUser = conn[g].idUser
<1>1. CASE UNCHANGED vars
  BY <1>1 DEF vars, database, spool, history
<1>2. CASE Crash \/ Restart
  BY <1>2 DEF Crash, Restart, database, spool, history
<1>3. ASSUME NEW h \in Handler, NEW cn \in User \cup {Nobody}, Accept(h, cn)
      PROVE  /\ conn[h].pc = "idle" /\ conn'[h].req = conn[h].req
             /\ conn'[h].got = conn[h].got /\ conn'[h].found = conn[h].found
             /\ \/ conn'[h].pc = "authenticated"
                \/ /\ conn'[h].pc = "reply" /\ conn'[h].answer = "INTERNAL_ERROR"
                   /\ conn'[h].idUser = conn[h].idUser
             /\ \A g \in Handler : g # h => conn'[g] = conn[g]
             /\ UNCHANGED <<database, spool, history>>
  BY <1>3, ConnType DEF Accept, At, Answer, Connection
<1> QED BY <1>1, <1>2, <1>3 DEF Next, database, spool, history

\* Every step keeps the invariant of removals.
LEMMA NextRemoval == TypeOK /\ IdInv /\ RemovalInv /\ [Next]_vars => RemovalInv'
<1> SUFFICES ASSUME TypeOK, IdInv, RemovalInv, [Next]_vars PROVE RemovalInv'
  OBVIOUS
<1>1. CASE \E h \in Handler : Step(h)
  BY <1>1, NextRowOrTried, NextUnlinking, NextRemoved DEF RemovalInv
<1>2. CASE \A h \in Handler : ~Step(h)
  <2>1. UNCHANGED <<document, files, upload, tried, removed>>
    BY <1>2, OtherNext
  <2>2. \A g \in Handler : /\ At(g, "unlinking")' => conn'[g] = conn[g]
                           /\ At(g, "opening")' => conn'[g] = conn[g]
                           /\ ReportsRemoval(g)' => conn'[g] = conn[g]
    BY <1>2, OtherNext DEF Idle, At, ReportsRemoval
  <2>3. \A path : Gone(path) => Gone(path)'
    BY <2>1, <2>2 DEF Gone, Known, NoRow, exists, At, UploadPath
  <2>4. RowOrTried'
    BY <2>1 DEF RemovalInv, RowOrTried, Known
  <2>5. Unlinking'
    BY <2>1, <2>2 DEF RemovalInv, Unlinking, Known, NoRow, RequestPath, At
  <2>6. ASSUME NEW g \in Handler, ReportsRemoval(g)'
        PROVE  RequestPath(g)' \in tried' /\ Gone(RequestPath(g))'
    <3>1. ReportsRemoval(g) /\ RequestPath(g)' = RequestPath(g) /\ conn'[g] = conn[g]
      BY <2>2, <2>6 DEF ReportsRemoval, RequestPath, At
    <3>2. RequestPath(g) \in tried /\ Gone(RequestPath(g))
      BY <3>1 DEF RemovalInv, RemovedIsGone
    <3> QED BY <2>1, <2>2, <3>1, <3>2 DEF Gone, Known, NoRow, exists, At, UploadPath
  <2>7. RemovedIsGone'
    BY <2>1, <2>3, <2>6 DEF RemovalInv, RemovedIsGone
  <2> QED BY <2>4, <2>5, <2>7 DEF RemovalInv
<1> QED BY <1>1, <1>2

\* The inductive invariant of removals: an id that was given away has its row or
\* a removal was tried, and what a removal reported gone is beyond creation.
THEOREM RemovalInvariance == Spec => []RemovalInv
<1>1. Init => RemovalInv
  BY InitRemoval
<1> QED BY <1>1, NextRemoval, TypeCorrect, IdInvariance, PTL DEF Spec

\* No failure and no crash leaves a file without its row: the row is written
\* before the file, and only a removal takes it away (proxy.cpp:198-220).
THEOREM OrphansAreRemovals == Spec => []OrphanOnlyByRemoval
<1>1. ASSUME TypeOK, IdInv, RemovalInv PROVE OrphanOnlyByRemoval
  <2> SUFFICES ASSUME NEW path \in DOMAIN files
               PROVE  path \in tried \/ \E d \in document : d.user = path[1] /\ d.id = path[2]
    BY DEF OrphanOnlyByRemoval
  <2>1. path \in User \X Page /\ path = <<path[1], path[2]>>
    BY <1>1 DEF TypeOK, SpoolOK
  <2>2. upload[path[2]].user = path[1] /\ path[1] # Nobody
    BY <1>1, <2>1, NobodyAssumption DEF IdInv, IdsGiven
  <2>3. path \in tried \/ \E d \in document : d.id = path[2]
    BY <1>1, <2>1, <2>2 DEF RemovalInv, RowOrTried, Known, getDocPath
  <2>4. \A d \in document : d.id = path[2] => d.user = path[1]
    BY <1>1, <2>2 DEF IdInv, IdsGiven
  <2> QED BY <2>3, <2>4
<1> QED BY <1>1, TypeCorrect, IdInvariance, RemovalInvariance, PTL

\* A document whose removal was answered OK never comes back, neither its row nor
\* its file, whatever its upload was still doing (proxy.cpp:215-279, 398-420).
THEOREM RemovalIsFinal == Spec => []RemovedStaysRemoved
<1>1. RemovalInv => RemovedStaysRemoved
  BY DEF RemovalInv, RemovedIsGone, Gone, NoRow, RemovedStaysRemoved
<1> QED BY <1>1, RemovalInvariance, PTL


-----------------------------------------------------------------------------
\* Where a handler can be after its step.
LEMMA PcAfter ==
  ASSUME TypeOK, NEW h \in Handler, Step(h)
  PROVE  /\ conn'[h].pc = "receiving" => OpenUpload(h) \/ ReceiveChunk(h)
         /\ conn'[h].pc = "sending" => OpenDownload(h) \/ SendChunk(h)
         /\ conn'[h].pc = "indexing" => Extract(h)
         /\ conn'[h].pc = "idle" => Hangup(h)
         /\ conn'[h].pc # "authenticated"
<1>1. conn \in [Handler -> Connection] /\ conn[h] \in Connection
  BY ConnType
<1>2. ASSUME NEW response, Answer(h, response) PROVE conn'[h].pc = "reply"
  BY <1>1, <1>2 DEF Answer, Connection
<1>3. ASSUME NEW label, Goto(h, label) PROVE conn'[h].pc = label
  BY <1>1, <1>3 DEF Goto, Connection
<1>4. CASE \/ \E r \in Request : ReadRequest(h, r)
           \/ PeerStalls(h) \/ Hangup(h) \/ Search(h)
  <2>0. PeerStalls(h) => conn'[h].pc = "stuck"
    BY <1>1 DEF PeerStalls, Idle
  <2>1. Hangup(h) => conn'[h].pc = "idle"
    BY <1>1 DEF Hangup, Idle
  <2>2. CASE \E r \in Request : ReadRequest(h, r)
    BY <1>1, <2>2 DEF ReadRequest, Connection
  <2>3. CASE Search(h)
    BY <1>1, <2>3 DEF Search, Connection
  <2> QED BY <1>4, <2>0, <2>1, <2>2, <2>3
<1>5. CASE BadRequest(h) \/ Reply(h) \/ RemoveFile(h) \/ ReceiveStops(h) \/ Index(h)
  BY <1>2, <1>3, <1>5 DEF BadRequest, Reply, RemoveFile, ReceiveStops, Index
<1>6. CASE ListCompanies(h) \/ NewCompany(h) \/ RemoveCompany(h)
  BY <1>2, <1>6 DEF ListCompanies, NewCompany, RemoveCompany, Statement
<1>7. CASE RemoveRow(h)
  BY <1>7, RemoveRowEffect
<1>8. CASE InsertDocument(h)
  BY <1>8, InsertConn
<1>9. CASE ReceiveEnds(h)
  BY <1>1, <1>9 DEF ReceiveEnds, Connection
<1>10. CASE OpenDownload(h) \/ SendChunk(h)
  <2>1. CASE conn'[h].pc \in {"sending", "reply"}
    BY <1>10, <2>1
  <2>2. CASE OpenDownload(h)
    <3>1. ASSUME NEW f, NEW late, conn' = [conn EXCEPT ![h].pc = "sending", ![h].file = f,
                                             ![h].answer = "OK", ![h].late = late]
          PROVE  conn'[h].pc = "sending"
      BY <1>1, <3>1 DEF Connection
    <3>2. \/ \E f, late : conn' = [conn EXCEPT ![h].pc = "sending", ![h].file = f,
                                              ![h].answer = "OK", ![h].late = late]
          \/ Answer(h, "INTERNAL_ERROR")
      BY <2>2 DEF OpenDownload
    <3>3. conn'[h].pc \in {"sending", "reply"}
      BY <1>2, <3>1, <3>2
    <3> QED BY <2>1, <3>3
  <2>3. CASE SendChunk(h)
    <3>1. ASSUME NEW got, conn' = [conn EXCEPT ![h].got = got], conn[h].pc = "sending"
          PROVE  conn'[h].pc = "sending"
      BY <1>1, <3>1 DEF Connection
    <3>2. \/ \E got : conn' = [conn EXCEPT ![h].got = got]
          \/ Goto(h, "reply")
          \/ Answer(h, "INTERNAL_ERROR")
      BY <2>3 DEF SendChunk
    <3>3. conn'[h].pc \in {"sending", "reply"}
      BY <1>2, <1>3, <2>3, <3>1, <3>2 DEF SendChunk, At
    <3> QED BY <2>1, <3>3
  <2> QED BY <1>10, <2>2, <2>3
<1>11. CASE OpenUpload(h)
  <2>1. ASSUME NEW f, conn' = [conn EXCEPT ![h].pc = "receiving", ![h].file = f,
                                         ![h].left = conn[h].req.size]
        PROVE  conn'[h].pc = "receiving"
    BY <1>1, <2>1 DEF Connection
  <2> QED BY <1>11, <2>1 DEF OpenUpload
<1>12. CASE ReceiveChunk(h)
  BY <1>12, ReceiveChunkEffect
<1>13. CASE Extract(h)
  <2>1. ASSUME NEW text, conn' = [conn EXCEPT ![h].pc = "indexing", ![h].got = text]
        PROVE  conn'[h].pc = "indexing"
    BY <1>1, <2>1 DEF Connection
  <2> QED BY <1>3, <1>13, <2>1 DEF Extract
<1> QED
  BY <1>4, <1>5, <1>6, <1>7, <1>8, <1>9, <1>10, <1>11, <1>12, <1>13 DEF Step

\* Only the next chunk of an upload changes what a file holds.
LEMMA DiskAfter ==
  ASSUME TypeOK, IdInv, NEW h \in Handler, Step(h)
  PROVE  /\ Len(disk) \in Nat
         /\ ~ReceiveChunk(h) => \A i \in 1..Len(disk) : disk'[i] = disk[i]
         /\ ~ReceiveChunk(h) /\ ~OpenUpload(h) => disk' = disk
<1>0. disk \in Seq(Seq(Chunk)) /\ Len(disk) \in Nat
  BY LenProperties DEF TypeOK, SpoolOK
<1>1. CASE UNCHANGED disk
  BY <1>0, <1>1
<1>2. CASE \/ \E r \in Request : ReadRequest(h, r)
           \/ BadRequest(h) \/ PeerStalls(h) \/ Reply(h) \/ Hangup(h) \/ Search(h)
           \/ ListCompanies(h) \/ NewCompany(h) \/ RemoveCompany(h) \/ RemoveRow(h) \/ OpenDownload(h)
           \/ SendChunk(h) \/ InsertDocument(h)
  BY <1>1, <1>2 DEF ReadRequest, BadRequest, PeerStalls, Reply, Hangup, Search, ListCompanies,
     NewCompany, RemoveCompany, RemoveRow, OpenDownload, SendChunk, InsertDocument, spool
<1>3. CASE ReceiveStops(h) \/ ReceiveEnds(h) \/ Extract(h) \/ Index(h)
  BY <1>1, <1>3 DEF ReceiveStops, ReceiveEnds, Extract, Index, spool
<1>4. CASE RemoveFile(h)
  BY <1>1, <1>4, RemoveFileEffect
<1>5. CASE ReceiveChunk(h)
  BY <1>0, <1>5
<1>6. CASE OpenUpload(h)
  <2>1. CASE disk' = Append(disk, << >>)
    <3>1. << >> \in Seq(Chunk)
      OBVIOUS
    <3>2. \A i \in 1..Len(disk) : disk'[i] = disk[i]
      BY <1>0, <2>1, <3>1, AppendProperties
    <3> QED BY <1>0, <1>6, <3>2
  <2> QED BY <1>1, <1>6, <2>1, OpenUploadEffect DEF IdInv
<1> QED BY <1>2, <1>3, <1>4, <1>5, <1>6 DEF Step

\* Only the end of an upload acknowledges one.
LEMMA AckedAfter ==
  ASSUME TypeOK, NEW h \in Handler, Step(h)
  PROVE  \/ acked' = acked /\ ~ReceiveEnds(h)
         \/ ReceiveEnds(h) /\ acked' = acked \cup {conn[h].idPage}
<1>1. CASE \/ \E r \in Request : ReadRequest(h, r)
           \/ BadRequest(h) \/ PeerStalls(h) \/ Reply(h) \/ Hangup(h) \/ Search(h)
           \/ ListCompanies(h) \/ NewCompany(h) \/ RemoveCompany(h) \/ RemoveRow(h) \/ RemoveFile(h)
           \/ OpenDownload(h) \/ SendChunk(h) \/ InsertDocument(h)
  <2>1. acked' = acked
    BY <1>1 DEF ReadRequest, BadRequest, PeerStalls, Reply, Hangup, Search, ListCompanies,
     NewCompany, RemoveCompany, RemoveRow, RemoveFile, OpenDownload, SendChunk, InsertDocument, history
  <2>2. CASE ReceiveEnds(h)
    BY <2>2 DEF ReceiveEnds
  <2> QED BY <2>1, <2>2
<1>2. CASE \/ OpenUpload(h) \/ ReceiveChunk(h) \/ ReceiveStops(h) \/ Extract(h) \/ Index(h)
  <2>1. acked' = acked
    BY <1>2 DEF OpenUpload, ReceiveChunk, ReceiveStops, Extract, Index, history
  <2>2. CASE ReceiveEnds(h)
    BY <2>2 DEF ReceiveEnds
  <2> QED BY <2>1, <2>2
<1>3. CASE ReceiveEnds(h)
  BY <1>3 DEF ReceiveEnds
<1> QED BY <1>1, <1>2, <1>3 DEF Step


-----------------------------------------------------------------------------
(* What the files hold, when write() stores what it is given.              *)

First(id, n) == [k \in 1..n |-> <<id, k>>]

\* s is a beginning of what was uploaded under id.
Beginning(s, id) == \E n \in 0..upload[id].size : s = First(id, n)

\* An upload has written what it has received, to the file of its path.
WritesAll ==
  /\ \A h \in Handler : Writing(h) =>
       /\ disk[conn[h].file] = First(conn[h].idPage, conn[h].req.size - conn[h].left)
       /\ UploadPath(h) \in tried \/ exists(UploadPath(h))
  /\ \A h \in Handler : At(h, "receiving") /\ conn[h].file = NoFile =>
       conn[h].left = conn[h].req.size /\ Fails("open")

FilesBegin == \A path \in DOMAIN files : Beginning(disk[files[path]], path[2])

\* What was acknowledged is on disk, or nothing had to be.
AckedWritten ==
  \A id \in acked :
    LET path == getDocPath(upload[id].user, id)
    IN /\ exists(path) => disk[files[path]] = Whole(id)
       /\ path \in tried \/ exists(path) \/ (upload[id].size = 0 /\ Fails("open"))

Written == WritesAll /\ FilesBegin /\ AckedWritten

\* The first chunks of an upload, and the next one behind them.
LEMMA FirstFacts ==
  ASSUME NEW id, NEW n \in Nat
  PROVE  /\ First(id, 0) = << >>
         /\ First(id, n) \in Seq({id} \X Nat) /\ Len(First(id, n)) = n
         /\ \A k \in 1..n : First(id, n)[k] = <<id, k>>
         /\ Append(First(id, n), <<id, n + 1>>) = First(id, n + 1)
<1>1. First(id, 0) = << >>
  BY DEF First
<1>2. ASSUME NEW m \in Nat
      PROVE  First(id, m) \in Seq({id} \X Nat) /\ Len(First(id, m)) = m
             /\ \A k \in 1..m : First(id, m)[k] = <<id, k>>
  BY <1>2 DEF First
<1>3. Append(First(id, n), <<id, n + 1>>) = First(id, n + 1)
  <2> DEFINE s == First(id, n)
             t == First(id, n + 1)
             e == <<id, n + 1>>
             a == Append(s, e)
  <2>1. n + 1 \in Nat
    OBVIOUS
  <2> HIDE DEF e
  <2>2. s \in Seq({id} \X Nat) /\ Len(s) = n /\ t \in Seq({id} \X Nat)
    BY <1>2, <2>1
  <2>3. e \in {id} \X Nat
    BY <2>1 DEF e
  <2>4. \A k \in 1..n : s[k] = <<id, k>>
    BY <1>2
  <2>5. Len(t) = n + 1 /\ \A k \in 1..(n + 1) : t[k] = <<id, k>>
    BY <1>2, <2>1
  <2> HIDE DEF s, t
  <2>6. a \in Seq({id} \X Nat) /\ Len(a) = n + 1
        /\ a[n + 1] = e /\ \A k \in 1..n : a[k] = s[k]
    BY <2>2, <2>3, AppendProperties
  <2> HIDE DEF a
  <2>7. ASSUME NEW k \in 1..(n + 1) PROVE a[k] = t[k]
    <3>1. CASE k = n + 1
      BY <2>1, <2>5, <2>6, <3>1 DEF e
    <3>2. CASE k \in 1..n
      BY <2>4, <2>5, <2>6, <3>2
    <3> QED BY <3>1, <3>2
  <2>8. a = t
    BY <2>2, <2>5, <2>6, <2>7, SeqEqual
  <2> QED BY <2>8 DEF a, s, t, e
<1> QED BY <1>1, <1>2, <1>3

\* A beginning of an upload is a prefix of the whole of it.
LEMMA BeginningPrefix ==
  ASSUME NEW id, upload[id].size \in Nat, NEW s, Beginning(s, id)
  PROVE  IsPrefix(s, Whole(id))
<1>1. PICK n \in 0..upload[id].size : s = First(id, n)
  BY DEF Beginning
<1> DEFINE m == upload[id].size
<1>2. n \in Nat /\ m \in Nat /\ n <= m
  OBVIOUS
<1>3. Whole(id) = First(id, m)
  BY DEF Whole, First
<1>4. Len(s) = n /\ Len(Whole(id)) = m
  BY <1>1, <1>2, <1>3, FirstFacts
<1>5. SubSeq(s, 1, n) = s
  <2>1. s \in Seq({id} \X Nat)
    BY <1>1, <1>2, FirstFacts
  <2> QED BY <1>4, <2>1
<1>6. SubSeq(Whole(id), 1, n) = First(id, n)
  <2> HIDE DEF m
  <2>1. First(id, m) \in Seq({id} \X Nat) /\ Len(First(id, m)) = m
        /\ \A k \in 1..m : First(id, m)[k] = <<id, k>>
    BY <1>2, FirstFacts
  <2>2. First(id, n) \in Seq({id} \X Nat) /\ Len(First(id, n)) = n
        /\ \A k \in 1..n : First(id, n)[k] = <<id, k>>
    BY <1>2, FirstFacts
  <2> DEFINE t == First(id, m)
             u == First(id, n)
             v == SubSeq(t, 1, n)
  <2> HIDE DEF t, u
  <2>3. v \in Seq({id} \X Nat) /\ Len(v) = n /\ \A k \in 1..n : v[k] = t[k]
    BY <1>2, <2>1 DEF t
  <2> HIDE DEF v
  <2>4. v = u
    BY <1>2, <2>1, <2>2, <2>3, SeqEqual DEF t, u
  <2> QED BY <1>3, <2>4 DEF v, t, u
<1> HIDE DEF m
<1> QED BY <1>1, <1>2, <1>4, <1>5, <1>6 DEF IsPrefix


LEMMA InitWritten == Init => Written
<1> SUFFICES ASSUME Init PROVE Written
  OBVIOUS
<1>1. \A h \in Handler : conn[h].pc = "idle"
  BY DEF Init, Idle
<1>2. DOMAIN files = {} /\ acked = {}
  BY DEF Init
<1> QED BY <1>1, <1>2 DEF Written, WritesAll, FilesBegin, AckedWritten, Writing, At

\* A path with a file names a known upload, and loses the file by a removal only.
LEMMA PathsKept ==
  ASSUME TypeOK, IdInv, Unlinking, NEW h \in Handler, Step(h), NEW path \in DOMAIN files
  PROVE  /\ path \in User \X Page /\ path[2] \in Page
         /\ path = getDocPath(upload[path[2]].user, path[2])
         /\ Known(path[2]) /\ upload'[path[2]] = upload[path[2]]
         /\ files[path] \in 1..Len(disk)
         /\ path \in tried' \/ path \in DOMAIN files'
<1>1. path \in User \X Page /\ path[2] \in Page /\ path[1] \in User /\ path = <<path[1], path[2]>>
      /\ files[path] \in 1..Len(disk)
  BY DEF TypeOK, SpoolOK
<1>2. upload[path[2]].user = path[1]
  BY DEF IdInv, IdsGiven
<1>3. Known(path[2])
  BY <1>1, <1>2, NobodyAssumption DEF Known
<1>4. upload'[path[2]] = upload[path[2]]
  BY <1>1, <1>3, UploadKept
<1>5. path \in tried' \/ path \in DOMAIN files'
  <2>1. CASE ~RemoveFile(h)
    BY <2>1, FilesKept
  <2>2. CASE RemoveFile(h)
    <3>1. conn[h].pc = "unlinking" /\ tried' = tried
          /\ \/ files' = [p \in DOMAIN files \ {RequestPath(h)} |-> files[p]]
             \/ files' = files
      BY <2>2, RemoveFileEffect DEF RequestPath
    <3>2. RequestPath(h) \in tried
      BY <3>1 DEF Unlinking, At
    <3> QED BY <3>1, <3>2
  <2> QED BY <2>1, <2>2
<1> QED BY <1>1, <1>2, <1>3, <1>4, <1>5 DEF getDocPath

\* An acknowledged upload is known, and what was announced of it stays.
LEMMA AckedKnown ==
  ASSUME TypeOK, IdInv, NEW h \in Handler, Step(h), NEW id \in acked
  PROVE  id \in Page /\ Known(id) /\ upload'[id] = upload[id]
<1>1. id \in Page /\ Known(id)
  BY DEF TypeOK, HistoryOK, IdInv, IdsGiven, Known
<1> QED BY <1>1, UploadKept

\* Steps that neither open nor write a file nor acknowledge an upload.
LEMMA CalmWritten ==
  ASSUME TypeOK, IdInv, Unlinking, Written, NEW h \in Handler, Step(h),
         ~OpenUpload(h), ~ReceiveChunk(h), ~ReceiveEnds(h)
  PROVE  Written'
<1>1. disk' = disk /\ acked' = acked /\ tried \subseteq tried'
  BY DiskAfter, AckedAfter, TriedKept
<1>2. DOMAIN files' \subseteq DOMAIN files /\ \A p \in DOMAIN files' : files'[p] = files[p]
  BY FilesKept
<1>3. \A g \in Handler : At(g, "receiving")' => conn'[g] = conn[g]
  BY OthersKept, PcAfter DEF At
<1>4. WritesAll'
  <2>1. \A g \in Handler : Writing(g)' => Writing(g) /\ conn'[g] = conn[g]
                                          /\ UploadPath(g)' = UploadPath(g)
    BY <1>3 DEF Writing, At, UploadPath
  <2>2. \A p : p \in tried \/ exists(p) => p \in tried' \/ p \in DOMAIN files'
    BY <1>1, PathsKept DEF exists
  <2>3. \A g \in Handler : Writing(g)' =>
          /\ disk'[conn'[g].file] = First(conn'[g].idPage, conn'[g].req.size - conn'[g].left)
          /\ UploadPath(g)' \in tried' \/ UploadPath(g)' \in DOMAIN files'
    BY <1>1, <2>1, <2>2 DEF Written, WritesAll
  <2>4. \A g \in Handler : At(g, "receiving")' /\ conn'[g].file = NoFile =>
          conn'[g].left = conn'[g].req.size /\ Fails("open")
    BY <1>3 DEF Written, WritesAll, At
  <2> QED BY <2>3, <2>4 DEF WritesAll, exists
<1>5. FilesBegin'
  BY <1>1, <1>2, PathsKept DEF Written, FilesBegin, Beginning
<1>6. AckedWritten'
  <2> SUFFICES ASSUME NEW id \in acked
               PROVE  LET path == getDocPath(upload[id].user, id)
                      IN /\ path \in DOMAIN files' => disk'[files'[path]] = Whole(id)
                         /\ \/ path \in tried' \/ path \in DOMAIN files'
                            \/ upload[id].size = 0 /\ Fails("open")
    BY <1>1, AckedKnown DEF AckedWritten, Whole, exists
  <2> DEFINE path == getDocPath(upload[id].user, id)
  <2>1. /\ path \in DOMAIN files => disk[files[path]] = Whole(id)
        /\ path \in tried \/ path \in DOMAIN files \/ (upload[id].size = 0 /\ Fails("open"))
    BY DEF Written, AckedWritten, exists
  <2> QED BY <1>1, <1>2, <2>1, PathsKept
<1> QED BY <1>4, <1>5, <1>6 DEF Written


\* open() makes an empty file, or none.
LEMMA OpenWritten ==
  ASSUME TypeOK, IdInv, Unlinking, Written, NEW h \in Handler, OpenUpload(h)
  PROVE  Written'
<1>0. Step(h)
  BY DEF Step
<1>1. /\ acked' = acked /\ UNCHANGED <<upload, tried>>
      /\ conn[h].pc = "opening" /\ conn'[h].idPage = conn[h].idPage
      /\ conn'[h].req = conn[h].req /\ conn'[h].left = conn[h].req.size
      /\ UploadPath(h)' = UploadPath(h)
  BY OpenUploadEffect DEF IdInv, OpenUpload, history, UploadPath
<1>2. \A g \in Handler : g # h => conn'[g] = conn[g]
  BY <1>0, OthersKept
<1>3. /\ Len(disk) \in Nat /\ \A i \in 1..Len(disk) : disk'[i] = disk[i]
      /\ disk \in Seq(Seq(Chunk))
  <2>1. ~ReceiveChunk(h)
    BY <1>1 DEF ReceiveChunk, At
  <2> QED BY <1>0, <2>1, DiskAfter DEF TypeOK, SpoolOK
<1>4. conn[h].idPage \in Page /\ conn[h].idUser \in User
      /\ upload[conn[h].idPage].user = conn[h].idUser
      /\ conn[h].req.size \in Nat /\ upload[conn[h].idPage].size = conn[h].req.size
  BY <1>1, UploadOwner, RequestFields DEF UploadPC, IdInv
<1>5. conn[h].req.size - conn[h].req.size = 0
  BY <1>4
<1>6. First(conn[h].idPage, 0) = << >>
  BY FirstFacts
<1>7. \A g \in Handler : Writing(g) /\ g # h => conn[g].file \in 1..Len(disk)
  BY <1>3, ConnType DEF Writing, NoFile, Connection
<1>8. CASE UNCHANGED <<files, disk>> /\ conn'[h].file = NoFile /\ Fails("open")
  <2>1. WritesAll'
    BY <1>1, <1>2, <1>8 DEF Written, WritesAll, Writing, At, UploadPath, exists
  <2>2. FilesBegin' /\ AckedWritten'
    BY <1>1, <1>8 DEF Written, FilesBegin, AckedWritten, Beginning, Whole, exists
  <2> QED BY <2>1, <2>2 DEF Written
<1>9. CASE /\ disk' = Append(disk, << >>)
           /\ files' = [p \in DOMAIN files \cup {UploadPath(h)} |->
                          IF p = UploadPath(h) THEN Len(disk) + 1 ELSE files[p]]
           /\ conn'[h].file = Len(disk) + 1
  <2> DEFINE path == UploadPath(h)
  <2>1. ~exists(path)
    BY <1>1 DEF IdInv, UploadsApart, FileUnmade, At
  <2>2. disk'[Len(disk) + 1] = << >>
    <3>1. << >> \in Seq(Chunk)
      OBVIOUS
    <3> QED BY <1>3, <1>9, <3>1, AppendProperties
  <2>3. /\ DOMAIN files' = DOMAIN files \cup {path} /\ files'[path] = Len(disk) + 1
        /\ \A p \in DOMAIN files : files'[p] = files[p] /\ disk'[files'[p]] = disk[files[p]]
    BY <1>0, <1>3, <1>9, <2>1, PathsKept DEF exists
  <2>4. path = <<conn[h].idUser, conn[h].idPage>> /\ path[2] = conn[h].idPage
    BY DEF UploadPath, getDocPath
  <2> HIDE DEF path
  <2>5. ASSUME NEW g \in Handler, Writing(g)'
        PROVE  /\ disk'[conn'[g].file] = First(conn'[g].idPage, conn'[g].req.size - conn'[g].left)
               /\ UploadPath(g)' \in tried' \/ UploadPath(g)' \in DOMAIN files'
    <3>1. CASE g = h
      BY <1>1, <1>5, <1>6, <1>9, <2>2, <2>3, <3>1 DEF path
    <3>2. CASE g # h
      <4>1. Writing(g) /\ UploadPath(g)' = UploadPath(g) /\ conn'[g] = conn[g]
        BY <1>2, <2>5, <3>2 DEF Writing, At, UploadPath
      <4> QED BY <1>1, <1>3, <1>7, <2>3, <3>2, <4>1 DEF Written, WritesAll, exists
    <3> QED BY <3>1, <3>2
  <2>6. ASSUME NEW g \in Handler, At(g, "receiving")', conn'[g].file = NoFile
        PROVE  conn'[g].left = conn'[g].req.size /\ Fails("open")
    <3>1. g # h
      BY <1>3, <1>9, <2>6 DEF NoFile
    <3> QED BY <1>2, <2>6, <3>1 DEF Written, WritesAll, At
  <2>7. WritesAll'
    BY <2>5, <2>6 DEF WritesAll, exists
  <2>8. FilesBegin'
    <3>1. disk'[files'[path]] = First(conn[h].idPage, 0) /\ 0 \in 0..upload[conn[h].idPage].size
      BY <1>4, <1>6, <2>2, <2>3
    <3> QED BY <1>1, <2>3, <2>4, <3>1 DEF Written, FilesBegin, Beginning
  <2>9. AckedWritten'
    <3> SUFFICES ASSUME NEW id \in acked
                 PROVE  LET p == getDocPath(upload[id].user, id)
                        IN /\ p \in DOMAIN files' => disk'[files'[p]] = Whole(id)
                           /\ \/ p \in tried' \/ p \in DOMAIN files'
                              \/ upload[id].size = 0 /\ Fails("open")
      BY <1>1 DEF AckedWritten, Whole, exists
    <3>1. id # conn[h].idPage
      BY <1>1 DEF IdInv, UploadsApart
    <3>2. getDocPath(upload[id].user, id) # path
      BY <2>4, <3>1 DEF getDocPath
    <3> QED BY <1>1, <2>3, <3>2 DEF Written, AckedWritten, exists
  <2> QED BY <2>7, <2>8, <2>9 DEF Written
<1> QED BY <1>8, <1>9, OpenUploadEffect DEF IdInv

\* The next chunk goes to the end of the file of its own upload.
LEMMA ChunkWritten ==
  ASSUME "short" \notin Faults, TypeOK, IdInv, Written, NEW h \in Handler, ReceiveChunk(h)
  PROVE  Written'
<1> DEFINE f == conn[h].file
           id == conn[h].idPage
           n == conn[h].req.size - conn[h].left
<1>0. Step(h)
  BY DEF Step
<1>1. /\ conn[h].pc = "receiving" /\ conn[h].left \in Nat /\ conn[h].left > 0
      /\ conn[h].req.size \in Nat /\ conn[h].left <= conn[h].req.size
      /\ UNCHANGED <<files, upload, acked, tried>>
      /\ conn'[h].req = conn[h].req /\ conn'[h].idPage = id /\ conn'[h].file = f
      /\ UploadPath(h)' = UploadPath(h)
      /\ \/ /\ f \in 1..Len(disk) /\ f # NoFile
            /\ disk'[f] = Append(disk[f], <<id, n + 1>>)
            /\ \A i \in 1..Len(disk) : i # f => disk'[i] = disk[i]
            /\ conn'[h].pc = "receiving" /\ conn'[h].left = conn[h].left - 1
         \/ UNCHANGED disk /\ conn'[h].pc = "reply"
  BY ReceiveChunkEffect DEF Fails, UploadPath, getDocPath
<1>2. \A g \in Handler : g # h => conn'[g] = conn[g]
  BY <1>0, OthersKept
<1>3. Len(disk) \in Nat /\ \A p \in DOMAIN files : files[p] \in 1..Len(disk)
  BY <1>0, DiskAfter DEF TypeOK, SpoolOK
<1>4. conn[h].idUser \in User /\ upload[id].user = conn[h].idUser
      /\ upload[id].size = conn[h].req.size
  BY <1>1, UploadOwner DEF UploadPC, IdInv
<1>5. CASE UNCHANGED disk /\ conn'[h].pc = "reply"
  <2>1. WritesAll'
    BY <1>1, <1>2, <1>5 DEF Written, WritesAll, Writing, At, UploadPath, exists
  <2>2. FilesBegin' /\ AckedWritten'
    BY <1>1, <1>5 DEF Written, FilesBegin, AckedWritten, Beginning, Whole, exists
  <2> QED BY <2>1, <2>2 DEF Written
<1>6. CASE /\ f \in 1..Len(disk) /\ f # NoFile
           /\ disk'[f] = Append(disk[f], <<id, n + 1>>)
           /\ \A i \in 1..Len(disk) : i # f => disk'[i] = disk[i]
           /\ conn'[h].pc = "receiving" /\ conn'[h].left = conn[h].left - 1
  <2>1. Writing(h) /\ UploadPath(h) = <<conn[h].idUser, id>>
    BY <1>1, <1>6 DEF Writing, At, UploadPath, getDocPath
  <2>2. n \in Nat /\ n + 1 \in Nat /\ n + 1 <= conn[h].req.size
        /\ conn[h].req.size - (conn[h].left - 1) = n + 1
    BY <1>1
  <2> HIDE DEF n
  <2>3. disk[f] = First(id, n)
    BY <2>1 DEF Written, WritesAll, n
  <2>4. disk'[f] = First(id, n + 1)
    BY <1>6, <2>2, <2>3, FirstFacts
  <2>5. \A g \in Handler : g # h /\ Writing(g) => conn[g].file # f /\ conn[g].file \in 1..Len(disk)
    <3>1. \A g \in Handler : g # h /\ Writing(g) => conn[g].file # f
      BY <2>1 DEF IdInv, FilesApart
    <3>2. \A g \in Handler : Writing(g) => conn[g].file \in 1..Len(disk)
      BY <1>3, ConnType DEF Writing, NoFile, Connection
    <3> QED BY <3>1, <3>2
  <2>6. \A p \in DOMAIN files : files[p] = f <=> p = UploadPath(h)
    BY <2>1 DEF IdInv, FilesApart
  <2> HIDE DEF f, id
  <2>7. ASSUME NEW g \in Handler, Writing(g)'
        PROVE  /\ disk'[conn'[g].file] = First(conn'[g].idPage, conn'[g].req.size - conn'[g].left)
               /\ UploadPath(g)' \in tried' \/ UploadPath(g)' \in DOMAIN files'
    <3>1. CASE g = h
      BY <1>1, <1>6, <2>1, <2>2, <2>4, <3>1 DEF Written, WritesAll, exists
    <3>2. CASE g # h
      <4>1. Writing(g) /\ UploadPath(g)' = UploadPath(g) /\ conn'[g] = conn[g]
        BY <1>2, <2>7, <3>2 DEF Writing, At, UploadPath
      <4> QED BY <1>1, <1>6, <2>5, <3>2, <4>1 DEF Written, WritesAll, exists
    <3> QED BY <3>1, <3>2
  <2>8. ASSUME NEW g \in Handler, At(g, "receiving")', conn'[g].file = NoFile
        PROVE  conn'[g].left = conn'[g].req.size /\ Fails("open")
    <3>1. g # h
      BY <1>1, <1>6, <2>8
    <3> QED BY <1>2, <2>8, <3>1 DEF Written, WritesAll, At
  <2>9. WritesAll'
    BY <2>7, <2>8 DEF WritesAll, exists
  <2>10. FilesBegin'
    <3> SUFFICES ASSUME NEW p \in DOMAIN files
                 PROVE  \E m \in 0..upload[p[2]].size : disk'[files[p]] = First(p[2], m)
      BY <1>1 DEF FilesBegin, Beginning
    <3>1. CASE p = UploadPath(h)
      <4>1. disk'[files[p]] = First(id, n + 1) /\ p[2] = id
        BY <2>1, <2>4, <2>6, <3>1
      <4>2. n + 1 \in 0..upload[id].size
        BY <1>1, <1>4, <2>2 DEF id
      <4> QED BY <4>1, <4>2
    <3>2. CASE p # UploadPath(h)
      <4>1. disk'[files[p]] = disk[files[p]]
        BY <1>3, <1>6, <2>6, <3>2
      <4> QED BY <4>1 DEF Written, FilesBegin, Beginning
    <3> QED BY <3>1, <3>2
  <2>11. AckedWritten'
    <3> SUFFICES ASSUME NEW a \in acked
                 PROVE  LET p == getDocPath(upload[a].user, a)
                        IN /\ p \in DOMAIN files => disk'[files[p]] = Whole(a)
                           /\ \/ p \in tried \/ p \in DOMAIN files
                              \/ upload[a].size = 0 /\ Fails("open")
      BY <1>1 DEF AckedWritten, Whole, exists
    <3>1. a # id
      BY <1>1 DEF IdInv, UploadsApart, id
    <3> DEFINE p == getDocPath(upload[a].user, a)
    <3>2. p # UploadPath(h)
      BY <2>1, <3>1 DEF getDocPath
    <3>3. p \in DOMAIN files => disk'[files[p]] = disk[files[p]]
      BY <1>3, <1>6, <2>6, <3>2
    <3> QED BY <3>3 DEF Written, AckedWritten, exists
  <2> QED BY <2>9, <2>10, <2>11 DEF Written
<1> QED BY <1>1, <1>5, <1>6

\* When all was received, all is in the file.
LEMMA EndWritten ==
  ASSUME TypeOK, IdInv, Written, NEW h \in Handler, ReceiveEnds(h)
  PROVE  Written'
<1> DEFINE id == conn[h].idPage
<1>1. /\ conn[h].pc = "receiving" /\ conn[h].left = 0 /\ acked' = acked \cup {id}
      /\ UNCHANGED <<files, disk, upload, tried>> /\ conn'[h].pc = "extracting"
  BY ConnType DEF ReceiveEnds, At, spool, Connection
<1>2. \A g \in Handler : g # h => conn'[g] = conn[g]
  BY OthersKept DEF Step
<1>3. /\ conn[h].req.size \in Nat /\ upload[id].size = conn[h].req.size
      /\ UploadPath(h) = getDocPath(upload[id].user, id)
  BY <1>1, UploadOwner, RequestFields DEF UploadPC, IdInv, UploadPath
<1>4. WritesAll'
  BY <1>1, <1>2 DEF Written, WritesAll, Writing, At, UploadPath, exists
<1>5. FilesBegin'
  BY <1>1 DEF Written, FilesBegin, Beginning
<1>6. LET path == UploadPath(h)
      IN /\ exists(path) => disk[files[path]] = Whole(id)
         /\ path \in tried \/ exists(path) \/ (upload[id].size = 0 /\ Fails("open"))
  <2>1. CASE conn[h].file # NoFile
    <3>1. Writing(h)
      BY <1>1, <2>1 DEF Writing, At
    <3>2. disk[conn[h].file] = First(id, upload[id].size)
          /\ (UploadPath(h) \in tried \/ exists(UploadPath(h)))
      <4>1. conn[h].req.size - conn[h].left = upload[id].size
        BY <1>1, <1>3
      <4> QED BY <3>1, <4>1 DEF Written, WritesAll
    <3>3. exists(UploadPath(h)) => files[UploadPath(h)] = conn[h].file
      BY <3>1 DEF IdInv, FilesApart, exists
    <3> QED BY <3>2, <3>3 DEF First, Whole
  <2>2. CASE conn[h].file = NoFile
    <3>1. ~exists(UploadPath(h))
      BY <1>1, <2>2 DEF IdInv, UploadsApart, FileUnmade, At
    <3> QED BY <1>1, <1>3, <2>2, <3>1 DEF Written, WritesAll, At
  <2> QED BY <2>1, <2>2
<1>7. AckedWritten'
  BY <1>1, <1>3, <1>6 DEF Written, AckedWritten, Whole, exists
<1> QED BY <1>4, <1>5, <1>7 DEF Written


\* Every step keeps the invariant of the files.
LEMMA NextWritten ==
  ASSUME "short" \notin Faults
  PROVE  TypeOK /\ IdInv /\ RemovalInv /\ Written /\ [Next]_vars => Written'
<1> SUFFICES ASSUME TypeOK, IdInv, RemovalInv, Written, [Next]_vars PROVE Written'
  OBVIOUS
<1>1. ASSUME NEW h \in Handler, Step(h) PROVE Written'
  BY <1>1, CalmWritten, OpenWritten, ChunkWritten, EndWritten DEF RemovalInv
<1>2. CASE \A h \in Handler : ~Step(h)
  <2>1. UNCHANGED <<files, disk, upload, acked, tried>>
    BY <1>2, OtherNext
  <2>2. \A g \in Handler : At(g, "receiving")' => conn'[g] = conn[g]
    BY <1>2, OtherNext DEF Idle, At
  <2>3. WritesAll'
    BY <2>1, <2>2 DEF Written, WritesAll, Writing, At, UploadPath, exists
  <2>4. FilesBegin' /\ AckedWritten'
    BY <2>1 DEF Written, FilesBegin, AckedWritten, Beginning, Whole, exists
  <2> QED BY <2>3, <2>4 DEF Written
<1> QED BY <1>1, <1>2

\* The inductive invariant of what the files hold.
THEOREM WrittenInvariance ==
  ASSUME "short" \notin Faults
  PROVE  Spec => []Written
<1>1. Init => Written
  BY InitWritten
<1> QED BY <1>1, NextWritten, TypeCorrect, IdInvariance, RemovalInvariance, PTL DEF Spec

\* If write() stores all it is given, a file holds a beginning of the one upload
\* its path names: no two uploads ever mix (proxy.cpp:211-219).
THEOREM FilesAreUploads ==
  ASSUME "short" \notin Faults
  PROVE  Spec => []FileOfOneUpload
<1>1. ASSUME TypeOK, IdInv, Written PROVE FileOfOneUpload
  <2> SUFFICES ASSUME NEW path \in DOMAIN files
               PROVE  upload[path[2]].user = path[1]
                      /\ IsPrefix(disk[files[path]], Whole(path[2]))
    BY DEF FileOfOneUpload
  <2>1. upload[path[2]].user = path[1] /\ upload[path[2]].size \in Nat
    BY <1>1 DEF IdInv, IdsGiven, TypeOK, SpoolOK, HistoryOK
  <2>2. Beginning(disk[files[path]], path[2])
    BY <1>1 DEF Written, FilesBegin
  <2> QED BY <2>1, <2>2, BeginningPrefix
<1> QED BY <1>1, TypeCorrect, IdInvariance, WrittenInvariance, PTL

\* A document whose upload was answered OK keeps its row and its whole file until
\* somebody asks for its removal, across every failure and every crash, if write()
\* stores all it is given, and open() succeeds or no document is empty: an empty
\* one is answered OK although its file was never made (proxy.cpp:211-252).
THEOREM AckedIsStored ==
  ASSUME "short" \notin Faults, 0 \notin Sizes \/ "open" \notin Faults
  PROVE  Spec => []AckedUploadStored
<1>1. ASSUME TypeOK, IdInv, RemovalInv, Written PROVE AckedUploadStored
  <2> SUFFICES ASSUME NEW id \in acked
               PROVE  LET path == getDocPath(upload[id].user, id)
                      IN \/ path \in tried
                         \/ /\ \E d \in document : d.id = id /\ d.user = upload[id].user
                            /\ exists(path) /\ disk[files[path]] = Whole(id)
    BY DEF AckedUploadStored
  <2>1. id \in Page /\ Known(id)
    BY <1>1 DEF TypeOK, HistoryOK, IdInv, IdsGiven, Known
  <2>2. ~(upload[id].size = 0 /\ Fails("open"))
    BY <1>1, <2>1 DEF IdInv, IdsGiven, Known, Fails
  <2>3. \/ getDocPath(upload[id].user, id) \in tried
        \/ \E d \in document : d.id = id /\ d.user = upload[id].user
    BY <1>1, <2>1 DEF RemovalInv, RowOrTried, IdInv, IdsGiven
  <2> QED BY <1>1, <2>2, <2>3 DEF Written, AckedWritten
<1> QED BY <1>1, TypeCorrect, IdInvariance, RemovalInvariance, WrittenInvariance, PTL


-----------------------------------------------------------------------------
(* What a search and a download deliver.                                   *)

\* A connection starts with nothing delivered; what a search for plain words found is
\* the user's.
FoundOwn(h) ==
  /\ conn[h].pc \in {"idle", "authenticated"} => conn[h].got = << >> /\ conn[h].found = {}
  /\ conn[h].req.op = "SEARCH" /\ conn[h].req.keywords = "plain" =>
       \A id \in conn[h].found : Known(id) /\ upload[id].user = conn[h].idUser

\* A download has a file of the document asked for open, the whole one if it is late.
SendsOwn(h) ==
  At(h, "sending") =>
    /\ upload[conn[h].req.idPage].user = conn[h].idUser
    /\ Beginning(disk[conn[h].file], conn[h].req.idPage)
    /\ \A g \in Handler : Writing(g) /\ conn[g].file = conn[h].file =>
         conn[g].idPage = conn[h].req.idPage
    /\ conn[h].late => /\ conn[h].req.idPage \in acked
                       /\ disk[conn[h].file] = Whole(conn[h].req.idPage)

\* It has sent a beginning of that document, and the whole of it if it said OK.
SentOwn(h) ==
  conn[h].req.op = "DOWNLOAD" =>
    /\ Beginning(conn[h].got, conn[h].req.idPage)
    /\ conn[h].got # << >> => upload[conn[h].req.idPage].user = conn[h].idUser
    /\ conn[h].pc \in {"reply", "closed"} /\ conn[h].answer = "OK" /\ conn[h].late =>
         conn[h].req.idPage \in acked /\ conn[h].got = Whole(conn[h].req.idPage)

DeliversOwn(h) == FoundOwn(h) /\ SendsOwn(h) /\ SentOwn(h)

Delivered == \A h \in Handler : DeliversOwn(h)

LEMMA InitDelivered == Init => Delivered
<1> SUFFICES ASSUME Init, NEW h \in Handler PROVE DeliversOwn(h)
  BY DEF Delivered
<1>1. conn[h] = Idle
  BY DEF Init
<1>2. /\ conn[h].pc = "idle" /\ conn[h].got = << >> /\ conn[h].found = {}
      /\ conn[h].req.op = "NONE"
  BY <1>1 DEF Idle, NoRequest
<1> QED BY <1>2 DEF DeliversOwn, FoundOwn, SendsOwn, SentOwn, At

\* Steps that deliver nothing.
LEMMA QuietSteps ==
  ASSUME TypeOK, IdInv, NEW h \in Handler, Step(h), ~(\E r \in Request : ReadRequest(h, r)),
         ~PeerStalls(h), ~Hangup(h), ~Search(h), ~OpenDownload(h), ~SendChunk(h)
  PROVE  /\ conn'[h].idUser = conn[h].idUser /\ conn'[h].req = conn[h].req
         /\ conn'[h].found = conn[h].found
         /\ conn[h].req.op = "DOWNLOAD" =>
              /\ conn'[h].got = conn[h].got
              /\ conn'[h].answer = "OK" /\ conn'[h].pc \in {"reply", "closed"} =>
                   conn[h].pc = "reply" /\ conn[h].answer = "OK" /\ conn'[h].late = conn[h].late
<1> DEFINE Quiet ==
         /\ conn'[h].idUser = conn[h].idUser /\ conn'[h].req = conn[h].req
         /\ conn'[h].found = conn[h].found
         /\ conn[h].req.op = "DOWNLOAD" =>
              /\ conn'[h].got = conn[h].got
              /\ conn'[h].answer = "OK" /\ conn'[h].pc \in {"reply", "closed"} =>
                   conn[h].pc = "reply" /\ conn[h].answer = "OK" /\ conn'[h].late = conn[h].late
<1>1. conn \in [Handler -> Connection] /\ conn[h] \in Connection /\ Consistent(conn[h])
  BY ConnType
<1>2. ASSUME NEW response, Answer(h, response), response # "OK" \/ conn[h].req.op # "DOWNLOAD"
      PROVE  Quiet
  BY <1>1, <1>2 DEF Answer, Connection
<1>3. ASSUME NEW label, Goto(h, label), conn[h].req.op # "DOWNLOAD" \/ conn[h].pc = "reply"
      PROVE  Quiet
  BY <1>1, <1>3 DEF Goto, Connection
<1>4. conn[h].pc \in UploadPC => conn[h].req.op = "UPLOAD"
  BY <1>1 DEF Consistent, UploadPC
<1>5. CASE BadRequest(h) \/ Reply(h)
  BY <1>2, <1>3, <1>5 DEF BadRequest, Reply, At
<1>6. CASE ListCompanies(h) \/ NewCompany(h) \/ RemoveCompany(h)
  BY <1>2, <1>6 DEF ListCompanies, NewCompany, RemoveCompany, Statement, Exec
<1>7. CASE RemoveRow(h) \/ RemoveFile(h)
  <2>1. conn[h].req.op = "REMOVE_DOCUMENT"
    BY <1>1, <1>7 DEF RemoveRow, RemoveFile, Exec, At, Consistent
  <2> QED BY <1>7, <2>1, RemoveRowEffect, RemoveFileEffect
<1>8. CASE InsertDocument(h)
  BY <1>8, InsertConn
<1>9. CASE OpenUpload(h)
  <2>1. ASSUME NEW f, conn' = [conn EXCEPT ![h].pc = "receiving", ![h].file = f,
                                         ![h].left = conn[h].req.size]
        PROVE  Quiet
    BY <1>1, <2>1 DEF Connection
  <2> QED BY <1>9, <2>1 DEF OpenUpload
<1>10. CASE ReceiveChunk(h)
  BY <1>4, <1>10, ReceiveChunkEffect, "UPLOAD" # "DOWNLOAD" DEF UploadPC
<1>11. CASE ReceiveStops(h)
  BY <1>2, <1>3, <1>4, <1>11 DEF ReceiveStops, At, UploadPC
<1>12. CASE ReceiveEnds(h)
  BY <1>1, <1>4, <1>12 DEF ReceiveEnds, At, UploadPC, Connection
<1>13. CASE Extract(h)
  <2>1. conn[h].req.op = "UPLOAD"
    BY <1>4, <1>13 DEF Extract, At, UploadPC
  <2>2. ASSUME NEW text, conn' = [conn EXCEPT ![h].pc = "indexing", ![h].got = text]
        PROVE  Quiet
    BY <1>1, <2>1, <2>2 DEF Connection
  <2> QED BY <1>3, <1>13, <2>1, <2>2 DEF Extract
<1>14. CASE Index(h)
  BY <1>3, <1>4, <1>14 DEF Index, At, UploadPC
<1> QED
  BY <1>5, <1>6, <1>7, <1>8, <1>9, <1>10, <1>11, <1>12, <1>13, <1>14 DEF Step


\* A late download has an acknowledged document; what is acknowledged stays so.
LEMMA HistoryKept ==
  ASSUME TypeOK, IdInv, NEW h \in Handler, Step(h)
  PROVE  /\ acked \subseteq acked'
         /\ \A id \in Page : \A s : Beginning(s, id) /\ (Known(id) \/ s = << >>) =>
              \E n \in 0..upload'[id].size : s = First(id, n)
         /\ \A id \in Page : Known(id) => upload'[id] = upload[id]
<1>1. acked \subseteq acked'
  BY AckedAfter
<1>2. \A id \in Page : Known(id) => upload'[id] = upload[id]
  BY UploadKept
<1>3. \A id \in Page : upload'[id].size \in Nat
  BY NextType DEF TypeOK, HistoryOK, Next
<1>4. ASSUME NEW id \in Page PROVE << >> = First(id, 0) /\ 0 \in 0..upload'[id].size
  BY <1>3 DEF First
<1>5. ASSUME NEW id \in Page, NEW s, Beginning(s, id), Known(id) \/ s = << >>
      PROVE  \E n \in 0..upload'[id].size : s = First(id, n)
  BY <1>2, <1>4, <1>5 DEF Beginning
<1> QED BY <1>1, <1>2, <1>5

\* What the request of a download names.
LEMMA DownloadPage ==
  ASSUME TypeOK, NEW h \in Handler, conn[h].req.op = "DOWNLOAD"
  PROVE  conn[h].req.idPage \in Page /\ conn[h].idUser \in User
<1>1. conn[h].req \in Request
  BY ConnType DEF Connection, NoRequest
<1>2. conn[h].req.idPage \in Page /\ conn[h].req # NoRequest
  BY <1>1, RequestFields
<1> QED BY <1>2, ConnType DEF Consistent

\* What the others have delivered, and are delivering, stays their own.
LEMMA OthersDelivered ==
  ASSUME "short" \notin Faults, TypeOK, IdInv, Written, NEW h \in Handler, Step(h),
         NEW g \in Handler, g # h, DeliversOwn(g)
  PROVE  DeliversOwn(g)'
<1> DEFINE id == conn[g].req.idPage
           i  == conn[g].file
<1>1. conn'[g] = conn[g]
  BY OthersKept
<1>2. /\ acked \subseteq acked'
      /\ \A p \in Page : \A s : Beginning(s, p) /\ (Known(p) \/ s = << >>) =>
           \E n \in 0..upload'[p].size : s = First(p, n)
      /\ \A p \in Page : Known(p) => upload'[p] = upload[p]
  BY HistoryKept
<1>3. FoundOwn(g)'
  <2>1. conn[g].found \subseteq Page
    BY ConnType DEF Connection
  <2> QED BY <1>1, <1>2, <2>1 DEF DeliversOwn, FoundOwn, Known
<1>4. SentOwn(g)'
  <2> SUFFICES ASSUME conn[g].req.op = "DOWNLOAD"
               PROVE  /\ \E n \in 0..upload'[id].size : conn[g].got = First(id, n)
                      /\ conn[g].got # << >> => upload'[id].user = conn[g].idUser
                      /\ /\ conn[g].pc \in {"reply", "closed"} /\ conn[g].answer = "OK"
                         /\ conn[g].late
                         => /\ id \in acked'
                            /\ conn[g].got = [k \in 1..upload'[id].size |-> <<id, k>>]
    BY <1>1 DEF SentOwn, Beginning, Whole
  <2>1. id \in Page /\ conn[g].idUser \in User
    BY DownloadPage
  <2>2. conn[g].got # << >> => Known(id)
    BY <2>1, NobodyAssumption DEF DeliversOwn, SentOwn, Known
  <2>3. id \in acked => Known(id)
    BY DEF IdInv, IdsGiven, Known
  <2> QED BY <1>2, <2>1, <2>2, <2>3 DEF DeliversOwn, SentOwn, Whole
<1>5. SendsOwn(g)'
  <2> SUFFICES ASSUME At(g, "sending")
               PROVE  /\ upload'[id].user = conn[g].idUser
                      /\ \E n \in 0..upload'[id].size : disk'[i] = First(id, n)
                      /\ \A f \in Handler : Writing(f)' /\ conn'[f].file = i =>
                           conn'[f].idPage = id
                      /\ conn[g].late =>
                           id \in acked' /\ disk'[i] = [k \in 1..upload'[id].size |-> <<id, k>>]
    BY <1>1 DEF SendsOwn, Beginning, Whole, At
  <2>1. conn[g].req.op = "DOWNLOAD" /\ i # NoFile
    BY ConnType DEF Consistent, At
  <2>2. id \in Page /\ conn[g].idUser \in User
    BY <2>1, DownloadPage
  <2>3. Known(id) /\ upload'[id] = upload[id]
    BY <1>2, <2>2, NobodyAssumption DEF DeliversOwn, SendsOwn, Known
  <2>4. Len(disk) \in Nat /\ i \in 1..Len(disk)
    BY <2>1, DiskAfter, ConnType DEF Connection, NoFile
  <2>5. /\ upload[id].user = conn[g].idUser /\ Beginning(disk[i], id)
        /\ \A f \in Handler : Writing(f) /\ conn[f].file = i => conn[f].idPage = id
        /\ conn[g].late => id \in acked /\ disk[i] = Whole(id)
    BY DEF DeliversOwn, SendsOwn
  <2> HIDE DEF id, i
  <2>6. ASSUME NEW f \in Handler, Writing(f)', conn'[f].file = i PROVE conn'[f].idPage = id
    <3>1. CASE f = h /\ OpenUpload(h)
      <4>1. conn'[h].file = Len(disk) + 1 \/ conn'[h].file = NoFile
        BY <3>1, OpenUploadEffect DEF IdInv
      <4> QED BY <2>4, <2>6, <3>1, <4>1 DEF NoFile
    <3>2. CASE f = h /\ ReceiveChunk(h)
      <4>1. conn[h].pc = "receiving" /\ conn'[h].file = conn[h].file
            /\ conn'[h].idPage = conn[h].idPage
        BY <3>2, ReceiveChunkEffect
      <4>2. Writing(h)
        BY <2>6, <3>2, <4>1 DEF Writing, At
      <4> QED BY <2>5, <2>6, <3>2, <4>1, <4>2
    <3>3. CASE f = h /\ ~OpenUpload(h) /\ ~ReceiveChunk(h)
      BY <2>6, <3>3, PcAfter DEF Writing, At
    <3>4. CASE f # h
      BY <2>5, <2>6, <3>4, OthersKept DEF Writing, At
    <3> QED BY <3>1, <3>2, <3>3, <3>4
  <2>7. CASE disk'[i] = disk[i]
    BY <1>2, <2>3, <2>5, <2>6, <2>7 DEF Beginning, Whole
  <2>8. ASSUME ReceiveChunk(h), disk'[i] # disk[i]
        PROVE  ~conn[g].late /\ \E n \in 0..upload[id].size : disk'[i] = First(id, n)
    <3>1. /\ conn[h].pc = "receiving" /\ conn[h].left \in Nat /\ conn[h].left > 0
          /\ conn[h].req.size \in Nat /\ conn[h].left <= conn[h].req.size
          /\ i = conn[h].file /\ i # NoFile
          /\ disk'[i] = Append(disk[i], <<conn[h].idPage, conn[h].req.size - conn[h].left + 1>>)
      BY <2>4, <2>8, ReceiveChunkEffect
    <3>2. Writing(h) /\ conn[h].idPage = id
      BY <2>5, <3>1 DEF Writing, At
    <3>3. upload[id].size = conn[h].req.size
      BY <3>1, <3>2, UploadOwner DEF UploadPC, IdInv
    <3> DEFINE n == conn[h].req.size - conn[h].left
    <3>4. n \in Nat /\ n + 1 \in 0..upload[id].size
      BY <3>1, <3>3
    <3>5. disk[i] = First(id, n)
      BY <3>1, <3>2 DEF Written, WritesAll
    <3> HIDE DEF n
    <3>6. disk'[i] = First(id, n + 1)
      BY <3>1, <3>2, <3>4, <3>5, FirstFacts DEF n
    <3>7. id \notin acked
      BY <3>1, <3>2 DEF IdInv, UploadsApart
    <3> QED BY <2>5, <3>4, <3>6, <3>7
  <2>9. CASE disk'[i] # disk[i]
    <3>1. ReceiveChunk(h)
      BY <2>4, <2>9, DiskAfter
    <3> QED BY <2>3, <2>5, <2>6, <2>8, <2>9, <3>1
  <2> QED BY <2>7, <2>9
<1> QED BY <1>3, <1>4, <1>5 DEF DeliversOwn


\* Such a step keeps what its own connection has delivered.
LEMMA QuietDelivered ==
  ASSUME TypeOK, IdInv, NEW h \in Handler, Step(h), ~(\E r \in Request : ReadRequest(h, r)),
         ~PeerStalls(h), ~Hangup(h), ~Search(h), ~OpenDownload(h), ~SendChunk(h),
         DeliversOwn(h)
  PROVE  DeliversOwn(h)'
<1> DEFINE id == conn[h].req.idPage
<1>1. /\ acked \subseteq acked'
      /\ \A p \in Page : \A s : Beginning(s, p) /\ (Known(p) \/ s = << >>) =>
           \E n \in 0..upload'[p].size : s = First(p, n)
      /\ \A p \in Page : Known(p) => upload'[p] = upload[p]
  BY HistoryKept
<1>2. conn'[h].pc \notin {"idle", "authenticated", "sending"}
  BY PcAfter
<1>3. /\ conn'[h].idUser = conn[h].idUser /\ conn'[h].req = conn[h].req
      /\ conn'[h].found = conn[h].found
  BY QuietSteps
<1>4. FoundOwn(h)'
  <2>1. conn[h].found \subseteq Page
    BY ConnType DEF Connection
  <2> QED BY <1>1, <1>2, <1>3, <2>1 DEF DeliversOwn, FoundOwn, Known
<1>5. SentOwn(h)'
  <2> SUFFICES ASSUME conn[h].req.op = "DOWNLOAD"
               PROVE  /\ \E n \in 0..upload'[id].size : conn'[h].got = First(id, n)
                      /\ conn'[h].got # << >> => upload'[id].user = conn[h].idUser
                      /\ /\ conn'[h].pc \in {"reply", "closed"} /\ conn'[h].answer = "OK"
                         /\ conn'[h].late
                         => /\ id \in acked'
                            /\ conn'[h].got = [k \in 1..upload'[id].size |-> <<id, k>>]
    BY <1>3 DEF SentOwn, Beginning, Whole
  <2>1. id \in Page /\ conn[h].idUser \in User
    BY DownloadPage
  <2>2. conn[h].got # << >> => Known(id)
    BY <2>1, NobodyAssumption DEF DeliversOwn, SentOwn, Known
  <2>3. id \in acked => Known(id)
    BY DEF IdInv, IdsGiven, Known
  <2>4. /\ conn'[h].got = conn[h].got
        /\ conn'[h].answer = "OK" /\ conn'[h].pc \in {"reply", "closed"} =>
             conn[h].pc = "reply" /\ conn[h].answer = "OK" /\ conn'[h].late = conn[h].late
    BY QuietSteps
  <2> QED BY <1>1, <2>1, <2>2, <2>3, <2>4 DEF DeliversOwn, SentOwn, Whole
<1> QED BY <1>2, <1>4, <1>5 DEF DeliversOwn, SendsOwn, At

\* A search for plain words finds rows of its user only.
LEMMA SearchDelivers ==
  ASSUME TypeOK, IdInv, NEW h \in Handler, Search(h), DeliversOwn(h)
  PROVE  DeliversOwn(h)'
<1>1. ASSUME NEW ids,
             conn' = [conn EXCEPT ![h].pc = "reply", ![h].found = ids, ![h].answer = "OK"]
      PROVE  /\ conn'[h].pc = "reply" /\ conn'[h].found = ids
             /\ conn'[h].req = conn[h].req /\ conn'[h].idUser = conn[h].idUser
  BY <1>1, ConnType DEF Connection
<1>2. /\ conn[h].req.op = "SEARCH" /\ upload' = upload
      /\ conn'[h].pc = "reply"
      /\ conn[h].req.keywords = "plain" =>
           conn'[h].found \subseteq search(conn[h].idUser, conn[h].req.name)
      /\ conn'[h].req = conn[h].req /\ conn'[h].idUser = conn[h].idUser
  <2>1. \E ids \in Selected(h) :
          conn' = [conn EXCEPT ![h].pc = "reply", ![h].found = ids, ![h].answer = "OK"]
    BY DEF Search
  <2>2. PICK ids \in Selected(h) :
          conn' = [conn EXCEPT ![h].pc = "reply", ![h].found = ids, ![h].answer = "OK"]
    BY <2>1
  <2>3. /\ conn'[h].pc = "reply" /\ conn'[h].found = ids
        /\ conn'[h].req = conn[h].req /\ conn'[h].idUser = conn[h].idUser
    BY <1>1, <2>2
  <2>4. conn[h].req.keywords = "plain" =>
          conn'[h].found \subseteq search(conn[h].idUser, conn[h].req.name)
    BY <2>2, <2>3 DEF Selected
  <2>5. conn[h].req.op = "SEARCH"
    BY DEF Search, Exec
  <2>6. upload' = upload
    BY DEF Search, history
  <2> QED BY <2>3, <2>4, <2>5, <2>6
<1>3. \A id \in search(conn[h].idUser, conn[h].req.name) :
        Known(id) /\ upload[id].user = conn[h].idUser
  <2>1. \A d \in document : d.user \in User /\ upload[d.id].user = d.user
    BY DEF TypeOK, TablesOK, IdInv, IdsGiven
  <2> QED BY <2>1, NobodyAssumption DEF search, Known
<1> QED BY <1>2, <1>3 DEF DeliversOwn, FoundOwn, SendsOwn, SentOwn, At, Known

\* The file of the path that names the user and the document asked for.
LEMMA OpenDownloadDelivers ==
  ASSUME TypeOK, IdInv, Written, NEW h \in Handler, OpenDownload(h), DeliversOwn(h)
  PROVE  DeliversOwn(h)'
<1> DEFINE id == conn[h].req.idPage
           path == getDocPath(conn[h].idUser, id)
<1>1. conn \in [Handler -> Connection] /\ conn[h] \in Connection
  BY ConnType
<1>2. /\ conn[h].pc = "exec" /\ conn[h].req.op = "DOWNLOAD"
      /\ UNCHANGED <<files, disk, upload, acked>>
  BY DEF OpenDownload, Exec, At, spool, history
<1>3. id \in Page /\ conn[h].idUser \in User
  BY <1>2, DownloadPage
<1>4. CASE Answer(h, "INTERNAL_ERROR")
  <2>1. /\ conn'[h].pc = "reply" /\ conn'[h].answer = "INTERNAL_ERROR"
        /\ conn'[h].got = conn[h].got /\ conn'[h].found = conn[h].found
        /\ conn'[h].req = conn[h].req /\ conn'[h].idUser = conn[h].idUser
    BY <1>1, <1>4 DEF Answer, Connection
  <2> QED BY <1>2, <2>1 DEF DeliversOwn, FoundOwn, SendsOwn, SentOwn, At, Known, Beginning
<1>5. CASE /\ exists(path)
           /\ conn' = [conn EXCEPT ![h].pc = "sending", ![h].file = files[path],
                                   ![h].answer = "OK", ![h].late = id \in acked]
  <2>1. ASSUME NEW f, NEW late,
               conn' = [conn EXCEPT ![h].pc = "sending", ![h].file = f,
                                    ![h].answer = "OK", ![h].late = late]
        PROVE  /\ conn'[h].pc = "sending" /\ conn'[h].file = f /\ conn'[h].late = late
               /\ conn'[h].got = conn[h].got /\ conn'[h].found = conn[h].found
               /\ conn'[h].req = conn[h].req /\ conn'[h].idUser = conn[h].idUser
               /\ \A g \in Handler : g # h => conn'[g] = conn[g]
    BY <1>1, <2>1 DEF Connection
  <2>2. /\ conn'[h].pc = "sending" /\ conn'[h].file = files[path]
        /\ conn'[h].late = (id \in acked)
        /\ conn'[h].got = conn[h].got /\ conn'[h].found = conn[h].found
        /\ conn'[h].req = conn[h].req /\ conn'[h].idUser = conn[h].idUser
        /\ \A g \in Handler : g # h => conn'[g] = conn[g]
    <3> DEFINE f == files[path]
               late == id \in acked
    <3>1. conn' = [conn EXCEPT ![h].pc = "sending", ![h].file = f,
                               ![h].answer = "OK", ![h].late = late]
      BY <1>5
    <3> HIDE DEF f, late
    <3>2. /\ conn'[h].pc = "sending" /\ conn'[h].file = f /\ conn'[h].late = late
          /\ conn'[h].got = conn[h].got /\ conn'[h].found = conn[h].found
          /\ conn'[h].req = conn[h].req /\ conn'[h].idUser = conn[h].idUser
          /\ \A g \in Handler : g # h => conn'[g] = conn[g]
      BY <2>1, <3>1
    <3> QED BY <3>2 DEF f, late
  <2>3. path \in DOMAIN files /\ path[2] = id /\ path[1] = conn[h].idUser
    BY <1>5 DEF exists, getDocPath
  <2>4. upload[id].user = conn[h].idUser
    BY <2>3 DEF IdInv, IdsGiven
  <2>5. Beginning(disk[files[path]], id)
    BY <2>3 DEF Written, FilesBegin
  <2>6. id \in acked => disk[files[path]] = Whole(id)
    BY <2>3, <2>4 DEF Written, AckedWritten, exists
  <2>7. \A g \in Handler : Writing(g) /\ conn[g].file = files[path] => conn[g].idPage = id
    BY <2>3 DEF IdInv, FilesApart, UploadPath, getDocPath
  <2> HIDE DEF path, id
  <2>8. \A g \in Handler : Writing(g)' => g # h /\ Writing(g) /\ conn'[g] = conn[g]
    BY <2>2 DEF Writing, At
  <2>9. SendsOwn(h)'
    BY <1>2, <2>2, <2>4, <2>5, <2>6, <2>7, <2>8 DEF SendsOwn, Beginning, Whole, id
  <2>10. FoundOwn(h)' /\ SentOwn(h)'
    BY <1>2, <2>2 DEF DeliversOwn, FoundOwn, SentOwn, Known, Beginning
  <2> QED BY <2>9, <2>10 DEF DeliversOwn
<1> QED BY <1>4, <1>5 DEF OpenDownload

\* The next chunk of the file continues what was sent.
LEMMA SendChunkDelivers ==
  ASSUME TypeOK, IdInv, NEW h \in Handler, SendChunk(h), DeliversOwn(h)
  PROVE  DeliversOwn(h)'
<1> DEFINE id == conn[h].req.idPage
           i  == conn[h].file
           c  == conn[h]
<1>1. conn \in [Handler -> Connection] /\ conn[h] \in Connection
  BY ConnType
<1>2. /\ conn[h].pc = "sending" /\ conn[h].req.op = "DOWNLOAD"
      /\ UNCHANGED <<files, disk, upload, acked>>
  BY ConnType DEF SendChunk, At, Consistent, spool, history
<1>3. id \in Page /\ conn[h].idUser \in User /\ upload[id].size \in Nat
  BY <1>2, DownloadPage DEF TypeOK, HistoryOK
<1>4. PICK m \in 0..upload[id].size : conn[h].got = First(id, m)
  BY <1>2 DEF DeliversOwn, SentOwn, Beginning
<1>5. PICK n \in 0..upload[id].size : disk[i] = First(id, n)
  BY <1>2 DEF DeliversOwn, SendsOwn, Beginning, At
<1>6. /\ upload[id].user = conn[h].idUser
      /\ \A g \in Handler : Writing(g) /\ conn[g].file = i => conn[g].idPage = id
      /\ conn[h].late => id \in acked /\ disk[i] = Whole(id)
  BY <1>2 DEF DeliversOwn, SendsOwn, At
<1>7. /\ m \in Nat /\ n \in Nat /\ Len(conn[h].got) = m /\ Len(disk[i]) = n
      /\ \A k \in 1..n : disk[i][k] = <<id, k>>
      /\ Append(First(id, m), <<id, m + 1>>) = First(id, m + 1)
  <2>1. m \in Nat /\ n \in Nat
    BY <1>3
  <2> QED BY <1>4, <1>5, <2>1, FirstFacts
<1>8. \A g \in Handler : g # h => conn'[g] = conn[g]
  BY OthersKept DEF Step
<1>9. CASE /\ m < n
           /\ conn' = [conn EXCEPT ![h].got = Append(@, disk[i][m + 1])]
  <2> DEFINE got == First(id, m + 1)
  <2>1. disk[i][m + 1] = <<id, m + 1>>
    BY <1>7, <1>9
  <2>2. Append(conn[h].got, disk[i][m + 1]) = got
    BY <1>4, <1>7, <2>1
  <2>3. m + 1 \in 0..upload[id].size
    BY <1>3, <1>7, <1>9
  <2> HIDE DEF got
  <2>4. conn' = [conn EXCEPT ![h].got = got]
    BY <1>1, <1>9, <2>2
  <2>5. /\ conn'[h].pc = "sending" /\ conn'[h].got = got /\ conn'[h].file = i
        /\ conn'[h].req = conn[h].req /\ conn'[h].idUser = conn[h].idUser
        /\ conn'[h].found = conn[h].found /\ conn'[h].late = conn[h].late
    BY <1>1, <1>2, <2>4 DEF Connection
  <2>6. \A g \in Handler : Writing(g)' => g # h /\ Writing(g) /\ conn'[g] = conn[g]
    BY <1>8, <2>5 DEF Writing, At
  <2>7. SendsOwn(h)'
    BY <1>2, <1>5, <1>6, <2>5, <2>6 DEF SendsOwn, Beginning, Whole
  <2>8. FoundOwn(h)'
    BY <1>2, <2>5 DEF DeliversOwn, FoundOwn, Known
  <2>9. SentOwn(h)'
    BY <1>2, <1>6, <2>3, <2>5 DEF SentOwn, Beginning, got
  <2> QED BY <2>7, <2>8, <2>9 DEF DeliversOwn
<1>10. ASSUME conn'[h].pc = "reply", conn'[h].got = conn[h].got,
              conn'[h].req = conn[h].req, conn'[h].idUser = conn[h].idUser,
              conn'[h].found = conn[h].found, conn'[h].late = conn[h].late,
              conn'[h].answer # "OK" \/ m >= n
       PROVE  DeliversOwn(h)'
  <2>1. m >= n /\ conn[h].late => conn[h].got = Whole(id) /\ id \in acked
    <3> SUFFICES ASSUME m >= n, conn[h].late PROVE conn[h].got = Whole(id)
      BY <1>6
    <3>1. Whole(id) = First(id, upload[id].size)
      BY DEF Whole, First
    <3>2. First(id, n) = First(id, upload[id].size)
      BY <1>5, <1>6, <3>1
    <3>3. n = upload[id].size
      <4>1. Len(First(id, n)) = n /\ Len(First(id, upload[id].size)) = upload[id].size
        BY <1>3, <1>7, FirstFacts
      <4> QED BY <3>2, <4>1
    <3>4. m = n
      BY <1>3, <1>7, <3>3
    <3> QED BY <1>4, <3>1, <3>3, <3>4
  <2>2. SentOwn(h)'
    BY <1>2, <1>4, <1>6, <1>10, <2>1 DEF SentOwn, Beginning, Whole
  <2>3. FoundOwn(h)' /\ SendsOwn(h)'
    BY <1>2, <1>10 DEF DeliversOwn, FoundOwn, SendsOwn, Known, At
  <2> QED BY <2>2, <2>3 DEF DeliversOwn
<1>11. CASE m >= n /\ Goto(h, "reply")
  <2>1. /\ conn'[h].pc = "reply" /\ conn'[h].got = conn[h].got
        /\ conn'[h].req = conn[h].req /\ conn'[h].idUser = conn[h].idUser
        /\ conn'[h].found = conn[h].found /\ conn'[h].late = conn[h].late
    BY <1>1, <1>11 DEF Goto, Connection
  <2> QED BY <1>10, <1>11, <2>1
<1>12. CASE Answer(h, "INTERNAL_ERROR")
  <2>1. /\ conn'[h].pc = "reply" /\ conn'[h].got = conn[h].got
        /\ conn'[h].req = conn[h].req /\ conn'[h].idUser = conn[h].idUser
        /\ conn'[h].found = conn[h].found /\ conn'[h].late = conn[h].late
        /\ conn'[h].answer # "OK"
    BY <1>1, <1>12 DEF Answer, Connection
  <2> QED BY <1>10, <2>1
<1> QED BY <1>7, <1>9, <1>11, <1>12 DEF SendChunk


\* Every step keeps the invariant of what is delivered.
LEMMA NextDelivered ==
  ASSUME "short" \notin Faults
  PROVE  TypeOK /\ IdInv /\ Written /\ Delivered /\ [Next]_vars => Delivered'
<1> SUFFICES ASSUME TypeOK, IdInv, Written, Delivered, [Next]_vars, NEW g \in Handler
             PROVE  DeliversOwn(g)'
  BY DEF Delivered
<1>0. DeliversOwn(g)
  BY DEF Delivered
<1>1. ASSUME NEW h \in Handler, Step(h), g # h PROVE DeliversOwn(g)'
  BY <1>0, <1>1, OthersDelivered
<1>2. CASE Step(g)
  <2>1. CASE \E r \in Request : ReadRequest(g, r)
    <3>1. PICK r \in Request : ReadRequest(g, r)
      BY <2>1
    <3>2. /\ conn[g].pc = "authenticated" /\ conn'[g].pc = "exec" /\ conn'[g].req = r
          /\ conn'[g].got = conn[g].got /\ conn'[g].found = conn[g].found
      BY <3>1, ConnType DEF ReadRequest, At, Connection
    <3>3. conn'[g].got = << >> /\ conn'[g].found = {}
      BY <1>0, <3>2 DEF DeliversOwn, FoundOwn
    <3>4. r.op = "DOWNLOAD" => r.idPage \in Page
      BY RequestFields
    <3>5. \A p \in Page : << >> = First(p, 0) /\ 0 \in 0..upload'[p].size
      <4>1. \A p \in Page : upload'[p].size \in Nat
        BY NextType DEF TypeOK, HistoryOK
      <4> QED BY <4>1 DEF First
    <3> QED BY <3>2, <3>3, <3>4, <3>5 DEF DeliversOwn, FoundOwn, SendsOwn, SentOwn, At, Beginning
  <2>2. CASE PeerStalls(g) \/ Hangup(g)
    <3>1. /\ conn'[g].pc \in {"idle", "stuck"} /\ conn'[g].got = << >> /\ conn'[g].found = {}
          /\ conn'[g].req.op = "NONE"
      BY <2>2, ConnType DEF PeerStalls, Hangup, Idle, NoRequest
    <3> QED BY <3>1 DEF DeliversOwn, FoundOwn, SendsOwn, SentOwn, At
  <2> QED BY <1>0, <1>2, <2>1, <2>2, SearchDelivers, OpenDownloadDelivers, SendChunkDelivers,
             QuietDelivered
<1>3. CASE \A h \in Handler : ~Step(h)
  <2>1. UNCHANGED <<disk, upload, acked>>
    BY <1>3, OtherNext
  <2>2. \/ conn'[g] = conn[g]
        \/ conn'[g] = Idle
        \/ /\ conn[g].pc = "idle" /\ conn'[g].req = conn[g].req
           /\ conn'[g].got = conn[g].got /\ conn'[g].found = conn[g].found
           /\ \/ conn'[g].pc = "authenticated"
              \/ /\ conn'[g].pc = "reply" /\ conn'[g].answer = "INTERNAL_ERROR"
                 /\ conn'[g].idUser = conn[g].idUser
    BY <1>3, OtherNext
  <2>3. \A f \in Handler : Writing(f)' => Writing(f) /\ conn'[f] = conn[f]
    BY <1>3, OtherNext DEF Writing, At, Idle
  <2>4. CASE conn'[g] = conn[g]
    BY <1>0, <2>1, <2>3, <2>4
    DEF DeliversOwn, FoundOwn, SendsOwn, SentOwn, At, Known, Beginning, Whole
  <2>5. CASE conn'[g] = Idle
    <3>1. /\ conn'[g].pc = "idle" /\ conn'[g].got = << >> /\ conn'[g].found = {}
          /\ conn'[g].req.op = "NONE"
      BY <2>5 DEF Idle, NoRequest
    <3> QED BY <3>1 DEF DeliversOwn, FoundOwn, SendsOwn, SentOwn, At
  <2>6. CASE conn[g].pc = "idle" /\ conn'[g].pc \in {"authenticated", "reply"}
             /\ conn'[g].req = conn[g].req
             /\ conn'[g].got = conn[g].got /\ conn'[g].found = conn[g].found
             /\ (conn'[g].pc = "reply" => conn'[g].answer = "INTERNAL_ERROR")
    <3>1. conn'[g].got = << >> /\ conn'[g].found = {} /\ conn[g].got = << >>
      BY <1>0, <2>6 DEF DeliversOwn, FoundOwn
    <3> QED BY <1>0, <2>1, <2>6, <3>1 DEF DeliversOwn, FoundOwn, SendsOwn, SentOwn, At, Beginning
  <2> QED BY <2>2, <2>4, <2>5, <2>6
<1> QED BY <1>1, <1>2, <1>3

\* The inductive invariant of what searches and downloads deliver.
THEOREM DeliveredInvariance ==
  ASSUME "short" \notin Faults
  PROVE  Spec => []Delivered
<1>1. Init => Delivered
  BY InitDelivered
<1> QED BY <1>1, NextDelivered, TypeCorrect, IdInvariance, WrittenInvariance, PTL DEF Spec

\* A search for words without a quotation mark finds, and a download sends, what the
\* requesting user uploaded, and a download only a beginning of the document asked for
\* (proxy.cpp:62-105, 131-175); of other keywords nothing is claimed, as they change
\* the statement (database.cpp:106-113).
THEOREM DeliversOwnData ==
  ASSUME "short" \notin Faults
  PROVE  Spec => []OnlyOwnData
<1>1. ASSUME TypeOK, Delivered PROVE OnlyOwnData
  <2> SUFFICES ASSUME NEW h \in Handler
               PROVE  /\ conn[h].req.op = "SEARCH" /\ conn[h].req.keywords = "plain" =>
                           \A id \in conn[h].found : upload[id].user = conn[h].idUser
                      /\ conn[h].req.op = "DOWNLOAD" /\ conn[h].got # << >> =>
                           /\ upload[conn[h].req.idPage].user = conn[h].idUser
                           /\ IsPrefix(conn[h].got, Whole(conn[h].req.idPage))
    BY DEF OnlyOwnData
  <2>1. DeliversOwn(h)
    BY <1>1 DEF Delivered
  <2>2. conn[h].req.op = "DOWNLOAD" => upload[conn[h].req.idPage].size \in Nat
    BY <1>1, DownloadPage DEF TypeOK, HistoryOK
  <2> QED BY <2>1, <2>2, BeginningPrefix DEF DeliversOwn, FoundOwn, SentOwn
<1> QED BY <1>1, TypeCorrect, DeliveredInvariance, PTL

\* A download that began after the OK of the upload and ended without an error
\* sent the whole document, even one that is removed meanwhile: the open file
\* keeps what the path has lost (proxy.cpp:131-175).
THEOREM LateDownloads ==
  ASSUME "short" \notin Faults
  PROVE  Spec => []LateDownloadWhole
<1>1. Delivered => LateDownloadWhole
  BY DEF Delivered, DeliversOwn, SentOwn, LateDownloadWhole
<1> QED BY <1>1, DeliveredInvariance, PTL


-----------------------------------------------------------------------------
(* The index, under any of the faults.                                     *)

\* What pdftotext may have printed for a file of this text.
Printed(t, text) == IsPrefix(t, text) /\ (t = text \/ Fails("proc"))

\* A document is indexed when its upload is at its end, with what was printed for its
\* file.
Indexed ==
  /\ \A d \in document : d.content # NULL =>
       \A h \in Handler : Uploading(h) => conn[h].idPage # d.id
  /\ \A h \in Handler : At(h, "indexing") =>
       UploadPath(h) \in tried \/ Printed(conn[h].got, textAt(UploadPath(h)))

IndexInv == Indexed /\ IndexMatchesFile

LEMMA InitIndex == Init => IndexInv
<1> SUFFICES ASSUME Init PROVE IndexInv
  OBVIOUS
<1>1. document = {} /\ \A h \in Handler : conn[h].pc = "idle"
  BY DEF Init, Idle
<1> QED BY <1>1 DEF IndexInv, Indexed, IndexMatchesFile, At

\* The text of a path changes by its own upload, or by a removal.
LEMMA TextKept ==
  ASSUME TypeOK, IdInv, Unlinking, NEW h \in Handler, Step(h), NEW path, path \notin tried',
         OpenUpload(h) \/ ReceiveChunk(h) => UploadPath(h) # path
  PROVE  (IF path \in DOMAIN files' THEN disk'[files'[path]] ELSE << >>) = textAt(path)
<1>1. path \in DOMAIN files <=> path \in DOMAIN files'
  <2>1. path \in DOMAIN files => path \in DOMAIN files'
    BY PathsKept
  <2>2. path \in DOMAIN files' => path \in DOMAIN files
    BY FilesKept
  <2> QED BY <2>1, <2>2
<1>2. ASSUME path \in DOMAIN files
      PROVE  files'[path] = files[path] /\ disk'[files[path]] = disk[files[path]]
  <2>1. files'[path] = files[path] /\ files[path] \in 1..Len(disk)
    BY <1>1, <1>2, FilesKept, PathsKept
  <2>2. CASE ~ReceiveChunk(h)
    BY <2>1, <2>2, DiskAfter
  <2>3. CASE ReceiveChunk(h)
    <3>1. /\ conn[h].pc = "receiving"
          /\ UNCHANGED disk \/ (/\ conn[h].file # NoFile
                                /\ \A j \in 1..Len(disk) : j # conn[h].file => disk'[j] = disk[j])
      BY <2>3, ReceiveChunkEffect
    <3>2. conn[h].file # NoFile => files[path] # conn[h].file
      BY <1>2, <2>3, <3>1 DEF IdInv, FilesApart, Writing, At
    <3> QED BY <2>1, <3>1, <3>2
  <2> QED BY <2>1, <2>2, <2>3
<1> QED BY <1>1, <1>2 DEF textAt, exists

\* Rows that no INSERT adds and no UPDATE changes.
LEMMA RowsOnlyGo ==
  ASSUME TypeOK, NEW h \in Handler, Step(h), ~InsertDocument(h), ~Index(h)
  PROVE  document' \subseteq document
<1>1. CASE UNCHANGED document
  BY <1>1
<1>2. CASE \/ \E r \in Request : ReadRequest(h, r)
           \/ BadRequest(h) \/ PeerStalls(h) \/ Hangup(h) \/ Search(h) \/ OpenDownload(h)
           \/ SendChunk(h) \/ ReceiveStops(h) \/ Extract(h)
  BY <1>1, <1>2 DEF ReadRequest, BadRequest, PeerStalls, Hangup, Search, OpenDownload, SendChunk,
     ReceiveStops, Extract, database
<1>3. CASE Reply(h) \/ ReceiveChunk(h) \/ RemoveFile(h) \/ OpenUpload(h) \/ ReceiveEnds(h)
  BY <1>1, <1>3 DEF Reply, ReceiveChunk, RemoveFile, OpenUpload, ReceiveEnds, database
<1>4. CASE ListCompanies(h) \/ NewCompany(h) \/ RemoveCompany(h)
  BY <1>1, <1>4 DEF ListCompanies, NewCompany, RemoveCompany, Statement, newCompany,
     removeCompany, database
<1>5. CASE RemoveRow(h)
  BY <1>5, RemoveRowEffect
<1> QED BY <1>2, <1>3, <1>4, <1>5 DEF Step

\* Who is uploading after a step of h.
LEMMA UploadingAfter ==
  ASSUME TypeOK, IdInv, NEW h \in Handler, Step(h), NEW g \in Handler, conn'[g].pc \in UploadPC
  PROVE  \/ /\ Uploading(g) /\ conn'[g].idPage = conn[g].idPage
            /\ UploadPath(g)' = UploadPath(g)
         \/ g = h /\ InsertDocument(h) /\ conn'[g].idPage = nextPage
<1>1. CASE g # h
  BY <1>1, OthersKept DEF Uploading, UploadPath
<1>2. CASE g = h /\ InsertDocument(h)
  <2>1. conn'[h].pc # "reply"
    BY <1>2 DEF UploadPC
  <2> QED BY <1>2, <2>1, InsertConn
<1>3. CASE g = h /\ OpenUpload(h)
  BY <1>3, OpenUploadEffect DEF Uploading, UploadPC, UploadPath, IdInv
<1>4. CASE g = h /\ ~InsertDocument(h) /\ ~OpenUpload(h)
  BY <1>4, StepContinues DEF Continues, Uploading, UploadPath, getDocPath
<1> QED BY <1>1, <1>2, <1>3, <1>4

\* A row belongs to the user that uploaded its document.
LEMMA RowKnown ==
  ASSUME TypeOK, IdInv, NEW d \in document
  PROVE  d.id \in Page /\ d.user \in User /\ d.user = upload[d.id].user /\ Known(d.id)
BY NobodyAssumption DEF TypeOK, TablesOK, IdInv, IdsGiven, Known

\* UPDATE changes the row of the upload, which was not indexed yet.
LEMMA IndexRows ==
  ASSUME TypeOK, IdInv, NEW h \in Handler, Index(h), NEW e \in document'
  PROVE  \/ e \in document
         \/ e.id = conn[h].idPage /\ e.user = conn[h].idUser /\ e.content = conn[h].got
<1> DEFINE new(d) == IF d.id = conn[h].idPage THEN [d EXCEPT !.content = conn[h].got] ELSE d
<1>1. document' = document \/ document' = {new(d) : d \in document}
  BY IndexEffect
<1>2. CASE document' = document
  BY <1>2
<1>3. ASSUME NEW d \in document, e = new(d) PROVE
         \/ e \in document
         \/ e.id = conn[h].idPage /\ e.user = conn[h].idUser /\ e.content = conn[h].got
  <2>1. CASE d.id # conn[h].idPage
    BY <1>3, <2>1
  <2>2. CASE d.id = conn[h].idPage
    <3>1. conn[h].pc \in UploadPC
      BY DEF Index, At, UploadPC
    <3>2. d.user = conn[h].idUser
      BY <2>2, <3>1, RowKnown, UploadOwner DEF IdInv
    <3>3. e.id = d.id /\ e.user = d.user /\ e.content = conn[h].got
      BY <1>3, <2>2 DEF TypeOK, TablesOK
    <3> QED BY <2>2, <3>2, <3>3
  <2> QED BY <2>1, <2>2
<1> HIDE DEF new
<1> QED BY <1>1, <1>2, <1>3

LEMMA PrintedText ==
  ASSUME NEW S, NEW text \in Seq(S), NEW t,
         t = text \/ (Fails("proc") /\ \E n \in 0..Len(text) : t = SubSeq(text, 1, n))
  PROVE  Printed(t, text)
<1>1. CASE t = text
  BY <1>1, LenProperties DEF Printed, IsPrefix
<1>2. ASSUME Fails("proc"), NEW n \in 0..Len(text), t = SubSeq(text, 1, n)
      PROVE  Printed(t, text)
  <2>1. t \in Seq(S) /\ Len(t) = n /\ Len(text) \in Nat
    BY <1>2, BeginningType, LenProperties
  <2>2. SubSeq(t, 1, n) = t
    BY <2>1, SubSeqFull
  <2> QED BY <1>2, <2>1, <2>2 DEF Printed, IsPrefix
<1> QED BY <1>1, <1>2

\* Every step keeps the invariant of the index.
LEMMA NextIndex == TypeOK /\ IdInv /\ Unlinking /\ IndexInv /\ [Next]_vars => IndexInv'
<1> SUFFICES ASSUME TypeOK, IdInv, Unlinking, IndexInv, [Next]_vars PROVE IndexInv'
  OBVIOUS
<1>1. ASSUME NEW h \in Handler, Step(h) PROVE IndexInv'
  <2>1. tried \subseteq tried'
    BY <1>1, TriedKept
  <2>2. ASSUME NEW e \in document', e.content # NULL
        PROVE  /\ \A g \in Handler : conn'[g].pc \in UploadPC => conn'[g].idPage # e.id
               /\ getDocPath(e.user, e.id) \notin tried' =>
                    Printed(e.content, IF getDocPath(e.user, e.id) \in DOMAIN files'
                                       THEN disk'[files'[getDocPath(e.user, e.id)]]
                                       ELSE << >>)
    <3> DEFINE path == getDocPath(e.user, e.id)
    <3>1. CASE e \in document
      <4>1. \A g \in Handler : Uploading(g) => conn[g].idPage # e.id
        BY <2>2, <3>1 DEF IndexInv, Indexed
      <4>2. nextPage \in Page => nextPage # e.id
        BY <3>1, RowKnown DEF IdInv, IdsGiven, Known, Page, TypeOK, TablesOK
      <4>3. ASSUME NEW g \in Handler, conn'[g].pc \in UploadPC PROVE conn'[g].idPage # e.id
        <5>1. CASE Uploading(g) /\ conn'[g].idPage = conn[g].idPage
          BY <4>1, <5>1
        <5>2. CASE g = h /\ InsertDocument(h) /\ conn'[g].idPage = nextPage
          <6>1. nextPage \in Page
            <7>1. conn'[h].pc # "reply"
              BY <4>3, <5>2 DEF UploadPC
            <7> QED BY <5>2, <7>1, InsertRows
          <6> QED BY <4>2, <5>2, <6>1
        <5> QED BY <1>1, <4>3, <5>1, <5>2, UploadingAfter
      <4>4. OpenUpload(h) \/ ReceiveChunk(h) => UploadPath(h) # path
        <5>1. OpenUpload(h) \/ ReceiveChunk(h) => Uploading(h)
          BY DEF OpenUpload, ReceiveChunk, At, Uploading, UploadPC
        <5> QED BY <4>1, <5>1 DEF UploadPath, getDocPath
      <4>5. path \notin tried' => Printed(e.content, textAt(path))
        BY <2>1, <2>2, <3>1 DEF IndexInv, IndexMatchesFile, Printed
      <4> HIDE DEF path
      <4>6. path \notin tried' =>
              Printed(e.content, IF path \in DOMAIN files' THEN disk'[files'[path]] ELSE << >>)
        BY <1>1, <4>4, <4>5, TextKept
      <4> QED BY <4>3, <4>6 DEF path
    <3>2. CASE e \notin document
      <4>1. ~InsertDocument(h)
        BY <2>2, <3>2, InsertRows
      <4>2. Index(h)
        BY <1>1, <3>2, <4>1, RowsOnlyGo
      <4>3. e.id = conn[h].idPage /\ e.user = conn[h].idUser /\ e.content = conn[h].got
        BY <3>2, <4>2, IndexRows
      <4>4. /\ conn[h].pc = "indexing" /\ conn'[h].pc = "closed"
            /\ UNCHANGED <<files, disk, tried>>
        BY <4>2, IndexEffect, ConnType DEF Connection
      <4>5. path = UploadPath(h) /\ Uploading(h)
        BY <4>3, <4>4 DEF UploadPath, Uploading, UploadPC
      <4>6. path \notin tried => Printed(conn[h].got, textAt(path))
        BY <4>4, <4>5 DEF IndexInv, Indexed, At
      <4>7. ASSUME NEW g \in Handler, conn'[g].pc \in UploadPC PROVE conn'[g].idPage # e.id
        <5>1. g # h
          BY <4>4, <4>7 DEF UploadPC
        <5>2. conn'[g] = conn[g]
          BY <1>1, <5>1, OthersKept
        <5> QED BY <4>3, <4>5, <4>7, <5>1, <5>2 DEF IdInv, UploadsApart, Uploading
      <4> QED BY <4>3, <4>4, <4>6, <4>7 DEF textAt, exists
    <3> QED BY <3>1, <3>2
  <2>3. ASSUME NEW g \in Handler, conn'[g].pc = "indexing", UploadPath(g)' \notin tried'
        PROVE  Printed(conn'[g].got, textAt(UploadPath(g))')
    <3>1. CASE g = h
      <4>1. Extract(h)
        BY <1>1, <2>3, <3>1, PcAfter
      <4>2. ASSUME NEW t, conn' = [conn EXCEPT ![h].pc = "indexing", ![h].got = t]
            PROVE  conn'[h].got = t /\ conn'[h].idPage = conn[h].idPage
                   /\ conn'[h].idUser = conn[h].idUser
        BY <4>2, ConnType DEF Connection
      <4>3. ~Goto(h, "closed")
        BY <2>3, <3>1, ConnType DEF Goto, Connection
      <4> DEFINE text == textAt(UploadPath(h))
      <4>4. PICK t : /\ conn' = [conn EXCEPT ![h].pc = "indexing", ![h].got = t]
                     /\ t = text \/ (Fails("proc") /\ \E n \in 0..Len(text) : t = SubSeq(text, 1, n))
        BY <4>1, <4>3 DEF Extract, UploadPath
      <4>5. UNCHANGED <<files, disk>>
        BY <4>1 DEF Extract, spool
      <4>6. text' = text
        <5>1. UploadPath(h)' = UploadPath(h)
          <6> HIDE DEF text
          <6> QED BY <4>2, <4>4 DEF UploadPath
        <5> QED BY <4>5, <5>1 DEF textAt, exists
      <4>7. text \in Seq(Chunk)
        BY TextAtType
      <4> HIDE DEF text
      <4>8. Printed(t, text)
        BY <4>4, <4>7, PrintedText
      <4>9. conn'[h].got = t
        BY <4>2, <4>4
      <4> QED BY <3>1, <4>6, <4>8, <4>9 DEF text
    <3>2. CASE g # h
      <4>1. conn'[g] = conn[g] /\ UploadPath(g)' = UploadPath(g)
        BY <1>1, <3>2, OthersKept DEF UploadPath
      <4> DEFINE path == UploadPath(g)
      <4>2. Printed(conn[g].got, textAt(path))
        BY <2>1, <2>3, <4>1 DEF IndexInv, Indexed, At
      <4>3. OpenUpload(h) \/ ReceiveChunk(h) => UploadPath(h) # path
        <5>1. OpenUpload(h) \/ ReceiveChunk(h) => Uploading(h)
          BY DEF OpenUpload, ReceiveChunk, At, Uploading, UploadPC
        <5>2. Uploading(g)
          BY <2>3, <4>1 DEF Uploading, UploadPC
        <5> QED BY <3>2, <5>1, <5>2 DEF IdInv, UploadsApart, UploadPath, getDocPath
      <4>4. path \notin tried' /\ path' = path
        BY <2>3, <4>1
      <4>5. textAt(path)' = IF path' \in DOMAIN files' THEN disk'[files'[path']] ELSE << >>
        BY DEF textAt, exists
      <4> HIDE DEF path
      <4>6. (IF path \in DOMAIN files' THEN disk'[files'[path]] ELSE << >>) = textAt(path)
        BY <1>1, <4>3, <4>4, TextKept
      <4>7. textAt(path)' = textAt(path)
        BY <4>4, <4>5, <4>6
      <4> QED BY <4>1, <4>2, <4>7 DEF path
    <3> QED BY <3>1, <3>2
  <2>4. Indexed'
    BY <2>2, <2>3 DEF Indexed, Uploading, At
  <2>5. IndexMatchesFile'
    BY <2>2 DEF IndexMatchesFile, Printed, textAt, exists
  <2> QED BY <2>4, <2>5 DEF IndexInv
<1>2. CASE \A h \in Handler : ~Step(h)
  <2>1. UNCHANGED <<document, files, disk, tried>>
    BY <1>2, OtherNext
  <2>2. \A g \in Handler : conn'[g].pc \in UploadPC => conn'[g] = conn[g]
    BY <1>2, OtherNext DEF UploadPC, Idle
  <2>3. Indexed'
    BY <2>1, <2>2 DEF IndexInv, Indexed, Uploading, UploadPC, At, textAt, UploadPath, exists
  <2>4. IndexMatchesFile'
    BY <2>1 DEF IndexInv, IndexMatchesFile, textAt, exists
  <2> QED BY <2>3, <2>4 DEF IndexInv
<1> QED BY <1>1, <1>2

\* The inductive invariant of the index.
THEOREM IndexInvariance == Spec => []IndexInv
<1>1. RemovalInv => Unlinking
  BY DEF RemovalInv
<1> QED BY <1>1, InitIndex, NextIndex, TypeCorrect, IdInvariance, RemovalInvariance, PTL DEF Spec

\* The text a search matches is a beginning of that of the document's own file, and all
\* of it unless a pdftotext ended before its time, as long as nobody asks for its
\* removal: the file was read when its upload had ended, and nobody writes it again
\* (proxy.cpp:254-276).
THEOREM IndexIsTrue == Spec => []IndexMatchesFile
<1>1. IndexInv => IndexMatchesFile
  BY DEF IndexInv
<1> QED BY <1>1, IndexInvariance, PTL
=============================================================================
