----------------------- MODULE ArchiveRefinementProofs ----------------------
(***************************************************************************)
(* Archive implements ArchiveSpec: the initial states map to initial       *)
(* states, and every step of a handler maps to a step in the life of one   *)
(* document, or to none.  One lemma for each kind of step, from the        *)
(* inductive invariants of ArchiveSafetyProofs.                            *)
(***************************************************************************)
EXTENDS ArchiveSafetyProofs

\* What an upload is about to write into the index is a beginning of it.
TextBegins ==
  \A h \in Handler : At(h, "indexing") => Beginning(conn[h].got, conn[h].idPage)

\* All that the mapping of a step rests on.
MapInv == TypeOK /\ IdInv /\ RemovalInv /\ Written /\ IndexInv /\ TextBegins

\* ArchiveSpec sees nothing happen to document q.
SameDoc(q) ==
  /\ upload'[q] = upload[q]
  /\ phaseOf(q)' = phaseOf(q)
  /\ contentOf(q)' = contentOf(q)
  /\ (rowsOf(q) # {})' <=> (rowsOf(q) # {})
  /\ textOf(q)' = textOf(q)

\* The variables of ArchiveSpec, by names for the proofs.
Owners   == [id \in Page |-> upload[id].user]
Lengths  == [id \in Page |-> upload[id].size]
Phases   == [id \in Page |-> phaseOf(id)]
Contents == [id \in Page |-> contentOf(id)]
Listed   == [id \in Page |-> rowsOf(id) # {}]
Texts    == [id \in Page |-> textOf(id)]

\* A document nobody uploaded has no file and no row, and was not removed.
LEMMA UnknownDoc ==
  ASSUME TypeOK, IdInv, NEW id \in Page, ~Known(id)
  PROVE  /\ contentOf(id) = << >> /\ rowsOf(id) = {} /\ id \notin acked
         /\ pathOf(id) \notin tried /\ pathOf(id) \notin removed
<1>1. upload[id].user = Nobody /\ pathOf(id) = <<Nobody, id>>
  BY DEF Known, pathOf, getDocPath
<1>2. \A u \in User, q \in Page : <<u, q>> # <<Nobody, id>>
  BY NobodyAssumption
<1>3. DOMAIN files \subseteq User \X Page /\ tried \subseteq User \X Page
      /\ removed \subseteq User \X Page /\ \A d \in document : d.user \in User
  BY DEF TypeOK, SpoolOK, HistoryOK, TablesOK
<1>4. pathOf(id) \notin User \X Page
  BY <1>1, NobodyAssumption
<1>5. contentOf(id) = << >>
  BY <1>3, <1>4 DEF contentOf, textAt, exists
<1>6. rowsOf(id) = {}
  BY <1>1, <1>3, NobodyAssumption DEF rowsOf
<1>7. id \notin acked
  BY <1>1 DEF IdInv, IdsGiven
<1> QED BY <1>3, <1>4, <1>5, <1>6, <1>7

\* The phases, one by one.
LEMMA PhaseOf ==
  ASSUME TypeOK, IdInv, NEW id \in Page
  PROVE  /\ ~Known(id) => phaseOf(id) = "free"
         /\ Known(id) /\ pathOf(id) \in removed => phaseOf(id) = "removed"
         /\ Known(id) /\ pathOf(id) \notin removed /\ pathOf(id) \in tried =>
              phaseOf(id) = "disposed"
         /\ Known(id) /\ pathOf(id) \notin removed /\ pathOf(id) \notin tried =>
              phaseOf(id) = IF id \in acked THEN "stored" ELSE "partial"
<1>1. ~Known(id) => phaseOf(id) = "free"
  BY UnknownDoc DEF phaseOf, Known
<1>2. Known(id) /\ pathOf(id) \in removed => phaseOf(id) = "removed"
  BY DEF phaseOf, Known
<1>3. Known(id) /\ pathOf(id) \notin removed /\ pathOf(id) \in tried =>
        phaseOf(id) = "disposed"
  BY DEF phaseOf, Known
<1>4. Known(id) /\ pathOf(id) \notin removed /\ pathOf(id) \notin tried =>
        phaseOf(id) = IF id \in acked THEN "stored" ELSE "partial"
  BY DEF phaseOf, Known
<1> QED BY <1>1, <1>2, <1>3, <1>4

\* A document has one row at most, and its text is that of the row.
LEMMA TextOf ==
  ASSUME IdInv, NEW id \in Page
  PROVE  /\ rowsOf(id) = {} => textOf(id) = NULL
         /\ \A d \in rowsOf(id) : textOf(id) = d.content /\ rowsOf(id) = {d}
<1>1. \A d, e \in rowsOf(id) : d = e
  BY DEF IdInv, IdsGiven, rowsOf
<1>2. rowsOf(id) # {} => (CHOOSE d \in rowsOf(id) : TRUE) \in rowsOf(id)
  OBVIOUS
<1> QED BY <1>1, <1>2 DEF textOf

PhaseTable ==
  \A id \in Page :
    /\ ~Known(id) => phaseOf(id) = "free"
    /\ Known(id) /\ pathOf(id) \in removed => phaseOf(id) = "removed"
    /\ Known(id) /\ pathOf(id) \notin removed /\ pathOf(id) \in tried =>
         phaseOf(id) = "disposed"
    /\ Known(id) /\ pathOf(id) \notin removed /\ pathOf(id) \notin tried =>
         phaseOf(id) = IF id \in acked THEN "stored" ELSE "partial"

TextTable ==
  \A id \in Page :
    /\ rowsOf(id) = {} => textOf(id) = NULL
    /\ \A d \in rowsOf(id) : textOf(id) = d.content /\ rowsOf(id) = {d}

\* Both hold before and after a step.
LEMMA TablesBefore == TypeOK /\ IdInv => PhaseTable /\ TextTable
BY PhaseOf, TextOf DEF PhaseTable, TextTable

LEMMA TablesAfter == TypeOK' /\ IdInv' => PhaseTable' /\ TextTable'
BY TablesBefore, PTL

\* A document whose owner, files, rows and history stay is the same.
LEMMA StaysSame ==
  ASSUME IdInv, IdInv', NEW q \in Page, upload'[q] = upload[q],
         pathOf(q) \in tried' <=> pathOf(q) \in tried,
         pathOf(q) \in removed' <=> pathOf(q) \in removed,
         q \in acked' <=> q \in acked,
         (IF pathOf(q) \in DOMAIN files' THEN disk'[files'[pathOf(q)]] ELSE << >>) = contentOf(q),
         {d \in document' : d.id = q /\ d.user = upload[q].user} = rowsOf(q)
  PROVE  SameDoc(q)
<1>1. pathOf(q)' = pathOf(q)
  BY DEF pathOf, getDocPath
<1>2. contentOf(q)' = contentOf(q)
  BY <1>1 DEF contentOf, textAt, exists
<1>3. rowsOf(q)' = rowsOf(q)
  BY DEF rowsOf
<1>4. phaseOf(q)' = phaseOf(q)
  BY <1>1 DEF phaseOf
<1>5. textOf(q)' = textOf(q)
  BY <1>3 DEF textOf
<1> QED BY <1>2, <1>3, <1>4, <1>5 DEF SameDoc

\* If every document is the same, nothing happens.
LEMMA NothingHappens ==
  ASSUME \A q \in Page : SameDoc(q)
  PROVE  UNCHANGED Promise!doc
<1>1. Owners' = Owners /\ Lengths' = Lengths
  BY DEF SameDoc, Owners, Lengths
<1>2. Phases' = Phases /\ Contents' = Contents
  BY DEF SameDoc, Phases, Contents
<1>3. Listed' = Listed
  BY DEF SameDoc, Listed
<1>4. Texts' = Texts
  BY DEF SameDoc, Texts
<1> QED BY <1>1, <1>2, <1>3, <1>4
        DEF Promise!doc, Owners, Lengths, Phases, Contents, Listed, Texts

\* What a step that concerns document p alone does to the variables of ArchiveSpec.
LEMMA OneDocument ==
  ASSUME NEW p \in Page, \A q \in Page : q # p => SameDoc(q)
  PROVE  /\ Owners' = [Owners EXCEPT ![p] = upload'[p].user]
         /\ Lengths' = [Lengths EXCEPT ![p] = upload'[p].size]
         /\ Phases' = [Phases EXCEPT ![p] = phaseOf(p)']
         /\ Contents' = [Contents EXCEPT ![p] = contentOf(p)']
         /\ Listed' = [Listed EXCEPT ![p] = (rowsOf(p) # {})']
         /\ Texts' = [Texts EXCEPT ![p] = textOf(p)']
         /\ upload'[p].user = upload[p].user => Owners' = Owners
         /\ upload'[p].size = upload[p].size => Lengths' = Lengths
         /\ phaseOf(p)' = phaseOf(p) => Phases' = Phases
         /\ contentOf(p)' = contentOf(p) => Contents' = Contents
         /\ ((rowsOf(p) # {})' <=> (rowsOf(p) # {})) => Listed' = Listed
         /\ textOf(p)' = textOf(p) => Texts' = Texts
<1>1. /\ Owners' = [Owners EXCEPT ![p] = upload'[p].user]
      /\ upload'[p].user = upload[p].user => Owners' = Owners
  BY DEF SameDoc, Owners
<1>2. /\ Lengths' = [Lengths EXCEPT ![p] = upload'[p].size]
      /\ upload'[p].size = upload[p].size => Lengths' = Lengths
  BY DEF SameDoc, Lengths
<1>3. /\ Phases' = [Phases EXCEPT ![p] = phaseOf(p)']
      /\ phaseOf(p)' = phaseOf(p) => Phases' = Phases
  BY DEF SameDoc, Phases
<1>4. /\ Contents' = [Contents EXCEPT ![p] = contentOf(p)']
      /\ contentOf(p)' = contentOf(p) => Contents' = Contents
  BY DEF SameDoc, Contents
<1>5. /\ Listed' = [Listed EXCEPT ![p] = (rowsOf(p) # {})']
      /\ ((rowsOf(p) # {})' <=> (rowsOf(p) # {})) => Listed' = Listed
  BY DEF SameDoc, Listed
<1>6. /\ Texts' = [Texts EXCEPT ![p] = textOf(p)']
      /\ textOf(p)' = textOf(p) => Texts' = Texts
  BY DEF SameDoc, Texts
<1> QED BY <1>1, <1>2, <1>3, <1>4, <1>5, <1>6


-----------------------------------------------------------------------------
(* The text of an upload is a beginning of it.                             *)

\* A beginning of a beginning.
LEMMA FirstOfFirst ==
  ASSUME NEW id, NEW m \in Nat, NEW n \in 0..m
  PROVE  SubSeq(First(id, m), 1, n) = First(id, n)
<1>1. n \in Nat /\ n <= m
  OBVIOUS
<1>2. First(id, m) \in Seq({id} \X Nat) /\ Len(First(id, m)) = m
      /\ \A k \in 1..m : First(id, m)[k] = <<id, k>>
  BY FirstFacts
<1>3. First(id, n) \in Seq({id} \X Nat) /\ Len(First(id, n)) = n
      /\ \A k \in 1..n : First(id, n)[k] = <<id, k>>
  BY <1>1, FirstFacts
<1> DEFINE t == First(id, m)
           u == First(id, n)
           v == SubSeq(t, 1, n)
<1>4. \A k \in 1..n : k \in 1..m
  BY <1>1
<1>5. \A k \in 1..n : u[k] = t[k]
  BY <1>4, <1>2, <1>3
<1>6. u \in Seq({id} \X Nat) /\ Len(u) = n
  BY <1>3
<1> HIDE DEF t, u
<1>7. v \in Seq({id} \X Nat) /\ Len(v) = n /\ \A k \in 1..n : v[k] = t[k]
  BY <1>1, <1>2, BeginningType DEF t
<1> HIDE DEF v
<1>8. v = u
  BY <1>5, <1>6, <1>7, SeqEqual
<1> QED BY <1>8 DEF v, t, u

LEMMA NextText ==
  TypeOK /\ IdInv /\ Written /\ TextBegins /\ [Next]_vars => TextBegins'
<1> SUFFICES ASSUME TypeOK, IdInv, Written, TextBegins, [Next]_vars,
                    NEW g \in Handler, conn'[g].pc = "indexing"
             PROVE  \E n \in 0..upload'[conn'[g].idPage].size :
                      conn'[g].got = First(conn'[g].idPage, n)
  BY DEF TextBegins, Beginning, At
<1>1. ASSUME NEW h \in Handler, Step(h), g # h
      PROVE  \E n \in 0..upload'[conn'[g].idPage].size :
               conn'[g].got = First(conn'[g].idPage, n)
  <2>1. conn'[g] = conn[g] /\ conn[g].pc \in UploadPC
    BY <1>1, OthersKept DEF UploadPC
  <2>2. conn[g].idPage \in Page /\ Known(conn[g].idPage)
    BY <2>1, UploadOwner, NobodyAssumption DEF IdInv, Known
  <2>3. upload'[conn[g].idPage] = upload[conn[g].idPage]
    BY <1>1, <2>2, UploadKept
  <2> QED BY <2>1, <2>3 DEF TextBegins, Beginning, At
<1>2. CASE Step(g)
  <2>1. Extract(g) /\ ~Goto(g, "closed")
    BY <1>2, PcAfter, ConnType DEF Goto, Connection
  <2> DEFINE text == textAt(UploadPath(g))
             id == conn[g].idPage
  <2>2. ASSUME NEW t, conn' = [conn EXCEPT ![g].pc = "indexing", ![g].got = t]
        PROVE  conn'[g].got = t /\ conn'[g].idPage = id
    BY <2>2, ConnType DEF Connection
  <2>3. PICK t : /\ conn' = [conn EXCEPT ![g].pc = "indexing", ![g].got = t]
                 /\ t = text \/ \E n \in 0..Len(text) : t = SubSeq(text, 1, n)
    BY <2>1 DEF Extract, UploadPath
  <2>4. conn[g].pc \in UploadPC /\ UNCHANGED upload
    BY <2>1 DEF Extract, At, UploadPC, history
  <2>5. id \in Page /\ upload[id].size \in Nat
    BY <2>4, UploadType DEF UploadPC, TypeOK, HistoryOK
  <2>6. UploadPath(g)[2] = id
    BY DEF UploadPath, getDocPath
  <2>7. \E n \in 0..upload[id].size : text = First(id, n)
    <3>1. CASE exists(UploadPath(g))
      BY <2>6, <3>1 DEF Written, FilesBegin, Beginning, textAt, exists
    <3>2. CASE ~exists(UploadPath(g))
      <4>1. text = First(id, 0) /\ 0 \in 0..upload[id].size
        BY <2>5, <3>2, FirstFacts DEF textAt, First
      <4> QED BY <4>1
    <3> QED BY <3>1, <3>2
  <2> HIDE DEF text
  <2>8. PICK m \in 0..upload[id].size : text = First(id, m)
    BY <2>7
  <2>9. m \in Nat /\ \A n \in 0..m : n \in 0..upload[id].size
    BY <2>5
  <2>10. Len(text) = m
    BY <2>8, <2>9, FirstFacts
  <2>11. \E n \in 0..upload[id].size : t = First(id, n)
    <3>1. CASE t = text
      BY <2>8, <3>1
    <3>2. ASSUME NEW n \in 0..m, t = SubSeq(text, 1, n)
          PROVE  \E k \in 0..upload[id].size : t = First(id, k)
      <4>1. t = First(id, n)
        BY <2>8, <2>9, <3>2, FirstOfFirst
      <4> QED BY <2>9, <4>1
    <3> QED BY <2>3, <2>10, <3>1, <3>2
  <2>12. conn'[g].got = t /\ conn'[g].idPage = id
    BY <2>2, <2>3
  <2> QED BY <2>4, <2>11, <2>12
<1>3. CASE \A h \in Handler : ~Step(h)
  BY <1>3, OtherNext DEF Idle, TextBegins, Beginning, At
<1> QED BY <1>1, <1>2, <1>3

\* In every reachable state the mapping has what it rests on.
THEOREM MapInvariance ==
  ASSUME "short" \notin Faults
  PROVE  Spec => []MapInv
<1>1. Init => TextBegins
  BY DEF Init, Idle, TextBegins, At
<1>2. Spec => []TextBegins
  BY <1>1, NextText, TypeCorrect, IdInvariance, WrittenInvariance, PTL DEF Spec
<1> QED BY <1>2, TypeCorrect, IdInvariance, RemovalInvariance, WrittenInvariance,
           IndexInvariance, PTL DEF MapInv

-----------------------------------------------------------------------------
(* The mapping, initially and step by step.                                *)

LEMMA InitMaps == Init => Promise!Init
<1> SUFFICES ASSUME Init PROVE Promise!Init
  OBVIOUS
<1>1. TypeOK /\ IdInv
  BY InitType, InitIds
<1>2. \A id \in Page : upload[id].user = Nobody /\ upload[id].size = 0 /\ ~Known(id)
  BY DEF Init, Known
<1>3. \A id \in Page : /\ phaseOf(id) = "free" /\ contentOf(id) = << >>
                       /\ rowsOf(id) = {} /\ textOf(id) = NULL
  BY <1>1, <1>2, PhaseOf, UnknownDoc, TextOf
<1>4. Owners = [p \in Page |-> Nobody] /\ Lengths = [p \in Page |-> 0]
  BY <1>2 DEF Owners, Lengths
<1>5. Phases = [p \in Page |-> "free"] /\ Contents = [p \in Page |-> << >>]
  BY <1>3 DEF Phases, Contents
<1>6. Listed = [p \in Page |-> FALSE]
  BY <1>3 DEF Listed
<1>7. Texts = [p \in Page |-> NULL]
  BY <1>3 DEF Texts
<1> QED BY <1>4, <1>5, <1>6, <1>7
        DEF Promise!Init, Owners, Lengths, Phases, Contents, Listed, Texts

\* Steps that leave tables, spool and history alone, as far as documents go.
LEMMA CalmMaps ==
  ASSUME MapInv, IdInv', UNCHANGED <<document, files, disk, upload, acked, tried, removed>>
  PROVE  UNCHANGED Promise!doc
<1>1. ASSUME NEW q \in Page PROVE SameDoc(q)
  BY <1>1, StaysSame DEF MapInv, contentOf, textAt, exists, rowsOf
<1> QED BY <1>1, NothingHappens

\* The OK of a removal: the document is removed, if it was not already.
LEMMA ReplyMaps ==
  ASSUME MapInv, IdInv', TypeOK', NEW h \in Handler, Reply(h)
  PROVE  [Promise!Next]_(Promise!doc)
<1>1. UNCHANGED <<document, files, disk, upload, acked, tried>>
  BY DEF Reply, database, spool
<1>2. CASE UNCHANGED removed
  BY <1>1, <1>2, CalmMaps
<1>3. CASE ReportsRemoval(h) /\ removed' = removed \cup {RequestPath(h)}
  <2>0. RequestPath(h) \in tried /\ Gone(RequestPath(h)) /\ RequestPath(h) \in User \X Page
    BY <1>3, ReportType DEF MapInv, RemovalInv, RemovedIsGone, ReportsRemoval
  <2>1. PICK path \in User \X Page : path = RequestPath(h)
    BY <2>0
  <2>2. PICK p \in Page : p = path[2]
    OBVIOUS
  <2>3. \A q \in Page : pathOf(q) # path => SameDoc(q)
    BY <1>1, <1>3, <2>1, StaysSame DEF MapInv, contentOf, textAt, exists, rowsOf
  <2>4. \A q \in Page : q # p => pathOf(q) # path
    BY <2>2 DEF pathOf, getDocPath
  <2>5. CASE pathOf(p) # path \/ path \in removed
    <3>1. \A q \in Page : SameDoc(q)
      BY <1>1, <1>3, <2>1, <2>3, <2>4, <2>5, StaysSame DEF MapInv, contentOf, textAt, exists, rowsOf
    <3> QED BY <3>1, NothingHappens
  <2>6. CASE pathOf(p) = path /\ path \notin removed
    <3>0. Known(p) /\ path \in tried /\ Gone(path) /\ pathOf(p)' = path /\ Known(p)'
      BY <1>1, <2>0, <2>1, <2>2, <2>6 DEF Gone, pathOf, Known
    <3>1. phaseOf(p) = "disposed"
      BY <2>6, <3>0, TablesBefore DEF MapInv, PhaseTable
    <3>2. phaseOf(p)' = "removed"
      <4>1. (pathOf(p) \in removed)'
        BY <1>3, <2>1, <3>0
      <4> QED BY <3>0, <4>1, TablesAfter DEF PhaseTable
    <3>3. contentOf(p) = << >> /\ rowsOf(p) = {}
      <4>1. path[1] = upload[p].user /\ path[2] = p
        BY <2>2, <2>6 DEF pathOf, getDocPath
      <4> QED BY <2>6, <3>0, <4>1 DEF Gone, NoRow, contentOf, textAt, rowsOf
    <3>4. contentOf(p)' = contentOf(p) /\ rowsOf(p)' = rowsOf(p) /\ textOf(p)' = textOf(p)
      BY <1>1 DEF contentOf, textAt, rowsOf, textOf, pathOf, exists
    <3>5. /\ Owners' = Owners /\ Lengths' = Lengths
          /\ Phases' = [Phases EXCEPT ![p] = "removed"]
          /\ Contents' = Contents /\ Listed' = Listed /\ Texts' = Texts
      BY <1>1, <2>3, <2>4, <3>2, <3>4, OneDocument
    <3>6. Phases[p] = "disposed" /\ ~Listed[p] /\ Contents[p] = << >>
      BY <3>1, <3>3 DEF Phases, Listed, Contents
    <3>7. Promise!Remove(p)
      BY <3>5, <3>6 DEF Promise!Remove, Owners, Lengths, Phases, Contents, Listed, Texts
    <3> QED BY <3>7 DEF Promise!Next
  <2> QED BY <2>5, <2>6
<1> QED BY <1>2, <1>3, RemovedAfter DEF Step, MapInv


\* DELETE: the document is to be removed, if it is the user's own.
LEMMA RemoveRowMaps ==
  ASSUME MapInv, IdInv', TypeOK', NEW h \in Handler, RemoveRow(h)
  PROVE  [Promise!Next]_(Promise!doc)
<1>1. PICK u \in User, p \in Page : u = conn[h].idUser /\ p = conn[h].req.idPage
  BY RemoveRowEffect DEF MapInv
<1>2. /\ UNCHANGED <<files, disk, upload, acked, removed>> /\ tried' = tried \cup {<<u, p>>}
      /\ \/ document' = {d \in document : ~(d.id = p /\ d.user = u)}
         \/ document' = document
  BY <1>1, RemoveRowEffect DEF MapInv
<1>3. \A q \in Page : q # p => SameDoc(q)
  <2> SUFFICES ASSUME NEW q \in Page, q # p PROVE SameDoc(q)
    OBVIOUS
  <2>1. pathOf(q) # <<u, p>>
    BY DEF pathOf, getDocPath
  <2>2. {d \in document' : d.id = q /\ d.user = upload[q].user} = rowsOf(q)
    BY <1>2 DEF rowsOf
  <2> QED BY <1>2, <2>1, <2>2, StaysSame DEF MapInv, contentOf, textAt, exists
<1>4. CASE upload[p].user # u
  <2>1. pathOf(p) # <<u, p>>
    BY <1>4 DEF pathOf, getDocPath
  <2>2. {d \in document' : d.id = p /\ d.user = upload[p].user} = rowsOf(p)
    BY <1>2, <1>4 DEF rowsOf
  <2>3. SameDoc(p)
    BY <1>2, <2>1, <2>2, StaysSame DEF MapInv, contentOf, textAt, exists
  <2> QED BY <1>3, <2>3, NothingHappens
<1>5. CASE upload[p].user = u /\ <<u, p>> \in removed
  <2>1. pathOf(p) = <<u, p>> /\ <<u, p>> \in tried /\ Gone(<<u, p>>)
    BY <1>5 DEF pathOf, getDocPath, MapInv, RemovalInv, RemovedIsGone
  <2>2. {d \in document' : d.id = p /\ d.user = upload[p].user} = rowsOf(p)
    BY <1>2, <1>5, <2>1 DEF rowsOf, Gone, NoRow
  <2>3. SameDoc(p)
    BY <1>2, <2>1, <2>2, StaysSame DEF MapInv, contentOf, textAt, exists
  <2> QED BY <1>3, <2>3, NothingHappens
<1>6. CASE upload[p].user = u /\ <<u, p>> \notin removed
  <2>1. /\ Known(p) /\ Known(p)' /\ pathOf(p) = <<u, p>> /\ pathOf(p)' = <<u, p>>
    BY <1>2, <1>6, NobodyAssumption DEF pathOf, getDocPath, Known
  <2>2. phaseOf(p) \in {"partial", "stored", "disposed"}
    BY <1>6, <2>1, TablesBefore DEF MapInv, PhaseTable
  <2>3. phaseOf(p)' = "disposed"
    <3>1. (pathOf(p) \notin removed /\ pathOf(p) \in tried)'
      BY <1>2, <1>6, <2>1
    <3> QED BY <2>1, <3>1, TablesAfter DEF PhaseTable
  <2>4. contentOf(p)' = contentOf(p)
    BY <1>2, <2>1 DEF contentOf, textAt, exists
  <2>5. \/ (rowsOf(p) # {})' = (rowsOf(p) # {}) /\ textOf(p)' = textOf(p)
        \/ ~(rowsOf(p) # {})' /\ textOf(p)' = NULL
    <3>1. rowsOf(p)' = {d \in document' : d.id = p /\ d.user = u}
      BY <1>2, <1>6 DEF rowsOf
    <3>2. CASE document' = document
      BY <1>6, <3>1, <3>2 DEF rowsOf, textOf
    <3>3. CASE document' = {d \in document : ~(d.id = p /\ d.user = u)}
      <4>1. rowsOf(p)' = {}
        BY <3>1, <3>3
      <4> QED BY <4>1, TablesAfter DEF TextTable
    <3> QED BY <1>2, <3>2, <3>3
  <2>6. /\ Owners' = Owners /\ Lengths' = Lengths /\ Contents' = Contents
        /\ Phases' = [Phases EXCEPT ![p] = "disposed"]
        /\ \/ Listed' = Listed /\ Texts' = Texts
           \/ Listed' = [Listed EXCEPT ![p] = FALSE] /\ Texts' = [Texts EXCEPT ![p] = NULL]
    BY <1>2, <1>3, <2>3, <2>4, <2>5, OneDocument
  <2>7. Phases[p] \in {"partial", "stored", "disposed"}
    BY <2>2 DEF Phases
  <2>8. Promise!Dispose(p)
    BY <2>6, <2>7 DEF Promise!Dispose, Promise!Unlisted, Owners, Lengths, Phases, Contents,
       Listed, Texts
  <2> QED BY <2>8 DEF Promise!Next
<1> QED BY <1>4, <1>5, <1>6

\* unlink(): the content goes.
LEMMA RemoveFileMaps ==
  ASSUME MapInv, IdInv', TypeOK', NEW h \in Handler, RemoveFile(h)
  PROVE  [Promise!Next]_(Promise!doc)
<1>0. conn[h].pc = "unlinking"
  BY DEF RemoveFile, At
<1>1. PICK u \in User, p \in Page : u = conn[h].idUser /\ p = conn[h].req.idPage
  <2>1. conn[h].req.op = "REMOVE_DOCUMENT"
    BY <1>0, ConnType DEF Consistent, MapInv
  <2> QED BY <2>1, ReportType DEF RequestPath, getDocPath, MapInv
<1>2. /\ UNCHANGED <<document, disk, upload, acked, tried, removed>>
      /\ \/ <<u, p>> \in DOMAIN files /\ files' = [q \in DOMAIN files \ {<<u, p>>} |-> files[q]]
         \/ UNCHANGED files
  BY <1>1, RemoveFileEffect DEF getDocPath, exists, MapInv
<1>3. <<u, p>> \in tried
  BY <1>0, <1>1 DEF MapInv, RemovalInv, Unlinking, At, RequestPath, getDocPath
<1>4. CASE UNCHANGED files
  BY <1>2, <1>4, CalmMaps
<1>5. CASE <<u, p>> \in DOMAIN files /\ files' = [q \in DOMAIN files \ {<<u, p>>} |-> files[q]]
  <2>1. upload[p].user = u
    BY <1>5 DEF MapInv, IdInv, IdsGiven
  <2>2. /\ Known(p) /\ Known(p)' /\ pathOf(p) = <<u, p>> /\ pathOf(p)' = <<u, p>>
    BY <1>2, <2>1, NobodyAssumption DEF pathOf, getDocPath, Known
  <2>3. \A q \in Page : q # p => SameDoc(q)
    <3> SUFFICES ASSUME NEW q \in Page, q # p PROVE SameDoc(q)
      OBVIOUS
    <3>1. pathOf(q) # <<u, p>>
      BY DEF pathOf, getDocPath
    <3>2. (IF pathOf(q) \in DOMAIN files' THEN disk'[files'[pathOf(q)]] ELSE << >>) = contentOf(q)
      BY <1>2, <1>5, <3>1 DEF contentOf, textAt, exists
    <3> QED BY <1>2, <3>2, StaysSame DEF MapInv, rowsOf
  <2>4. <<u, p>> \notin removed
    BY <1>5 DEF MapInv, RemovalInv, RemovedIsGone, Gone, exists
  <2>5. phaseOf(p) = "disposed"
    BY <1>3, <2>2, <2>4, TablesBefore DEF MapInv, PhaseTable
  <2>6. phaseOf(p)' = "disposed"
    <3>1. (pathOf(p) \notin removed /\ pathOf(p) \in tried)'
      BY <1>2, <1>3, <2>2, <2>4
    <3> QED BY <2>2, <3>1, TablesAfter DEF PhaseTable
  <2>7. contentOf(p)' = << >>
    BY <1>5, <2>2 DEF contentOf, textAt, exists
  <2>8. rowsOf(p)' = rowsOf(p) /\ textOf(p)' = textOf(p)
    BY <1>2 DEF rowsOf, textOf
  <2>9. /\ Owners' = Owners /\ Lengths' = Lengths /\ Listed' = Listed /\ Texts' = Texts
        /\ Phases' = Phases /\ Phases' = [Phases EXCEPT ![p] = "disposed"]
        /\ Contents' = [Contents EXCEPT ![p] = << >>]
    BY <1>2, <2>3, <2>5, <2>6, <2>7, <2>8, OneDocument
  <2>10. Phases[p] = "disposed"
    BY <2>5 DEF Phases
  <2>11. Promise!Dispose(p)
    BY <2>9, <2>10 DEF Promise!Dispose, Promise!Unlisted, Owners, Lengths, Phases, Contents,
       Listed, Texts
  <2> QED BY <2>11 DEF Promise!Next
<1> QED BY <1>2, <1>4, <1>5

\* INSERT: the next id begins its life.
LEMMA InsertMaps ==
  ASSUME MapInv, IdInv', TypeOK', NEW h \in Handler, InsertDocument(h)
  PROVE  [Promise!Next]_(Promise!doc)
<1>1. UNCHANGED <<files, disk, acked, tried, removed>>
  BY DEF InsertDocument, spool
<1>2. CASE UNCHANGED <<document, nextPage, upload>>
  BY <1>1, <1>2, CalmMaps
<1>3. ASSUME NEW p \in Page, p = nextPage, NEW u \in User, u = conn[h].idUser,
             NEW n \in Sizes, n = conn[h].req.size,
             ~Known(p), document \subseteq document',
             \A e \in document' : \/ e \in document
                                  \/ e.id = p /\ e.user = u /\ e.content = NULL,
             \E e \in document' : e.id = p /\ e.user = u,
             upload'[p] = [user |-> u, size |-> n],
             \A id \in Page : id # p => upload'[id] = upload[id]
      PROVE  Promise!Begin(p)
  <2>1. \A q \in Page : q # p => SameDoc(q)
    <3> SUFFICES ASSUME NEW q \in Page, q # p PROVE SameDoc(q)
      OBVIOUS
    <3>1. {d \in document' : d.id = q /\ d.user = upload[q].user} = rowsOf(q)
      BY <1>3 DEF rowsOf
    <3> QED BY <1>1, <1>3, <3>1, StaysSame DEF MapInv, contentOf, textAt, exists
  <2>2. contentOf(p) = << >> /\ rowsOf(p) = {} /\ p \notin acked
    BY <1>3, UnknownDoc DEF MapInv
  <2>3. textOf(p) = NULL /\ phaseOf(p) = "free"
    BY <1>3, <2>2, TablesBefore DEF MapInv, TextTable, PhaseTable
  <2>4. Known(p)' /\ pathOf(p)' = <<u, p>>
    BY <1>3, NobodyAssumption DEF Known, pathOf, getDocPath
  <2>5. <<u, p>> \notin DOMAIN files /\ <<u, p>> \notin removed
    <3>1. upload[p].user # u
      BY <1>3, NobodyAssumption DEF Known
    <3> QED BY <1>3, <3>1 DEF MapInv, IdInv, IdsGiven, RemovalInv, RemovedIsGone, Gone
  <2>6. contentOf(p)' = << >>
    BY <1>1, <2>4, <2>5 DEF contentOf, textAt, exists
  <2>7. phaseOf(p)' \in {"partial", "disposed"}
    <3>1. (pathOf(p) \notin removed /\ p \notin acked)'
      BY <1>1, <2>2, <2>4, <2>5
    <3>2. (pathOf(p) \in tried)' => phaseOf(p)' = "disposed"
      BY <2>4, <3>1, TablesAfter DEF PhaseTable
    <3>3. ~(pathOf(p) \in tried)' => phaseOf(p)' = "partial"
      BY <2>4, <3>1, TablesAfter DEF PhaseTable
    <3> QED BY <3>2, <3>3
  <2>8. (rowsOf(p) # {})' /\ textOf(p)' = NULL
    <3>1. rowsOf(p)' = {d \in document' : d.id = p /\ d.user = u}
      BY <1>3 DEF rowsOf
    <3>2. \A d \in document : d.id # p
      BY <1>3, RowKnown DEF MapInv
    <3>3. PICK e \in rowsOf(p)' : e.content = NULL
      BY <1>3, <3>1, <3>2
    <3> QED BY <3>3, TablesAfter DEF TextTable
  <2>9. /\ Owners' = [Owners EXCEPT ![p] = u] /\ Lengths' = [Lengths EXCEPT ![p] = n]
        /\ \E ph \in {"partial", "disposed"} : Phases' = [Phases EXCEPT ![p] = ph]
        /\ Listed' = [Listed EXCEPT ![p] = TRUE] /\ Contents' = Contents /\ Texts' = Texts
    <3>1. upload'[p].user = u /\ upload'[p].size = n
      BY <1>3
    <3> QED BY <2>1, <2>2, <2>3, <2>6, <2>7, <2>8, <3>1, OneDocument
  <2>10. Phases[p] = "free"
    BY <2>3 DEF Phases
  <2> QED BY <2>9, <2>10 DEF Promise!Begin, Owners, Lengths, Phases, Contents, Listed, Texts
<1>4. CASE /\ nextPage \in Page /\ ~Known(nextPage)
           /\ document \subseteq document'
           /\ \A e \in document' : \/ e \in document
                                   \/ /\ e.id = nextPage /\ e.user = conn[h].idUser
                                      /\ e.content = NULL
           /\ \E e \in document' : e.id = nextPage /\ e.user = conn[h].idUser
           /\ upload'[nextPage] = [user |-> conn[h].idUser, size |-> conn[h].req.size]
           /\ \A id \in Page : id # nextPage => upload'[id] = upload[id]
           /\ conn[h].idUser \in User /\ conn[h].req.size \in Sizes
  <2>1. PICK p \in Page : p = nextPage
    BY <1>4
  <2>2. PICK u \in User : u = conn[h].idUser
    BY <1>4
  <2>3. PICK n \in Sizes : n = conn[h].req.size
    BY <1>4
  <2>4. Promise!Begin(p)
    BY <1>3, <1>4, <2>1, <2>2, <2>3
  <2> QED BY <2>4 DEF Promise!Next
<1> QED BY <1>2, <1>4, InsertRows DEF MapInv


\* open() makes an empty file where there was none: nothing that can be seen.
LEMMA OpenMaps ==
  ASSUME MapInv, IdInv', NEW h \in Handler, OpenUpload(h)
  PROVE  UNCHANGED Promise!doc
<1>0. UNCHANGED <<document, upload, acked, tried, removed>> /\ conn[h].pc = "opening"
  BY DEF OpenUpload, At, database, history
<1>1. CASE UNCHANGED <<files, disk>>
  BY <1>0, <1>1, CalmMaps
<1>2. CASE /\ disk' = Append(disk, << >>)
           /\ files' = [p \in DOMAIN files \cup {UploadPath(h)} |->
                          IF p = UploadPath(h) THEN Len(disk) + 1 ELSE files[p]]
  <2>1. PICK path \in User \X Page : path = UploadPath(h)
    BY <1>0, UploadType DEF UploadPath, getDocPath, MapInv
  <2>2. path \notin DOMAIN files
    BY <1>0, <2>1 DEF MapInv, IdInv, UploadsApart, FileUnmade, At, exists
  <2>3. /\ disk \in Seq(Seq(Chunk)) /\ Len(disk) \in Nat
        /\ \A q \in DOMAIN files : files[q] \in 1..Len(disk)
    BY LenProperties DEF MapInv, TypeOK, SpoolOK
  <2>4. disk'[Len(disk) + 1] = << >> /\ \A i \in 1..Len(disk) : disk'[i] = disk[i]
    <3>1. << >> \in Seq(Chunk)
      OBVIOUS
    <3> QED BY <1>2, <2>3, <3>1, AppendProperties
  <2>5. /\ DOMAIN files' = DOMAIN files \cup {path} /\ disk'[files'[path]] = << >>
        /\ \A q \in DOMAIN files : disk'[files'[q]] = disk[files[q]]
    BY <1>2, <2>1, <2>2, <2>3, <2>4
  <2>6. \A q \in Page :
          (IF pathOf(q) \in DOMAIN files' THEN disk'[files'[pathOf(q)]] ELSE << >>) = contentOf(q)
    BY <2>2, <2>5 DEF contentOf, textAt, exists
  <2>7. \A q \in Page : SameDoc(q)
    BY <1>0, <2>6, StaysSame DEF MapInv, rowsOf
  <2> QED BY <2>7, NothingHappens
<1> QED BY <1>1, <1>2, OpenUploadEffect DEF MapInv, IdInv

\* write(): the content grows by the next chunk, unless the file was unlinked.
LEMMA ChunkMaps ==
  ASSUME "short" \notin Faults, MapInv, IdInv', TypeOK', NEW h \in Handler, ReceiveChunk(h)
  PROVE  [Promise!Next]_(Promise!doc)
<1>0. conn[h].pc = "receiving" /\ conn[h].pc \in UploadPC
  BY DEF ReceiveChunk, At, UploadPC
<1>1. PICK u \in User, p \in Page : u = conn[h].idUser /\ p = conn[h].idPage
  BY <1>0, UploadOwner DEF MapInv, IdInv
<1>2. PICK n \in Nat : n = conn[h].req.size - conn[h].left
  BY ReceiveChunkEffect DEF MapInv
<1>3. PICK f \in Nat : f = conn[h].file
  BY ConnType DEF MapInv, Connection
<1>4. /\ UNCHANGED <<document, files, upload, acked, tried, removed>>
      /\ n < upload[p].size /\ upload[p].user = u /\ upload[p].size \in Nat
  <2>1. upload[p].size = conn[h].req.size /\ upload[p].user = u
    BY <1>0, <1>1, UploadOwner DEF MapInv, IdInv
  <2> QED BY <1>2, <2>1, ReceiveChunkEffect DEF MapInv
<1>5. CASE UNCHANGED disk
  BY <1>4, <1>5, CalmMaps
<1>6. CASE /\ f \in 1..Len(disk) /\ f # NoFile
           /\ disk'[f] = Append(disk[f], <<p, n + 1>>)
           /\ \A i \in 1..Len(disk) : i # f => disk'[i] = disk[i]
  <2>1. Writing(h) /\ UploadPath(h) = <<u, p>>
    BY <1>0, <1>1, <1>3, <1>6 DEF Writing, At, UploadPath, getDocPath
  <2>2. \A q \in DOMAIN files : files[q] = f <=> q = <<u, p>>
    BY <1>3, <2>1 DEF MapInv, IdInv, FilesApart
  <2>3. disk[f] = First(p, n)
    BY <1>1, <1>2, <1>3, <2>1 DEF MapInv, Written, WritesAll
  <2>4. \A q \in DOMAIN files : files[q] \in 1..Len(disk)
    BY DEF MapInv, TypeOK, SpoolOK
  <2>5. \A q \in DOMAIN files : q # <<u, p>> => disk'[files[q]] = disk[files[q]]
    BY <1>6, <2>2, <2>4
  <2>6. /\ Known(p) /\ Known(p)' /\ pathOf(p) = <<u, p>> /\ pathOf(p)' = <<u, p>>
    BY <1>4, NobodyAssumption DEF pathOf, getDocPath, Known
  <2>7. \A q \in Page : pathOf(q) \notin DOMAIN files \/ pathOf(q) # <<u, p>> => SameDoc(q)
    <3> SUFFICES ASSUME NEW q \in Page, pathOf(q) \notin DOMAIN files \/ pathOf(q) # <<u, p>>
                 PROVE  SameDoc(q)
      OBVIOUS
    <3>1. (IF pathOf(q) \in DOMAIN files' THEN disk'[files'[pathOf(q)]] ELSE << >>) = contentOf(q)
      BY <1>4, <2>5 DEF contentOf, textAt, exists
    <3> QED BY <1>4, <3>1, StaysSame DEF MapInv, rowsOf
  <2>8. \A q \in Page : q # p => pathOf(q) # <<u, p>>
    BY DEF pathOf, getDocPath
  <2>9. CASE <<u, p>> \notin DOMAIN files
    <3>1. \A q \in Page : SameDoc(q)
      BY <2>6, <2>7, <2>8, <2>9
    <3> QED BY <3>1, NothingHappens
  <2>10. CASE <<u, p>> \in DOMAIN files
    <3>1. <<u, p>> \notin removed
      BY <2>10 DEF MapInv, RemovalInv, RemovedIsGone, Gone, exists
    <3>2. p \notin acked
      BY <1>0, <1>1 DEF MapInv, IdInv, UploadsApart
    <3>3. phaseOf(p) \in {"partial", "disposed"}
      BY <2>6, <3>1, <3>2, TablesBefore DEF MapInv, PhaseTable
    <3>4. phaseOf(p)' = phaseOf(p) /\ rowsOf(p)' = rowsOf(p) /\ textOf(p)' = textOf(p)
      BY <1>4 DEF phaseOf, rowsOf, textOf, pathOf
    <3>5. contentOf(p) = First(p, n) /\ Len(contentOf(p)) = n
      <4>1. contentOf(p) = disk[files[<<u, p>>]] /\ files[<<u, p>>] = f
        BY <2>2, <2>6, <2>10 DEF contentOf, textAt, exists
      <4>2. contentOf(p) = First(p, n)
        BY <2>3, <4>1
      <4>3. Len(First(p, n)) = n
        BY FirstFacts
      <4> QED BY <4>2, <4>3
    <3>6. contentOf(p)' = Append(contentOf(p), <<p, n + 1>>)
      BY <1>4, <1>6, <2>2, <2>6, <2>10, <2>3, <3>5 DEF contentOf, textAt, exists
    <3>7. Phases[p] \in {"partial", "disposed"} /\ Contents[p] = contentOf(p)
          /\ Lengths[p] = upload[p].size
      BY <3>3 DEF Phases, Contents, Lengths
    <3>8. \A q \in Page : q # p => SameDoc(q)
      BY <2>7, <2>8
    <3>9. /\ Owners' = Owners /\ Lengths' = Lengths /\ Phases' = Phases
          /\ Listed' = Listed /\ Texts' = Texts
          /\ Contents' = [Contents EXCEPT ![p] = contentOf(p)']
      BY <1>4, <3>4, <3>8, OneDocument
    <3>10. Contents' = [Contents EXCEPT ![p] = Append(Contents[p], <<p, Len(Contents[p]) + 1>>)]
           /\ Len(Contents[p]) < Lengths[p]
      BY <1>4, <3>5, <3>6, <3>7, <3>9
    <3>11. Promise!Grow(p)
      BY <3>7, <3>9, <3>10 DEF Promise!Grow, Owners, Lengths, Phases, Contents, Listed, Texts
    <3> QED BY <3>11 DEF Promise!Next
  <2> QED BY <2>9, <2>10
<1> QED BY <1>1, <1>2, <1>3, <1>5, <1>6, ReceiveChunkEffect DEF MapInv, Fails

\* The OK of an upload: the document is stored, unless it is to be removed.
LEMMA EndMaps ==
  ASSUME MapInv, Written', IdInv', TypeOK', NEW h \in Handler, ReceiveEnds(h)
  PROVE  [Promise!Next]_(Promise!doc)
<1>0. conn[h].pc = "receiving" /\ conn[h].pc \in UploadPC
  BY DEF ReceiveEnds, At, UploadPC
<1>1. PICK u \in User, p \in Page : u = conn[h].idUser /\ p = conn[h].idPage
  BY <1>0, UploadOwner DEF MapInv, IdInv
<1>2. /\ UNCHANGED <<document, files, disk, upload, tried, removed>>
      /\ acked' = acked \cup {p}
  BY <1>1 DEF ReceiveEnds, database, spool
<1>3. /\ upload[p].user = u /\ Known(p) /\ Known(p)'
      /\ pathOf(p) = <<u, p>> /\ pathOf(p)' = <<u, p>>
  BY <1>0, <1>1, <1>2, UploadOwner, NobodyAssumption DEF MapInv, IdInv, pathOf, getDocPath, Known
<1>4. \A q \in Page : q # p => SameDoc(q)
  BY <1>2, StaysSame DEF MapInv, contentOf, textAt, exists, rowsOf
<1>5. contentOf(p)' = contentOf(p) /\ rowsOf(p)' = rowsOf(p) /\ textOf(p)' = textOf(p)
  BY <1>2 DEF contentOf, textAt, exists, rowsOf, textOf, pathOf
<1>6. CASE <<u, p>> \in tried
  <2>1. phaseOf(p)' = phaseOf(p)
    <3>1. phaseOf(p) = IF <<u, p>> \in removed THEN "removed" ELSE "disposed"
      BY <1>3, <1>6, TablesBefore DEF MapInv, PhaseTable
    <3>2. phaseOf(p)' = IF <<u, p>> \in removed THEN "removed" ELSE "disposed"
      <4>1. (pathOf(p) \in tried)' /\ ((pathOf(p) \in removed)' <=> <<u, p>> \in removed)
        BY <1>2, <1>3, <1>6
      <4> QED BY <1>3, <4>1, TablesAfter DEF PhaseTable
    <3> QED BY <3>1, <3>2
  <2>2. \A q \in Page : SameDoc(q)
    BY <1>2, <1>4, <1>5, <2>1 DEF SameDoc
  <2> QED BY <2>2, NothingHappens
<1>7. CASE <<u, p>> \notin tried
  <2>1. <<u, p>> \notin removed /\ p \notin acked
    BY <1>0, <1>1, <1>7 DEF MapInv, RemovalInv, RemovedIsGone, IdInv, UploadsApart
  <2>2. phaseOf(p) = "partial"
    BY <1>3, <1>7, <2>1, TablesBefore DEF MapInv, PhaseTable
  <2>3. phaseOf(p)' = "stored"
    <3>1. (pathOf(p) \notin tried /\ pathOf(p) \notin removed /\ p \in acked)'
      BY <1>2, <1>3, <1>7, <2>1
    <3> QED BY <1>3, <3>1, TablesAfter DEF PhaseTable
  <2>4. rowsOf(p) # {}
    BY <1>3, <1>7 DEF MapInv, RemovalInv, RowOrTried, rowsOf, IdInv, IdsGiven, pathOf
  <2>5. contentOf(p) = Whole(p)
    <3>1. /\ <<u, p>> \in DOMAIN files => disk[files[<<u, p>>]] = Whole(p)
          /\ <<u, p>> \in DOMAIN files \/ upload[p].size = 0
      <4>1. p \in acked' /\ getDocPath(upload'[p].user, p) = <<u, p>>
        BY <1>2, <1>3 DEF getDocPath
      <4> QED BY <1>2, <1>7, <4>1 DEF Written, AckedWritten, exists, Whole
    <3>2. upload[p].size = 0 => Whole(p) = << >>
      BY DEF Whole
    <3> QED BY <1>3, <3>1, <3>2 DEF contentOf, textAt, exists
  <2>6. /\ Owners' = Owners /\ Lengths' = Lengths /\ Contents' = Contents
        /\ Listed' = Listed /\ Texts' = Texts
        /\ Phases' = [Phases EXCEPT ![p] = "stored"]
    BY <1>2, <1>4, <1>5, <2>3, OneDocument
  <2>7. /\ Phases[p] = "partial" /\ Listed[p]
        /\ Contents[p] = [k \in 1..Lengths[p] |-> <<p, k>>]
    BY <2>2, <2>4, <2>5 DEF Phases, Listed, Contents, Lengths, Whole
  <2>8. Promise!Store(p)
    BY <2>6, <2>7 DEF Promise!Store, Promise!Whole, Owners, Lengths, Phases, Contents, Listed,
       Texts
  <2> QED BY <2>8 DEF Promise!Next
<1> QED BY <1>6, <1>7

\* UPDATE: the document is indexed, if it still has its row.
LEMMA IndexMaps ==
  ASSUME MapInv, IdInv', TypeOK', NEW h \in Handler, Index(h)
  PROVE  [Promise!Next]_(Promise!doc)
<1>0. conn[h].pc = "indexing" /\ conn[h].pc \in UploadPC
  BY DEF Index, At, UploadPC
<1>1. PICK u \in User, p \in Page : u = conn[h].idUser /\ p = conn[h].idPage
  BY <1>0, UploadOwner DEF MapInv, IdInv
<1>2. /\ upload[p].user = u /\ Known(p) /\ upload[p].size \in Nat
      /\ pathOf(p) = <<u, p>> /\ UploadPath(h) = <<u, p>>
  BY <1>0, <1>1, UploadOwner, NobodyAssumption
  DEF MapInv, IdInv, pathOf, getDocPath, Known, UploadPath, TypeOK, HistoryOK
<1>3. PICK n \in 0..upload[p].size : conn[h].got = First(p, n)
  BY <1>0, <1>1 DEF MapInv, TextBegins, Beginning, At
<1>4. UNCHANGED <<files, disk, upload, acked, tried, removed>>
  BY IndexEffect DEF MapInv
<1> DEFINE new(d) == IF d.id = conn[h].idPage THEN [d EXCEPT !.content = conn[h].got] ELSE d
<1>5. document' = document \/ document' = {new(d) : d \in document}
  BY IndexEffect DEF MapInv
<1>6. CASE document' = document
  BY <1>4, <1>6, CalmMaps
<1>7. CASE document' = {new(d) : d \in document}
  <2>1. \A d \in document : /\ new(d).id = d.id /\ new(d).user = d.user
                            /\ d.id # p => new(d) = d
                            /\ d.id = p => new(d).content = First(p, n)
    BY <1>1, <1>3 DEF MapInv, TypeOK, TablesOK
  <2> HIDE DEF new
  <2>2. \A q \in Page : q # p => SameDoc(q)
    <3> SUFFICES ASSUME NEW q \in Page, q # p PROVE SameDoc(q)
      OBVIOUS
    <3>1. {d \in document' : d.id = q /\ d.user = upload[q].user} = rowsOf(q)
      BY <1>7, <2>1 DEF rowsOf
    <3> QED BY <1>4, <3>1, StaysSame DEF MapInv, contentOf, textAt, exists
  <2>3. CASE rowsOf(p) = {}
    <3>1. {d \in document' : d.id = p /\ d.user = upload[p].user} = {}
      BY <1>7, <2>1, <2>3 DEF rowsOf
    <3>2. SameDoc(p)
      BY <1>4, <2>3, <3>1, StaysSame DEF MapInv, contentOf, textAt, exists
    <3> QED BY <2>2, <3>2, NothingHappens
  <2>4. CASE rowsOf(p) # {}
    <3>1. PICK d \in rowsOf(p) : TRUE
      BY <2>4
    <3>2. d \in document /\ d.id = p /\ d.user = u
      BY <1>2, <3>1 DEF rowsOf
    <3>3. new(d) \in rowsOf(p)' /\ new(d).content = First(p, n)
      <4>1. rowsOf(p)' = {e \in document' : e.id = p /\ e.user = u}
        BY <1>2, <1>4 DEF rowsOf
      <4> QED BY <1>7, <2>1, <3>2, <4>1
    <3>4. textOf(p)' = First(p, n) /\ (rowsOf(p) # {})'
      BY <3>3, TablesAfter DEF TextTable
    <3>5. phaseOf(p)' = phaseOf(p) /\ contentOf(p)' = contentOf(p)
      BY <1>4 DEF phaseOf, contentOf, textAt, pathOf, exists
    <3>6. <<u, p>> \notin removed
      BY <3>2 DEF MapInv, RemovalInv, RemovedIsGone, Gone, NoRow
    <3>7. phaseOf(p) # "disposed" => n <= Len(contentOf(p))
      <4>1. Len(First(p, n)) = n
        <5>1. n \in Nat
          BY <1>2
        <5> QED BY <5>1, FirstFacts
      <4>2. <<u, p>> \notin tried => Printed(First(p, n), contentOf(p))
        BY <1>0, <1>2, <1>3 DEF MapInv, IndexInv, Indexed, At, contentOf
      <4>3. <<u, p>> \notin tried => n <= Len(contentOf(p))
        BY <4>1, <4>2 DEF Printed, IsPrefix
      <4> QED BY <1>2, <3>6, <4>3, TablesBefore DEF MapInv, PhaseTable
    <3>8. /\ Owners' = Owners /\ Lengths' = Lengths /\ Contents' = Contents
          /\ Listed' = Listed /\ Phases' = Phases
          /\ Texts' = [Texts EXCEPT ![p] = First(p, n)]
      BY <1>4, <2>2, <2>4, <3>4, <3>5, OneDocument
    <3>9. /\ Listed[p] /\ Lengths[p] = upload[p].size
          /\ Phases[p] # "disposed" => n <= Len(Contents[p])
      BY <2>4, <3>7 DEF Listed, Lengths, Phases, Contents
    <3>10. First(p, n) = SubSeq([k \in 1..Lengths[p] |-> <<p, k>>], 1, n) /\ n \in 0..Lengths[p]
      <4>1. n \in Nat
        BY <1>2
      <4>2. Beginning(First(p, n), p)
        BY DEF Beginning
      <4>3. IsPrefix(First(p, n), Whole(p)) /\ Len(First(p, n)) = n
            /\ First(p, n) \in Seq({p} \X Nat)
        BY <1>2, <4>1, <4>2, BeginningPrefix, FirstFacts
      <4>4. SubSeq(First(p, n), 1, n) = SubSeq(Whole(p), 1, n)
        BY <4>3 DEF IsPrefix
      <4>5. SubSeq(First(p, n), 1, n) = First(p, n)
        BY <4>3
      <4> QED BY <3>9, <4>4, <4>5 DEF Whole
    <3>11. Promise!SetText(p)
      <4> DEFINE t == First(p, n)
      <4>1. t = SubSeq([k \in 1..Lengths[p] |-> <<p, k>>], 1, n) /\ n \in 0..Lengths[p]
        BY <3>10
      <4> HIDE DEF t
      <4>2. Texts' = [Texts EXCEPT ![p] = SubSeq([k \in 1..Lengths[p] |-> <<p, k>>], 1, n)]
        BY <3>8, <4>1 DEF t
      <4>3. \E m \in 0..Lengths[p] :
              /\ Phases[p] # "disposed" => m <= Len(Contents[p])
              /\ Texts' = [Texts EXCEPT ![p] = SubSeq([k \in 1..Lengths[p] |-> <<p, k>>], 1, m)]
        BY <3>9, <4>1, <4>2
      <4> QED BY <3>8, <3>9, <4>3 DEF Promise!SetText, Promise!Whole, Owners, Lengths, Phases,
                 Contents, Listed, Texts
    <3> QED BY <3>11 DEF Promise!Next
  <2> QED BY <2>3, <2>4
<1> QED BY <1>5, <1>6, <1>7


\* Every other step leaves tables, spool and history as ArchiveSpec sees them.
LEMMA PrivateSteps ==
  ASSUME NEW h \in Handler, Step(h),
         ~Reply(h), ~RemoveRow(h), ~RemoveFile(h), ~InsertDocument(h), ~OpenUpload(h),
         ~ReceiveChunk(h), ~ReceiveEnds(h), ~Index(h)
  PROVE  UNCHANGED <<document, files, disk, upload, acked, tried, removed>>
<1>1. CASE \E r \in Request : ReadRequest(h, r)
  BY <1>1 DEF ReadRequest, database, spool, history
<1>2. CASE BadRequest(h) \/ PeerStalls(h) \/ Hangup(h) \/ ReceiveStops(h)
  BY <1>2 DEF BadRequest, PeerStalls, Hangup, ReceiveStops, database, spool, history
<1>3. CASE Search(h)
  BY <1>3 DEF Search, database, spool, history
<1>4. CASE ListCompanies(h)
  BY <1>4 DEF ListCompanies, Statement, database, spool, history
<1>5. CASE NewCompany(h)
  BY <1>5 DEF NewCompany, Statement, newCompany, database, spool, history
<1>6. CASE RemoveCompany(h)
  BY <1>6 DEF RemoveCompany, Statement, removeCompany, database, spool, history
<1>7. CASE OpenDownload(h) \/ SendChunk(h)
  BY <1>7 DEF OpenDownload, SendChunk, database, spool, history
<1>8. CASE Extract(h)
  BY <1>8 DEF Extract, database, spool, history
<1> QED BY <1>1, <1>2, <1>3, <1>4, <1>5, <1>6, <1>7, <1>8 DEF Step

\* Every step of the handlers is a step of ArchiveSpec, or none.
LEMMA NextMaps ==
  ASSUME "short" \notin Faults, MapInv, TypeOK', IdInv', Written', [Next]_vars
  PROVE  [Promise!Next]_(Promise!doc)
<1>1. ASSUME NEW h \in Handler, Step(h) PROVE [Promise!Next]_(Promise!doc)
  <2>1. CASE Reply(h)
    BY <2>1, ReplyMaps
  <2>2. CASE RemoveRow(h)
    BY <2>2, RemoveRowMaps
  <2>3. CASE RemoveFile(h)
    BY <2>3, RemoveFileMaps
  <2>4. CASE InsertDocument(h)
    BY <2>4, InsertMaps
  <2>5. CASE OpenUpload(h)
    BY <2>5, OpenMaps
  <2>6. CASE ReceiveChunk(h)
    BY <2>6, ChunkMaps
  <2>7. CASE ReceiveEnds(h)
    BY <2>7, EndMaps
  <2>8. CASE Index(h)
    BY <2>8, IndexMaps
  <2>9. CASE /\ ~Reply(h) /\ ~RemoveRow(h) /\ ~RemoveFile(h) /\ ~InsertDocument(h)
             /\ ~OpenUpload(h) /\ ~ReceiveChunk(h) /\ ~ReceiveEnds(h) /\ ~Index(h)
    <3>1. UNCHANGED <<document, files, disk, upload, acked, tried, removed>>
      BY <1>1, <2>9, PrivateSteps
    <3> QED BY <3>1, CalmMaps
  <2> QED BY <2>1, <2>2, <2>3, <2>4, <2>5, <2>6, <2>7, <2>8, <2>9
<1>2. CASE \A h \in Handler : ~Step(h)
  <2>1. UNCHANGED <<document, files, disk, upload, acked, tried, removed>>
    BY <1>2, OtherNext DEF MapInv
  <2> QED BY <2>1, CalmMaps
<1> QED BY <1>1, <1>2

\* Where write() stores all it is given, tables, spool and handlers together
\* implement ArchiveSpec, for any number of workers, users and documents and
\* under all the other faults: an id belongs to one upload for ever, its content
\* only grows, a stored document stays whole and listed until its owner wants it
\* removed, and nothing of a removed one ever shows again (proxy.cpp:178-418).
THEOREM ImplementsArchiveSpec ==
  ASSUME "short" \notin Faults
  PROVE  Spec => ImplementsPromise
<1>1. Init => Promise!Init
  BY InitMaps
<1>2. MapInv /\ TypeOK' /\ IdInv' /\ Written' /\ [Next]_vars => [Promise!Next]_(Promise!doc)
  BY NextMaps
<1>3. Spec => []MapInv
  BY MapInvariance
<1> QED
  BY <1>1, <1>2, <1>3, TypeCorrect, IdInvariance, WrittenInvariance, PTL
  DEF Spec, ImplementsPromise, Promise!Spec
=============================================================================
