---------------------------- MODULE SessionProofs ----------------------------
(***************************************************************************)
(* Proofs about Session, for every request of any length, sockets of any   *)
(* size and any choice of its faults: the types; that an OK the client was *)
(* told is true, but for what a write to the spool lost without a word     *)
(* (gap); and, of a client that lost nothing so (unsaid), that a download  *)
(* is a beginning of the document and a list or a table is shown as it was *)
(* sent.  The last one is about sequences of sequences: Sums makes their   *)
(* flattening a function of how many of them are taken, and the induction  *)
(* is on that number.                                                      *)
(***************************************************************************)
EXTENDS Session, InductionLemmas, SequenceTheorems

\* The requests whose OK says that something was done.
Changing == req.op \in StatusOps \cup {"UPLOAD"}

Working == spc \in {"request", "exec", "receiving"}

\* How many bytes of the document the worker has taken.
Pos == IF spc = "receiving" THEN req.size - left ELSE 0

\* Is it still going to take what is under way?
Taking == Working /\ (spc = "receiving" => left # 0)

\* How many bytes of the header are among the unread ones.
Ahead == IF spc = "request" THEN 1 ELSE 0

Typed ==
  /\ req \in Requests
  /\ todo \in Nat
  /\ Changing => c2s \in Seq(Nat) /\ s2c \in Seq(Nat) /\ stored \in Seq(Nat)

\* Nobody begins before the client does, only uploads send or receive a document,
\* and a worker that has not answered has said nothing.
Silent ==
  /\ cpc = "start" => spc = "request" /\ c2s = << >> /\ conn = "up" /\ stored = << >>
  /\ Changing => spc # "sending"
  /\ cpc = "sending" \/ spc = "receiving" => req.op = "UPLOAD"
  /\ Changing /\ Working => s2c = << >> /\ heard # "OK"

\* What was stored, unless a part of it was dropped.
StoredSo ==
  /\ \A i \in 1..Len(stored) : stored[i] = Chunk(i)
  /\ Len(stored) <= req.length
  /\ spc = "receiving" => \/ Len(stored) = req.size - left
                          \/ left = 0 /\ Len(stored) = req.size + 1

\* What is under way, behind what was taken, is in the order of the document, and
\* all of what was sent as long as the connection holds.
UnderWay ==
  /\ \A i \in 1..Len(c2s) : i > Ahead => c2s[i] = Chunk(Pos + i - Ahead)
  /\ Pos + Len(c2s) <= Ahead + req.length - todo
  /\ conn = "up" /\ cpc = "sending" => Pos + Len(c2s) = Ahead + req.length - todo

InOrder ==
  req.op = "UPLOAD" =>
    /\ todo <= req.length
    /\ ~gap => StoredSo
    /\ spc \in {"request", "exec"} => stored = << >>
    /\ spc = "receiving" => left \in Nat /\ left <= req.size /\ req.size - left <= req.length
    /\ Taking => UnderWay

Kept == IF req.op = "UPLOAD"
        THEN req.size <= req.length /\ (~gap => Len(stored) \in {req.size, req.size + 1})
        ELSE done

\* An OK on its way to a client that waits for it is as true as one that was heard.
Truthful ==
  Changing =>
    /\ s2c # << >> /\ Head(s2c) = OK /\ cpc \in {"start", "sending", "waiting"} => Kept
    /\ heard = "OK" => Kept

SessionInv == Typed /\ Silent /\ InOrder /\ Truthful

-----------------------------------------------------------------------------
\* What the code of a request tells of its other fields.
LEMMA RequestFields ==
  ASSUME NEW r \in Requests
  PROVE  /\ r.op = "UPLOAD" => r.length \in Nat /\ r.size \in Nat
         /\ r.op \in StatusOps => r.op # "UPLOAD" /\ r.tooLong \in BOOLEAN
BY RequestsAssumption DEF StatusOps

LEMMA PrefixProperties ==
  ASSUME NEW s \in Seq(Nat), NEW t \in Prefixes(s)
  PROVE  /\ t \in Seq(Nat)
         /\ Len(t) \in Nat /\ Len(s) \in Nat
         /\ Len(t) <= Len(s)
         /\ \A i \in 1..Len(t) : t[i] = s[i]
         /\ t # << >> => s # << >> /\ Head(t) = Head(s)
<1>1. PICK l \in 0..Len(s) : t = SubSeq(s, 1, l)
  BY DEF Prefixes
<1>2. Len(s) \in Nat /\ \A i \in 1..Len(s) : s[i] \in Nat
  BY LenProperties, ElementOfSeq
<1>3. l \in Int /\ \A i \in 1..l : s[i] \in Nat
  BY <1>1, <1>2
<1>4. /\ t \in Seq(Nat)
      /\ Len(t) = l
      /\ \A i \in 1..Len(t) : t[i] = s[i]
  BY <1>1, <1>2, <1>3, SubSeqProperties
<1>5. ASSUME t # << >> PROVE s # << >> /\ Head(t) = Head(s)
  <2>1. Len(t) \in Nat \ {0}
    BY <1>4, <1>5, EmptySeq
  <2>2. 1 \in 1..Len(t) /\ 1 \in 1..Len(s)
    BY <1>1, <1>2, <1>4, <2>1
  <2>3. Head(t) = t[1] /\ Head(s) = s[1]
    OBVIOUS
  <2>4. s # << >>
    BY <1>2, <2>2, EmptySeq
  <2> QED BY <1>4, <2>2, <2>3, <2>4
<1> QED BY <1>1, <1>2, <1>4, <1>5

LEMMA PrefixOfItself ==
  ASSUME NEW s \in Seq(Nat)
  PROVE  s \in Prefixes(s)
BY SubSeqFull, LenProperties DEF Prefixes

\* What a worker says first is all that is on its way.
LEMMA SayFirst ==
  ASSUME NEW bytes \in Seq(Nat), s2c = << >>, Say(bytes)
  PROVE  /\ s2c' \in Seq(Nat)
         /\ s2c' \in {<< >>, bytes}
         /\ cpc = "done" => s2c' = << >>
<1>1. << >> \o bytes = bytes /\ << >> \in Seq(Nat)
  BY ConcatEmptySeq, EmptySeq
<1> QED BY <1>1 DEF Say
-----------------------------------------------------------------------------
(* Steps that many actions have in common. *)

\* A worker is done, and its answer is true if it is OK and somebody listens.
LEMMA Answered ==
  ASSUME SessionInv, Changing, Working, cpc # "start",
         NEW bytes \in Seq(Nat), Leave(bytes),
         c2s' \in Seq(Nat),
         UNCHANGED <<req, conn, client, stored, gap>>,
         bytes # << >> /\ Head(bytes) = OK /\ cpc # "done" => Kept'
  PROVE  SessionInv'
<1>1. s2c = << >> /\ heard # "OK"
  BY DEF SessionInv, Silent
<1>2. /\ s2c' \in Seq(Nat)
      /\ s2c' \in {<< >>, bytes}
      /\ cpc = "done" => s2c' = << >>
  BY <1>1, SayFirst DEF Leave
<1>3. spc' = "closed" /\ cpc' = cpc /\ heard' = heard /\ todo' = todo /\ req' = req
  BY DEF Leave, client
<1>4. Typed'
  BY <1>2, <1>3 DEF SessionInv, Typed, Changing
<1>5. Silent'
  BY <1>3 DEF SessionInv, Silent, Working
<1>6. InOrder'
  BY <1>3 DEF SessionInv, InOrder, StoredSo, Taking, Working
<1>7. Truthful'
  BY <1>1, <1>2, <1>3 DEF Truthful
<1> QED BY <1>4, <1>5, <1>6, <1>7 DEF SessionInv

\* How far the worker has come in the document.
LEMMA PosType ==
  ASSUME SessionInv, req.op = "UPLOAD"
  PROVE  Pos \in Nat /\ Pos <= req.length /\ req.length \in Nat /\ req.size \in Nat
<1>1. req.length \in Nat /\ req.size \in Nat
  BY RequestFields DEF SessionInv, Typed
<1>2. CASE spc = "receiving"
  <2>1. left \in Nat /\ left <= req.size /\ req.size - left <= req.length
    BY <1>2 DEF SessionInv, InOrder
  <2> QED BY <1>1, <1>2, <2>1 DEF Pos
<1>3. CASE spc # "receiving"
  BY <1>1, <1>3 DEF Pos
<1> QED BY <1>1, <1>2, <1>3

\* Bytes under way are lost, and the client may go on sending.
LEMMA Broken ==
  ASSUME SessionInv, Changing, cpc # "start",
         NEW how \in {"closed", "reset", "silent"}, Break(how),
         UNCHANGED <<req, cpc, heard, server>>,
         todo' \in Nat, todo' <= todo
  PROVE  SessionInv'
<1>1. /\ c2s \in Seq(Nat) /\ s2c \in Seq(Nat) /\ stored \in Seq(Nat)
      /\ req \in Requests /\ todo \in Nat
  BY DEF SessionInv, Typed
<1>2. /\ c2s' \in Seq(Nat)
      /\ Len(c2s') \in Nat /\ Len(c2s) \in Nat
      /\ Len(c2s') <= Len(c2s)
      /\ \A i \in 1..Len(c2s') : c2s'[i] = c2s[i]
  BY <1>1, PrefixProperties DEF Break
<1>3. /\ s2c' \in Seq(Nat)
      /\ s2c' # << >> => s2c # << >> /\ Head(s2c') = Head(s2c)
  BY <1>1, PrefixProperties DEF Break
<1>4. /\ conn' # "up" /\ spc' = spc /\ left' = left /\ stored' = stored /\ done' = done
      /\ gap' = gap
  BY DEF Break, server
<1>5. Typed'
  BY <1>1, <1>2, <1>3, <1>4 DEF Typed, Changing
<1>6. Silent'
  BY <1>3, <1>4 DEF SessionInv, Silent, Changing, Working
<1>7. InOrder'
  <2> SUFFICES ASSUME req.op = "UPLOAD" PROVE InOrder'
    BY DEF InOrder
  <2>1. req.length \in Nat /\ Pos \in Nat
    BY PosType
  <2>2. Ahead \in Nat /\ Ahead' = Ahead /\ Pos' = Pos
    BY <1>4 DEF Ahead, Pos
  <2>3. todo' <= req.length
    BY <1>1, <2>1 DEF SessionInv, InOrder
  <2>4. ASSUME Taking PROVE UnderWay'
    <3>1. /\ \A i \in 1..Len(c2s) : i > Ahead => c2s[i] = Chunk(Pos + i - Ahead)
          /\ Pos + Len(c2s) <= Ahead + req.length - todo
      BY <2>4 DEF SessionInv, InOrder, UnderWay
    <3>2. \A i \in 1..Len(c2s') : i \in 1..Len(c2s) /\ c2s'[i] = c2s[i]
      BY <1>2
    <3>3. \A i \in 1..Len(c2s') : i > Ahead => c2s'[i] = Chunk(Pos + i - Ahead)
      BY <3>1, <3>2
    <3>4. Pos + Len(c2s') <= Ahead + req.length - todo'
      <4>1. todo' <= todo /\ todo \in Nat /\ todo' \in Nat
        BY <1>1
      <4>2. Len(c2s') <= Len(c2s) /\ Len(c2s') \in Nat /\ Len(c2s) \in Nat
        BY <1>2
      <4>3. Ahead \in Nat /\ Pos + Len(c2s) <= Ahead + req.length - todo
        BY <2>2, <3>1
      <4> QED BY <2>1, <4>1, <4>2, <4>3
    <3> QED BY <1>4, <2>2, <3>3, <3>4 DEF UnderWay
  <2>5. Taking' = Taking /\ (StoredSo => StoredSo')
    BY <1>4 DEF Taking, Working, StoredSo
  <2> QED BY <1>4, <2>3, <2>4, <2>5 DEF SessionInv, InOrder
<1>8. Truthful'
  BY <1>3, <1>4 DEF SessionInv, Truthful, Changing, Kept
<1> QED BY <1>5, <1>6, <1>7, <1>8 DEF SessionInv

\* A step that leaves alone what is under way, the worker, and what is left to send.
LEMMA Unmoved ==
  ASSUME SessionInv, cpc # "start", cpc' # "start",
         UNCHANGED <<req, c2s, todo, server>>,
         Changing => s2c' = s2c /\ (heard' = "OK" => heard = "OK"),
         conn' = "up" => conn = "up",
         cpc' \in {"sending", "waiting"} => cpc = "sending" \/ cpc = cpc'
  PROVE  SessionInv'
<1>1. /\ spc' = spc /\ left' = left /\ stored' = stored /\ done' = done
      /\ req' = req /\ c2s' = c2s /\ todo' = todo /\ gap' = gap
  BY DEF server
<1>2. Typed'
  BY <1>1 DEF SessionInv, Typed, Changing
<1>3. Silent'
  BY <1>1 DEF SessionInv, Silent, Changing, Working
<1>4. cpc' = "sending" => cpc = "sending"
  OBVIOUS
<1>5. InOrder'
  BY <1>1 DEF SessionInv, InOrder, StoredSo, UnderWay, Taking, Pos, Working, Ahead
<1>6. Truthful'
  BY <1>1 DEF SessionInv, Truthful, Changing, Kept
<1> QED BY <1>2, <1>3, <1>5, <1>6 DEF SessionInv
-----------------------------------------------------------------------------
(* The actions. *)

\* Requests whose OK promises nothing keep what little the invariant says of them.
LEMMA OtherRequests ==
  ASSUME SessionInv, ~Changing, Next
  PROVE  SessionInv'
<1> DEFINE Little == /\ req' = req /\ todo' \in Nat
                     /\ cpc' = "start" => cpc = "start" /\ UNCHANGED <<c2s, conn, spc, stored>>
                     /\ cpc' = "sending" => cpc = "sending"
                     /\ spc' = "receiving" => spc = "receiving"
<1>1. /\ req \in Requests /\ todo \in Nat
      /\ cpc = "start" => spc = "request" /\ conn = "up"
  BY DEF SessionInv, Typed, Silent
<1>2. req.op # "UPLOAD"
  BY DEF Changing
<1>3. Client => Little
  <2>1. Start => Little
    BY <1>2 DEF Start, Finish, server
  <2>2. SendChunk => Little
    BY <1>1 DEF SendChunk, Break, WriteFails, Finish, server
  <2>3. SendEnds => Little
    BY <1>1 DEF SendEnds, server
  <2>4. HearStatus => Little
    BY <1>1 DEF HearStatus, Proceed, Finish, server
  <2>5. Complain => Little
    BY <1>1 DEF Complain, Finish, server
  <2>6. Receive => Little
    BY <1>1 DEF Receive, Finish, server
  <2>7. Read => Little
    BY <1>1 DEF Read, Flush, Finish, server
  <2> QED BY <2>1, <2>2, <2>3, <2>4, <2>5, <2>6, <2>7 DEF Client
<1>4. Worker => Little
  BY <1>1, <1>2 DEF Worker, Refuse, ReadRequest, ExecStatus, ExecList, ExecDownload, ServeChunk,
              ExecUpload, StoreChunk, StoreStops, StoreEnds, Leave, client
<1>5. Fork \/ ChildExits \/ ServerSocketCloses \/ ClientSocketCloses \/ WaitForRest => Little
  BY <1>1 DEF Fork, ChildExits, ServerSocketCloses, ClientSocketCloses, WaitForRest, Break,
              client, server, net
<1>6. Fault \/ Kill \/ Crash => Little
  BY <1>1 DEF Fault, Kill, Crash, Finish, Break, client, server, net
<1>7. Little
  BY <1>3, <1>4, <1>5, <1>6 DEF Next
<1> HIDE DEF Little
<1>8. Changing' = FALSE
  BY <1>7 DEF Changing, Little
<1>9. Typed' /\ Silent' /\ InOrder' /\ Truthful'
  BY <1>1, <1>2, <1>7, <1>8 DEF SessionInv, Typed, Silent, InOrder, Truthful, Little
<1> QED BY <1>9 DEF SessionInv

LEMMA StartInv ==
  ASSUME SessionInv, Changing, Start
  PROVE  SessionInv'
<1>1. /\ spc = "request" /\ c2s = << >> /\ conn = "up" /\ stored = << >>
      /\ s2c = << >> /\ heard # "OK"
      /\ req \in Requests
  BY DEF Start, SessionInv, Silent, Working, Typed
<1>2. /\ req' = req /\ spc' = spc /\ conn' = conn /\ stored' = stored /\ s2c' = s2c
      /\ heard' = heard /\ left' = left /\ done' = done /\ gap' = gap
  BY DEF Start, server
<1>3. CASE /\ c2s' = <<Header>>
           /\ cpc' = IF req.op = "UPLOAD" THEN "sending" ELSE "waiting"
           /\ todo' = IF req.op = "UPLOAD" THEN req.length ELSE 0
  <2>1. req.op = "UPLOAD" => req.length \in Nat
    BY <1>1, RequestFields
  <2>2. c2s' \in Seq(Nat) /\ Len(c2s') = 1 /\ todo' \in Nat
    BY <1>3, <2>1 DEF Header
  <2>3. << >> \in Seq(Nat) /\ Len(<< >>) = 0
    BY EmptySeq
  <2>4. Typed' /\ Silent' /\ Truthful'
    BY <1>1, <1>2, <1>3, <2>2, <2>3 DEF Typed, Silent, Truthful, Changing, Working
  <2>5. InOrder'
    BY <1>1, <1>2, <1>3, <2>1, <2>2, <2>3
       DEF InOrder, StoredSo, UnderWay, Taking, Pos, Ahead, Working
  <2> QED BY <2>4, <2>5 DEF SessionInv
<1>4. CASE Finish("-1") /\ UNCHANGED <<c2s, todo>>
  <2>1. Typed' /\ Silent' /\ Truthful'
    BY <1>1, <1>2, <1>4 DEF SessionInv, Typed, Silent, Truthful, Changing, Working, Finish
  <2>2. InOrder'
    BY <1>1, <1>2, <1>4
       DEF SessionInv, InOrder, StoredSo, UnderWay, Taking, Pos, Ahead, Working, Finish
  <2> QED BY <2>1, <2>2 DEF SessionInv
<1> QED BY <1>3, <1>4 DEF Start

LEMMA SendChunkInv ==
  ASSUME SessionInv, Changing, SendChunk
  PROVE  SessionInv'
<1>1. cpc = "sending" /\ todo \in Nat /\ todo > 0
  BY DEF SendChunk, SessionInv, Typed
<1>2. UNCHANGED <<req, heard, server>>
  BY DEF SendChunk
<1>3. CASE /\ conn = "up"
           /\ c2s' = Append(c2s, Chunk(req.length - todo + 1))
           /\ todo' = todo - 1
           /\ UNCHANGED <<s2c, conn, cpc, result>>
  <2>1. /\ spc' = spc /\ left' = left /\ stored' = stored /\ done' = done
        /\ req' = req /\ heard' = heard /\ s2c' = s2c /\ conn' = conn /\ cpc' = cpc
        /\ gap' = gap
    BY <1>2, <1>3 DEF server
  <2>2. todo' = todo - 1
    BY <1>3
  <2>3. CASE req.op = "UPLOAD"
    <3>1. /\ req.length \in Nat /\ req.size \in Nat /\ Pos \in Nat
          /\ c2s \in Seq(Nat) /\ stored \in Seq(Nat)
      BY <2>3, PosType DEF SessionInv, Typed
    <3>2. todo <= req.length /\ Chunk(req.length - todo + 1) \in Nat
      BY <1>1, <2>3, <3>1 DEF SessionInv, InOrder, Chunk
    <3>3. /\ c2s' \in Seq(Nat)
          /\ Len(c2s) \in Nat
          /\ Len(c2s') = Len(c2s) + 1
          /\ \A i \in 1..Len(c2s) : c2s'[i] = c2s[i]
          /\ c2s'[Len(c2s) + 1] = Chunk(req.length - todo + 1)
      BY <1>3, <3>1, <3>2, AppendProperties, LenProperties
    <3>4. Ahead \in Nat /\ Ahead' = Ahead /\ Pos' = Pos
      BY <2>1 DEF Ahead, Pos
    <3>5. /\ Len(c2s) \in Nat /\ Pos \in Nat /\ req.length \in Nat
          /\ Len(c2s') = Len(c2s) + 1
      BY <3>1, <3>3
    <3>6. ASSUME Taking
          PROVE  /\ \A i \in 1..Len(c2s') : i > Ahead =>
                      c2s'[i] = Chunk(Pos + i - Ahead)
                 /\ Pos + Len(c2s') = Ahead + req.length - todo'
      <4>1. \A i \in 1..Len(c2s) : i > Ahead => c2s[i] = Chunk(Pos + i - Ahead)
        BY <2>3, <3>6 DEF SessionInv, InOrder, UnderWay
      <4>2. Pos + Len(c2s) = Ahead + req.length - todo
        BY <1>1, <1>3, <2>3, <3>6 DEF SessionInv, InOrder, UnderWay
      <4>3. req.length - todo + 1 = Pos + (Len(c2s) + 1) - Ahead
        BY <1>1, <3>5, <3>4, <4>2
      <4>4. ASSUME NEW i \in 1..Len(c2s'), i > Ahead
            PROVE  c2s'[i] = Chunk(Pos + i - Ahead)
        <5>1. CASE i \in 1..Len(c2s)
          BY <3>3, <4>1, <4>4, <5>1
        <5>2. CASE i = Len(c2s) + 1
          BY <3>3, <4>3, <5>2
        <5> QED BY <3>3, <5>1, <5>2
      <4>5. Pos + Len(c2s') = Ahead + req.length - todo'
        BY <1>1, <2>2, <3>5, <3>4, <4>2
      <4> QED BY <4>4, <4>5
    <3>7. Pos + Len(c2s') \in Nat
      BY <3>1, <3>3
    <3>8. todo' \in Nat /\ todo' <= req.length
      BY <1>1, <1>3, <3>1, <3>2
    <3>9. Typed' /\ Silent'
      BY <1>1, <2>1, <3>3, <3>8 DEF SessionInv, Typed, Silent, Changing, Working
    <3>10. InOrder'
      <4>1. Taking => UnderWay'
        BY <2>1, <3>4, <3>6, <3>7 DEF UnderWay
      <4>2. Taking' = Taking /\ (StoredSo => StoredSo')
        BY <2>1 DEF Taking, Working, StoredSo
      <4> QED BY <2>1, <2>3, <3>8, <4>1, <4>2 DEF SessionInv, InOrder
    <3>11. Truthful'
      BY <2>1 DEF SessionInv, Truthful, Changing, Kept
    <3> QED BY <3>9, <3>10, <3>11 DEF SessionInv
  <2> QED BY <1>1, <2>3 DEF SessionInv, Silent
<1>4. CASE conn \in {"closed", "silent", "reset"} /\ todo' = todo - 1 /\ Break("reset")
           /\ UNCHANGED <<cpc, result>>
  BY <1>1, <1>2, <1>4, Broken
<1>5. CASE conn = "silent" /\ todo' = todo - 1 /\ UNCHANGED <<c2s, s2c, conn, cpc, result>>
  <2>1. c2s \in Seq(Nat) /\ s2c \in Seq(Nat)
    BY DEF SessionInv, Typed
  <2>2. c2s' \in Prefixes(c2s) /\ s2c' \in Prefixes(s2c)
    BY <1>5, <2>1, PrefixOfItself
  <2>3. Break("silent")
    BY <1>5, <2>2 DEF Break
  <2> QED BY <1>1, <1>2, <1>5, <2>3, Broken
<1>6. CASE conn = "reset" /\ WriteFails /\ UNCHANGED <<c2s, s2c, conn, todo>>
  BY <1>1, <1>2, <1>6, Unmoved DEF WriteFails, Finish
<1>7. CASE cpc' = "complain" /\ UNCHANGED <<c2s, s2c, conn, todo, result>>
  BY <1>1, <1>2, <1>7, Unmoved
<1> QED BY <1>3, <1>4, <1>5, <1>6, <1>7 DEF SendChunk

\* Hearing the status is where the client comes to believe something.
LEMMA HearStatusInv ==
  ASSUME SessionInv, Changing, HearStatus
  PROVE  SessionInv'
<1>1. /\ cpc = "waiting" /\ cpc' \notin {"start", "sending", "waiting"}
      /\ UNCHANGED <<req, c2s, conn, todo, server>>
      /\ ~ReadsOn
  BY DEF HearStatus, Proceed, Finish, ReadsOn, Changing, StatusOps
<1>2. CASE s2c # << >> /\ s2c' = Tail(s2c)
           /\ heard' = IF Head(s2c) = OK THEN "OK" ELSE "ERR"
  <2>1. /\ spc' = spc /\ left' = left /\ stored' = stored /\ done' = done
        /\ req' = req /\ c2s' = c2s /\ conn' = conn /\ todo' = todo /\ gap' = gap
    BY <1>1 DEF server
  <2>2. ~Working
    BY <1>2 DEF SessionInv, Silent
  <2>3. s2c' \in Seq(Nat)
    BY <1>2, HeadTailProperties DEF SessionInv, Typed
  <2>4. Typed'
    BY <2>1, <2>3 DEF SessionInv, Typed, Changing
  <2>5. Silent'
    BY <1>1, <2>1, <2>2 DEF SessionInv, Silent, Changing, Working
  <2>6. InOrder'
    BY <2>1, <2>2 DEF SessionInv, InOrder, StoredSo, Taking, Working
  <2>7. Truthful'
    BY <1>1, <1>2, <2>1 DEF SessionInv, Truthful, Changing, Kept
  <2> QED BY <2>4, <2>5, <2>6, <2>7 DEF SessionInv
<1>3. CASE s2c' = s2c /\ heard' \in {"eof", "lost"}
  BY <1>1, <1>3, Unmoved
<1>4. \/ s2c # << >> /\ s2c' = Tail(s2c) /\ heard' = IF Head(s2c) = OK THEN "OK" ELSE "ERR"
      \/ s2c' = s2c /\ heard' \in {"eof", "lost"}
  BY DEF HearStatus
<1> QED BY <1>2, <1>3, <1>4

\* A client that has finished, or hears no more, is of no consequence.
LEMMA ClientInv ==
  ASSUME SessionInv, Changing, Client
  PROVE  SessionInv'
<1>1. CASE SendEnds
  BY <1>1, Unmoved DEF SendEnds, net
<1>2. CASE Complain
  <2>1. /\ cpc = "complain" /\ cpc' = "done" /\ s2c' \in {<< >>, s2c}
        /\ UNCHANGED <<req, c2s, conn, todo, heard, server>>
    BY <1>2 DEF Complain, Finish
  <2>2. /\ spc' = spc /\ left' = left /\ stored' = stored /\ done' = done /\ gap' = gap
        /\ req' = req /\ c2s' = c2s /\ conn' = conn /\ todo' = todo /\ heard' = heard
    BY <2>1 DEF server
  <2>3. s2c' \in Seq(Nat)
    BY <2>1, EmptySeq DEF SessionInv, Typed
  <2>4. Typed' /\ Silent'
    BY <2>1, <2>2, <2>3 DEF SessionInv, Typed, Silent, Changing, Working
  <2>5. InOrder'
    BY <2>1, <2>2 DEF SessionInv, InOrder, StoredSo, UnderWay, Taking, Pos, Working, Ahead
  <2>6. Truthful'
    BY <2>1, <2>2 DEF SessionInv, Truthful, Changing, Kept
  <2> QED BY <2>4, <2>5, <2>6 DEF SessionInv
<1>3. CASE Receive \/ Read
  <2>1. /\ cpc \in {"receiving", "reading"} /\ cpc' \in {cpc, "done"}
        /\ s2c' = s2c \/ (s2c # << >> /\ s2c' = Tail(s2c))
        /\ UNCHANGED <<req, c2s, conn, todo, heard, server>>
    BY <1>3 DEF Receive, Read, Flush, Finish
  <2>2. /\ spc' = spc /\ left' = left /\ stored' = stored /\ done' = done /\ gap' = gap
        /\ req' = req /\ c2s' = c2s /\ conn' = conn /\ todo' = todo /\ heard' = heard
    BY <2>1 DEF server
  <2>3. s2c' \in Seq(Nat)
    BY <2>1, HeadTailProperties DEF SessionInv, Typed
  <2>4. Working => s2c = << >>
    BY DEF SessionInv, Silent
  <2>5. Typed' /\ Silent'
    BY <2>1, <2>2, <2>3, <2>4 DEF SessionInv, Typed, Silent, Changing, Working
  <2>6. InOrder'
    BY <2>1, <2>2 DEF SessionInv, InOrder, StoredSo, UnderWay, Taking, Pos, Working, Ahead
  <2>7. Truthful'
    BY <2>1, <2>2 DEF SessionInv, Truthful, Changing, Kept
  <2> QED BY <2>5, <2>6, <2>7 DEF SessionInv
<1> QED BY <1>1, <1>2, <1>3, StartInv, SendChunkInv, HearStatusInv DEF Client

\* A worker that ends without a word.
LEMMA Gone ==
  ASSUME SessionInv, Changing, cpc # "start", spc' \in {"closed", "dead", "stuck"},
         UNCHANGED <<req, c2s, s2c, conn, client, stored, done, gap>>
  PROVE  SessionInv'
<1>1. cpc' = cpc /\ heard' = heard /\ todo' = todo
  BY DEF client
<1>2. Typed'
  BY <1>1 DEF SessionInv, Typed, Changing
<1>3. Silent'
  BY <1>1 DEF SessionInv, Silent, Changing, Working
<1>4. InOrder'
  BY <1>1 DEF SessionInv, InOrder, StoredSo, Taking, Working
<1>5. Truthful'
  BY <1>1 DEF SessionInv, Truthful, Changing, Kept
<1> QED BY <1>2, <1>3, <1>4, <1>5 DEF SessionInv

\* The code and the values leave the channel, the document stays.
LEMMA ReadRequestInv ==
  ASSUME SessionInv, Changing, ReadRequest
  PROVE  SessionInv'
<1>1. /\ spc = "request" /\ cpc # "start"
      /\ UNCHANGED <<req, s2c, conn, held, client, left, stored, sent, done, gap>>
  BY DEF ReadRequest
<1>2. CASE c2s # << >> /\ c2s' = Tail(c2s) /\ spc' = "exec"
  <2>1. cpc' = cpc /\ heard' = heard /\ todo' = todo
    BY <1>1 DEF client
  <2>2. c2s \in Seq(Nat) /\ todo \in Nat
    BY DEF SessionInv, Typed
  <2>3. /\ c2s' \in Seq(Nat)
        /\ Len(c2s) \in Nat /\ Len(c2s') \in Nat
        /\ Len(c2s') = Len(c2s) - 1
        /\ \A i \in 1..Len(c2s') : c2s'[i] = c2s[i + 1]
    BY <1>2, <2>2, HeadTailProperties, LenProperties
  <2>4. Typed' /\ Silent' /\ Truthful'
    BY <1>1, <1>2, <2>1, <2>3
       DEF SessionInv, Typed, Silent, Truthful, Changing, Working, Kept
  <2>5. InOrder'
    <3> SUFFICES ASSUME req.op = "UPLOAD" PROVE InOrder'
      BY <1>1 DEF InOrder
    <3>1. req.length \in Nat /\ stored = << >> /\ Len(stored) = 0
      BY <1>1, RequestFields, EmptySeq DEF SessionInv, InOrder, Typed
    <3>2. Ahead = 1 /\ Ahead' = 0
      BY <1>1, <1>2 DEF Ahead
    <3>3. /\ \A i \in 1..Len(c2s) : i > 1 => c2s[i] = Chunk(0 + i - 1)
          /\ 0 + Len(c2s) <= 1 + req.length - todo
          /\ conn = "up" /\ cpc = "sending" => 0 + Len(c2s) = 1 + req.length - todo
      BY <1>1, <3>1, <3>2 DEF SessionInv, InOrder, UnderWay, Taking, Pos, Working
    <3>4. ASSUME NEW i \in 1..Len(c2s') PROVE c2s'[i] = Chunk(0 + i - 0)
      <4>1. i + 1 \in 1..Len(c2s) /\ i + 1 > 1 /\ 0 + (i + 1) - 1 = 0 + i - 0
        BY <2>3
      <4> QED BY <2>3, <3>3, <4>1
    <3>5. /\ 0 + Len(c2s') <= 0 + req.length - todo
          /\ conn = "up" /\ cpc = "sending" => 0 + Len(c2s') = 0 + req.length - todo
      BY <2>2, <2>3, <3>1, <3>3
    <3>6. todo <= req.length
      BY DEF SessionInv, InOrder
    <3>7. UnderWay'
      BY <1>1, <1>2, <2>1, <3>2, <3>4, <3>5 DEF UnderWay, Pos
    <3>8. StoredSo'
      BY <1>1, <1>2, <3>1 DEF StoredSo
    <3> QED BY <1>1, <1>2, <2>1, <3>1, <3>6, <3>7, <3>8 DEF InOrder
  <2> QED BY <2>4, <2>5 DEF SessionInv
<1>3. CASE spc' \in {"closed", "dead"} /\ UNCHANGED c2s
  BY <1>1, <1>3, Gone
<1> QED BY <1>2, <1>3 DEF ReadRequest

\* Handlers that answer once.
LEMMA ExecStatusInv ==
  ASSUME SessionInv, Changing, ExecStatus
  PROVE  SessionInv'
<1>1. /\ spc = "exec" /\ req.op # "UPLOAD" /\ c2s \in Seq(Nat)
      /\ UNCHANGED <<req, c2s, conn, client, stored, gap>>
  BY DEF ExecStatus, SessionInv, Typed, StatusOps
<1>2. cpc # "start" /\ Working
  BY <1>1 DEF SessionInv, Silent, Working
<1>3. <<OK>> \in Seq(Nat) /\ ErrorReply \in Seq(Nat) /\ Head(ErrorReply) # OK
      /\ << >> \in Seq(Nat)
  BY EmptySeq DEF OK, ERR, Msg, ErrorReply
<1>4. CASE Leave(<<OK>>) /\ done' = TRUE
  <2>1. Kept'
    BY <1>1, <1>4 DEF Kept
  <2> QED BY <1>1, <1>2, <1>3, <1>4, <2>1, Answered
<1>5. CASE Leave(ErrorReply)
  BY <1>1, <1>2, <1>3, <1>5, Answered
<1>6. CASE Leave(<< >>)
  BY <1>1, <1>2, <1>3, <1>6, Answered
<1> QED BY <1>4, <1>5, <1>6 DEF ExecStatus

LEMMA ExecUploadInv ==
  ASSUME SessionInv, Changing, ExecUpload
  PROVE  SessionInv'
<1>1. /\ spc = "exec" /\ req.op = "UPLOAD" /\ c2s \in Seq(Nat)
      /\ UNCHANGED <<req, c2s, conn, client, stored, done, gap>>
  BY DEF ExecUpload, SessionInv, Typed
<1>2. cpc # "start" /\ Working
  BY <1>1 DEF SessionInv, Silent, Working
<1>3. CASE spc' = "receiving" /\ left' = req.size /\ UNCHANGED s2c
  <2>1. cpc' = cpc /\ heard' = heard /\ todo' = todo
    BY <1>1 DEF client
  <2>2. /\ req.size \in Nat /\ stored = << >> /\ Len(stored) = 0
    BY <1>1, RequestFields, EmptySeq DEF SessionInv, InOrder, Typed
  <2>3. Typed' /\ Silent' /\ Truthful'
    BY <1>1, <1>2, <1>3, <2>1
       DEF SessionInv, Typed, Silent, Truthful, Changing, Working, Kept
  <2>4. Ahead' = Ahead /\ Pos = 0 /\ Pos' = 0
    BY <1>1, <1>3, <2>2 DEF Ahead, Pos
  <2>5. UnderWay
    BY <1>1, <1>2 DEF SessionInv, InOrder, Taking
  <2>6. UnderWay'
    BY <1>1, <2>1, <2>4, <2>5 DEF UnderWay
  <2>7. StoredSo' /\ req.length \in Nat
    BY <1>1, <1>3, <2>2, PosType DEF StoredSo
  <2>8. InOrder'
    BY <1>1, <1>3, <2>1, <2>2, <2>6, <2>7 DEF SessionInv, InOrder
  <2> QED BY <2>3, <2>8 DEF SessionInv
<1>4. CASE Leave(ErrorReply)
  <2>1. ErrorReply \in Seq(Nat) /\ Head(ErrorReply) # OK
    BY DEF OK, ERR, Msg, ErrorReply
  <2> QED BY <1>1, <1>2, <1>4, <2>1, Answered
<1> QED BY <1>3, <1>4 DEF ExecUpload

\* The bytes from n + 1 on are as many fewer, and come n places earlier.
LEMMA SkipProperties ==
  ASSUME NEW s \in Seq(Nat), NEW n \in 1..Len(s)
  PROVE  /\ SubSeq(s, n + 1, Len(s)) \in Seq(Nat)
         /\ Len(SubSeq(s, n + 1, Len(s))) = Len(s) - n
         /\ \A i \in 1..(Len(s) - n) : SubSeq(s, n + 1, Len(s))[i] = s[n + i]
<1>1. Len(s) \in Nat /\ \A i \in 1..Len(s) : s[i] \in Nat
  BY LenProperties, ElementOfSeq
<1>2. n + 1 \in Int /\ \A i \in (n + 1)..Len(s) : s[i] \in Nat
  BY <1>1
<1>3. /\ SubSeq(s, n + 1, Len(s)) \in Seq(Nat)
      /\ Len(SubSeq(s, n + 1, Len(s))) =
           IF n + 1 <= Len(s) THEN Len(s) - (n + 1) + 1 ELSE 0
      /\ \A i \in 1..(Len(s) - (n + 1) + 1) : SubSeq(s, n + 1, Len(s))[i] = s[n + 1 + i - 1]
  BY <1>1, <1>2, SubSeqProperties
<1>4. /\ (IF n + 1 <= Len(s) THEN Len(s) - (n + 1) + 1 ELSE 0) = Len(s) - n
      /\ Len(s) - (n + 1) + 1 = Len(s) - n
      /\ \A i \in 1..(Len(s) - n) : n + 1 + i - 1 = n + i
  BY <1>1
<1> QED BY <1>3, <1>4

\* What copy() hands to out() is a beginning of what it took, and passes max by one
\* byte at most, when there are more.
LEMMA TakenProperties ==
  ASSUME NEW s \in Seq(Nat), NEW n \in 1..Len(s), NEW max \in Nat \ {0}
  PROVE  LET taken == TakenOf(SubSeq(s, 1, n), max)
         IN /\ taken \in Seq(Nat)
            /\ Len(taken) = IF n <= max THEN n ELSE max + 1
            /\ \A i \in 1..Len(taken) : i \in 1..Len(s) /\ taken[i] = s[i]
<1>1. Len(s) \in Nat /\ \A i \in 1..Len(s) : s[i] \in Nat
  BY LenProperties, ElementOfSeq
<1> DEFINE b == SubSeq(s, 1, n)
<1>2. b \in Seq(Nat) /\ Len(b) = n /\ \A i \in 1..n : i \in 1..Len(s) /\ b[i] = s[i]
  <2>1. n \in Int /\ \A i \in 1..n : s[i] \in Nat
    BY <1>1
  <2> QED BY <1>1, <2>1, SubSeqProperties
<1> HIDE DEF b
<1>3. CASE n <= max
  BY <1>2, <1>3 DEF TakenOf, b
<1>4. CASE ~(n <= max)
  <2>1. max + 1 \in 1..n /\ max + 1 \in Int
    BY <1>1, <1>4
  <2>2. \A i \in 1..(max + 1) : i \in 1..n /\ b[i] \in Nat
    BY <1>1, <1>2, <2>1
  <2>3. /\ SubSeq(b, 1, max + 1) \in Seq(Nat)
        /\ Len(SubSeq(b, 1, max + 1)) = max + 1
        /\ \A i \in 1..(max + 1) : SubSeq(b, 1, max + 1)[i] = b[i]
    BY <1>2, <2>1, <2>2, SubSeqProperties
  <2>4. TakenOf(b, max) = SubSeq(b, 1, max + 1)
    BY <1>2, <1>4 DEF TakenOf
  <2> QED BY <1>2, <1>4, <2>2, <2>3, <2>4 DEF b
<1> QED BY <1>3, <1>4

\* What is stored next is what comes next in the document, unless part of it is lost.
LEMMA StoreChunkInv ==
  ASSUME SessionInv, Changing, StoreChunk
  PROVE  SessionInv'
<1>1. /\ spc = "receiving" /\ left > 0
      /\ UNCHANGED <<req, conn, client, done>>
  BY DEF StoreChunk
<1>2. /\ cpc # "start" /\ Working
      /\ c2s \in Seq(Nat) /\ stored \in Seq(Nat) /\ todo \in Nat /\ req \in Requests
      /\ req.op = "UPLOAD"
  BY <1>1 DEF SessionInv, Silent, Working, Typed
<1>3. /\ req.length \in Nat /\ req.size \in Nat
      /\ left \in Nat \ {0} /\ left <= req.size /\ req.size - left <= req.length
      /\ Pos = req.size - left /\ Ahead = 0 /\ todo <= req.length
  BY <1>1, <1>2, PosType DEF SessionInv, InOrder, Pos, Ahead
<1>4. /\ \A i \in 1..Len(c2s) : i > 0 => c2s[i] = Chunk(Pos + i - 0)
      /\ Pos + Len(c2s) <= 0 + req.length - todo
      /\ conn = "up" /\ cpc = "sending" => Pos + Len(c2s) = 0 + req.length - todo
  BY <1>1, <1>2, <1>3 DEF SessionInv, InOrder, UnderWay, Taking
<1>5. cpc' = cpc /\ heard' = heard /\ todo' = todo /\ req' = req /\ conn' = conn
  BY <1>1 DEF client
<1>6. PICK n \in 1..Len(c2s) :
        LET taken == TakenOf(SubSeq(c2s, 1, n), left)
        IN /\ c2s' = SubSeq(c2s, n + 1, Len(c2s))
           /\ \/ /\ \/ stored' = stored \o taken /\ UNCHANGED gap
                    \/ /\ Fails("short")
                       /\ \E part \in Prefixes(taken) : stored' = stored \o part
                       /\ gap' = TRUE
                 /\ left' = IF n <= left THEN left - n ELSE 0
                 /\ UNCHANGED <<spc, s2c>>
              \/ /\ Fails("write")
                 /\ Leave(ErrorReply)
                 /\ UNCHANGED <<stored, left, gap>>
  BY DEF StoreChunk
<1>7. PICK taken : taken = TakenOf(SubSeq(c2s, 1, n), left)
  OBVIOUS
<1>n. n \in 1..Len(c2s) /\ Len(c2s) \in Nat /\ n \in Nat
  BY <1>2, <1>6, LenProperties
<1>8. /\ taken \in Seq(Nat) /\ Len(taken) = IF n <= left THEN n ELSE left + 1
      /\ \A i \in 1..Len(taken) : i \in 1..Len(c2s) /\ taken[i] = c2s[i]
  <2>1. c2s \in Seq(Nat) /\ n \in 1..Len(c2s) /\ left \in Nat \ {0}
    BY <1>2, <1>3, <1>n
  <2>2. PICK bytes \in Seq(Nat) : bytes = c2s
    BY <2>1
  <2>3. PICK k \in 1..Len(bytes) : k = n
    BY <2>1, <2>2
  <2>4. PICK max \in Nat \ {0} : max = left
    BY <2>1
  <2>5. PICK b : b = TakenOf(SubSeq(bytes, 1, k), max)
    OBVIOUS
  <2>6. /\ b \in Seq(Nat) /\ Len(b) = IF k <= max THEN k ELSE max + 1
        /\ \A i \in 1..Len(b) : i \in 1..Len(bytes) /\ b[i] = bytes[i]
    BY <2>5, TakenProperties
  <2>7. b = taken
    BY <1>7, <2>2, <2>3, <2>4, <2>5
  <2> QED BY <2>2, <2>3, <2>4, <2>6, <2>7
<1>9. /\ c2s' \in Seq(Nat) /\ Len(c2s) \in Nat
      /\ Len(c2s') = Len(c2s) - n
      /\ \A i \in 1..(Len(c2s) - n) : c2s'[i] = c2s[n + i]
  BY <1>2, <1>6, <1>n, SkipProperties
<1>10. CASE /\ \/ stored' = stored \o taken /\ UNCHANGED gap
               \/ gap' = TRUE /\ \E part \in Prefixes(taken) : stored' = stored \o part
            /\ left' = IF n <= left THEN left - n ELSE 0
            /\ UNCHANGED <<spc, s2c>>
  <2>1. stored' \in Seq(Nat)
    <3>1. \A part \in Prefixes(taken) : part \in Seq(Nat)
      BY <1>8, PrefixProperties
    <3>2. PICK part \in Seq(Nat) : stored' = stored \o part
      BY <1>8, <1>10, <3>1
    <3> QED BY <1>2, <3>2, ConcatProperties
  <2>2. s2c = << >> /\ heard # "OK" /\ spc' = spc /\ s2c' = s2c
    BY <1>2, <1>10 DEF SessionInv, Silent
  <2>3. Typed' /\ Silent' /\ Truthful'
    BY <1>1, <1>2, <1>5, <1>9, <2>1, <2>2
       DEF SessionInv, Typed, Silent, Truthful, Changing, Working
  <2>4. left' \in Nat /\ left' <= req.size /\ req.size - left' <= req.length
    <3>1. \A len, size, l, m, k, t \in Nat :
            k <= m /\ l <= size /\ (size - l) + m <= 0 + len - t =>
              IF k <= l THEN l - k \in Nat /\ l - k <= size /\ size - (l - k) <= len
              ELSE 0 \in Nat /\ 0 <= size /\ size - 0 <= len
      OBVIOUS
    <3>2. n <= Len(c2s) /\ left \in Nat
      BY <1>3, <1>n
    <3>3. IF n <= left
          THEN left - n \in Nat /\ left - n <= req.size /\ req.size - (left - n) <= req.length
          ELSE 0 \in Nat /\ 0 <= req.size /\ req.size - 0 <= req.length
      BY <1>2, <1>3, <1>4, <1>n, <3>1, <3>2
    <3> QED BY <1>10, <3>3
  <2>5. ASSUME ~gap' PROVE StoredSo'
    <3>1. ~gap /\ stored' = stored \o taken
      BY <1>10, <2>5
    <3>2. /\ \A i \in 1..Len(stored) : stored[i] = Chunk(i)
          /\ Len(stored) = req.size - left
      BY <1>1, <1>2, <1>3, <3>1 DEF SessionInv, InOrder, StoredSo
    <3>3. /\ Len(stored') = Len(stored) + Len(taken)
          /\ \A i \in 1..Len(stored') :
               stored'[i] = IF i <= Len(stored) THEN stored[i] ELSE taken[i - Len(stored)]
          /\ Len(stored) \in Nat /\ Len(taken) \in Nat
      <4>1. Len(stored) \in Nat /\ Len(taken) \in Nat
        BY <1>2, <1>8, LenProperties
      <4>2. PICK all : all = stored'
        OBVIOUS
      <4>3. /\ Len(all) = Len(stored) + Len(taken)
            /\ \A i \in 1..(Len(stored) + Len(taken)) :
                 all[i] = IF i <= Len(stored) THEN stored[i] ELSE taken[i - Len(stored)]
        BY <1>2, <1>8, <3>1, <4>2, ConcatProperties
      <4> QED BY <4>1, <4>2, <4>3
    <3>4. ASSUME NEW i \in 1..Len(stored') PROVE stored'[i] = Chunk(i)
      <4>1. CASE i <= Len(stored)
        <5>1. i \in 1..Len(stored)
          BY <3>3, <4>1
        <5> QED BY <3>2, <3>3, <4>1, <5>1
      <4>2. CASE ~(i <= Len(stored))
        <5>1. i - Len(stored) \in 1..Len(taken)
          BY <3>3, <4>2
        <5>2. taken[i - Len(stored)] = c2s[i - Len(stored)] /\ i - Len(stored) \in 1..Len(c2s)
          BY <1>8, <5>1
        <5>3. i - Len(stored) > 0 /\ Pos + (i - Len(stored)) - 0 = i
          <6>1. \A j, p \in Nat, q \in 1..Len(taken) : j - p = q => j - p > 0 /\ p + (j - p) - 0 = j
            BY <3>3
          <6>2. i \in Nat /\ Len(stored) \in Nat /\ Pos = Len(stored)
            BY <1>3, <3>2, <3>3
          <6> QED BY <5>1, <6>1, <6>2
        <5>4. c2s[i - Len(stored)] = Chunk(Pos + (i - Len(stored)) - 0)
          BY <1>4, <5>2, <5>3
        <5> QED BY <3>3, <4>2, <5>2, <5>3, <5>4
      <4> QED BY <4>1, <4>2
    <3>5. Len(stored') <= req.length
      <4>1. Len(taken) <= Len(c2s)
        BY <1>8, <1>9, <3>3
      <4>2. \A p, a, m, len, t \in Nat : a <= m /\ p + m <= 0 + len - t => p + a <= len
        OBVIOUS
      <4>3. Pos = Len(stored) /\ Len(stored') = Len(stored) + Len(taken)
        BY <1>3, <3>2, <3>3
      <4>4. /\ Len(stored) \in Nat /\ Len(taken) \in Nat /\ Len(c2s) \in Nat
            /\ req.length \in Nat /\ todo \in Nat
        BY <1>2, <1>3, <1>9, <3>3
      <4>5. Len(stored) + Len(c2s) <= 0 + req.length - todo
        BY <1>4, <4>3
      <4>6. Len(stored) + Len(taken) <= req.length
        BY <4>1, <4>2, <4>4, <4>5
      <4> QED BY <4>3, <4>6
    <3>6. Len(stored') = req.size - left' \/ (left' = 0 /\ Len(stored') = req.size + 1)
      <4>1. \A size, l, k, m, rest, len \in Nat :
              /\ l <= size
              /\ m = IF k <= l THEN k ELSE l + 1
              /\ rest = IF k <= l THEN l - k ELSE 0
              /\ len = (size - l) + m
              => len = size - rest \/ (rest = 0 /\ len = size + 1)
        OBVIOUS
      <4>2. /\ left \in Nat /\ left' \in Nat /\ n \in Nat /\ Len(stored') \in Nat
            /\ Len(stored') = (req.size - left) + Len(taken)
        BY <1>3, <1>n, <2>4, <3>2, <3>3
      <4>3. /\ left' = IF n <= left THEN left - n ELSE 0
            /\ Len(taken) = IF n <= left THEN n ELSE left + 1
        BY <1>8, <1>10
      <4>4. req.size \in Nat /\ Len(taken) \in Nat /\ left <= req.size
        BY <1>3, <3>3
      <4> QED BY <4>1, <4>2, <4>3, <4>4
    <3> QED BY <1>5, <3>4, <3>5, <3>6 DEF StoredSo
  <2>6. ASSUME left' # 0 PROVE UnderWay'
    <3>1. /\ n <= left /\ left' = left - n /\ Pos' = req.size - left' /\ Ahead' = 0
      BY <1>1, <1>5, <1>10, <2>2, <2>6 DEF Pos, Ahead
    <3>2. Pos' = Pos + n /\ Pos \in Nat
      BY <1>3, <3>1
    <3>3. ASSUME NEW i \in 1..Len(c2s') PROVE c2s'[i] = Chunk(Pos' + i - 0)
      <4>1. /\ i \in 1..(Len(c2s) - n) /\ n + i \in 1..Len(c2s) /\ n + i > 0
            /\ Pos + (n + i) - 0 = Pos' + i - 0
        BY <1>9, <3>2
      <4> QED BY <1>4, <1>9, <4>1
    <3>4. /\ Pos' + Len(c2s') <= 0 + req.length - todo
          /\ conn = "up" /\ cpc = "sending" => Pos' + Len(c2s') = 0 + req.length - todo
      <4>1. Pos' + Len(c2s') = Pos + Len(c2s)
        BY <1>9, <3>2
      <4> QED BY <1>4, <4>1
    <3> QED BY <1>5, <3>1, <3>3, <3>4 DEF UnderWay
  <2>7. InOrder'
    BY <1>1, <1>3, <1>5, <2>2, <2>4, <2>5, <2>6 DEF InOrder, Taking
  <2> QED BY <2>3, <2>7 DEF SessionInv
<1>11. CASE Leave(ErrorReply) /\ UNCHANGED <<stored, left, gap>>
  <2>1. ErrorReply \in Seq(Nat) /\ Head(ErrorReply) # OK
    BY DEF OK, ERR, Msg, ErrorReply
  <2> QED BY <1>1, <1>2, <1>9, <1>11, <2>1, Answered
<1> QED BY <1>6, <1>7, <1>10, <1>11

\* The OK for an upload that its client cut short is heard by nobody.
LEMMA StoreStopsInv ==
  ASSUME SessionInv, Changing, StoreStops
  PROVE  SessionInv'
<1>1. /\ spc = "receiving" /\ c2s \in Seq(Nat)
      /\ UNCHANGED <<req, c2s, conn, client, stored, gap>>
  BY DEF StoreStops, SessionInv, Typed
<1>2. cpc # "start" /\ Working
  BY <1>1 DEF SessionInv, Silent, Working
<1>3. <<OK>> \in Seq(Nat) /\ ErrorReply \in Seq(Nat) /\ Head(ErrorReply) # OK
  BY DEF OK, ERR, Msg, ErrorReply
<1>4. CASE peerGone /\ Leave(<<OK>>)
  BY <1>1, <1>2, <1>3, <1>4, Answered DEF peerGone
<1>5. CASE Leave(ErrorReply)
  BY <1>1, <1>2, <1>3, <1>5, Answered
<1> QED BY <1>4, <1>5 DEF StoreStops

LEMMA StoreEndsInv ==
  ASSUME SessionInv, Changing, StoreEnds
  PROVE  SessionInv'
<1>1. /\ spc = "receiving" /\ left = 0 /\ Leave(<<OK>>)
      /\ c2s \in Seq(Nat) /\ stored \in Seq(Nat)
      /\ UNCHANGED <<req, c2s, conn, client, stored, done, gap>>
  BY DEF StoreEnds, SessionInv, Typed
<1>2. cpc # "start" /\ Working
  BY <1>1 DEF SessionInv, Silent, Working
<1>3. <<OK>> \in Seq(Nat)
  BY DEF OK
<1>4. ASSUME cpc # "done" PROVE Kept'
  <2>1. CASE req.op = "UPLOAD"
    <3>1. req.size - left <= req.length /\ req.size \in Nat
      BY <1>1, <2>1, PosType DEF SessionInv, InOrder
    <3>2. ~gap => Len(stored) \in {req.size - left, req.size + 1}
      BY <1>1, <2>1 DEF SessionInv, InOrder, StoredSo
    <3>3. req.size - left = req.size /\ gap' = gap /\ stored' = stored /\ req' = req
      BY <1>1, <3>1
    <3> QED BY <2>1, <3>1, <3>2, <3>3 DEF Kept
  <2>2. CASE req.op # "UPLOAD"
    BY <1>1, <2>2 DEF SessionInv, Silent
  <2> QED BY <2>1, <2>2
<1> QED BY <1>1, <1>2, <1>3, <1>4, Answered

LEMMA WorkerInv ==
  ASSUME SessionInv, Changing, Worker
  PROVE  SessionInv'
<1>1. CASE Refuse
  <2>1. /\ Working /\ cpc # "start" /\ Leave(ErrorReply) /\ c2s' \in Seq(Nat)
        /\ UNCHANGED <<req, conn, client, stored, gap>>
    BY <1>1 DEF Refuse, Working, SessionInv, Typed
  <2>2. ErrorReply \in Seq(Nat) /\ Head(ErrorReply) # OK
    BY DEF OK, ERR, Msg, ErrorReply
  <2> QED BY <2>1, <2>2, Answered
<1>2. ~(ExecList \/ ExecDownload \/ ServeChunk)
  BY DEF ExecList, ExecDownload, ServeChunk, SessionInv, Silent, Changing, StatusOps
<1> QED BY <1>1, <1>2, ReadRequestInv, ExecStatusInv, ExecUploadInv, StoreChunkInv,
           StoreStopsInv, StoreEndsInv DEF Worker

\* The network, the kernel, other workers' children, and violent ends.
LEMMA EnvironmentInv ==
  ASSUME SessionInv, Changing,
         \/ Fork \/ ChildExits \/ ServerSocketCloses \/ ClientSocketCloses
         \/ Fault \/ Kill \/ Crash \/ WaitForRest
  PROVE  SessionInv'
<1> cpc = "start" => spc = "request"
  BY DEF SessionInv, Silent
<1>1. CASE Fork \/ ChildExits
  <2>1. UNCHANGED <<req, c2s, s2c, conn, client, server>>
    BY <1>1 DEF Fork, ChildExits
  <2>2. UNCHANGED <<req, c2s, s2c, conn, todo, cpc, heard, spc, left, stored, done, gap>>
    BY <2>1 DEF client, server
  <2> QED BY <2>2 DEF SessionInv, Typed, Silent, InOrder, Truthful, Changing, Working,
                      StoredSo, UnderWay, Taking, Pos, Ahead, Kept
<1>2. CASE ServerSocketCloses
  <2>1. /\ cpc # "start" /\ UNCHANGED <<req, client, server>>
        /\ cpc' = cpc /\ heard' = heard /\ todo' = todo
    BY <1>2 DEF ServerSocketCloses, client
  <2>2. todo \in Nat
    BY DEF SessionInv, Typed
  <2>3. CASE conn' = "closed" /\ UNCHANGED <<c2s, s2c>>
    BY <2>1, <2>3, Unmoved
  <2>4. CASE Break("reset")
    BY <2>1, <2>2, <2>4, Broken
  <2> QED BY <1>2, <2>3, <2>4 DEF ServerSocketCloses
<1>3. CASE ClientSocketCloses \/ Fault
  <2>1. /\ cpc # "start" /\ UNCHANGED <<req, client, server>>
        /\ cpc' = cpc /\ heard' = heard /\ todo' = todo
        /\ \E how \in {"reset", "silent"} : Break(how)
    BY <1>3 DEF ClientSocketCloses, Fault, client
  <2>2. todo \in Nat
    BY DEF SessionInv, Typed
  <2> QED BY <2>1, <2>2, Broken
<1>4. CASE Kill
  BY <1>4, Unmoved DEF Kill, Finish, net
<1>5. CASE Crash
  BY <1>5, Gone DEF Crash, net
<1>6. CASE WaitForRest
  <2>1. cpc # "start"
    BY <1>6 DEF WaitForRest, SessionInv, Silent
  <2> QED BY <1>6, <2>1, Gone DEF WaitForRest, net
<1> QED BY <1>1, <1>2, <1>3, <1>4, <1>5, <1>6

-----------------------------------------------------------------------------
LEMMA InitInv ==
  ASSUME Init
  PROVE  SessionInv
<1>1. /\ req \in Requests /\ c2s = << >> /\ s2c = << >> /\ stored = << >> /\ todo = 0
      /\ conn = "up" /\ cpc = "start" /\ spc = "request" /\ heard = "none"
  BY DEF Init
<1>2. << >> \in Seq(Nat) /\ Len(<< >>) = 0
  BY EmptySeq
<1>3. Typed /\ Silent /\ Truthful
  BY <1>1, <1>2 DEF Typed, Silent, Truthful
<1>4. req.op = "UPLOAD" => req.length \in Nat
  BY <1>1, RequestFields
<1>5. InOrder
  BY <1>1, <1>2, <1>4 DEF InOrder, StoredSo, UnderWay, Taking, Pos, Ahead, Working
<1> QED BY <1>3, <1>5 DEF SessionInv

\* SessionInv is an inductive invariant: no step of the client, the worker or what
\* lies between them breaks it.
THEOREM SessionInductive ==
  ASSUME SessionInv, [Next]_vars
  PROVE  SessionInv'
<1>1. CASE UNCHANGED vars
  <2>1. UNCHANGED <<req, c2s, s2c, conn, todo, cpc, heard, spc, left, stored, done, gap>>
    BY <1>1 DEF vars, net, client, server
  <2> QED BY <2>1 DEF SessionInv, Typed, Silent, InOrder, Truthful, Changing, Working,
                      StoredSo, UnderWay, Taking, Pos, Ahead, Kept
<1>2. CASE Next
  <2>1. CASE ~Changing
    BY <1>2, <2>1, OtherRequests
  <2>2. CASE Changing
    BY <1>2, <2>2, ClientInv, WorkerInv, EnvironmentInv DEF Next
  <2> QED BY <2>1, <2>2
<1> QED BY <1>1, <1>2

\* What the invariant says of an OK that was heard.
LEMMA HeardIsTrue ==
  ASSUME SessionInv
  PROVE  OkIsTrue
<1> SUFFICES ASSUME heard = "OK" PROVE OkIsTrue
  BY DEF OkIsTrue
<1>1. CASE req.op = "UPLOAD"
  <2>1. /\ stored \in Seq(Nat) /\ req.size <= req.length
        /\ ~gap => Len(stored) \in {req.size, req.size + 1}
        /\ ~gap => /\ \A i \in 1..Len(stored) : stored[i] = Chunk(i)
                   /\ Len(stored) <= req.length
    BY <1>1 DEF SessionInv, Typed, InOrder, StoredSo, Truthful, Kept, Changing
  <2>2. stored = [i \in 1..Len(stored) |-> stored[i]]
    BY <2>1, LenProperties
  <2>3. ~gap => stored = Content(Len(stored))
    BY <2>1, <2>2 DEF Content
  <2>4. ~gap => \E n \in {req.size, req.size + 1} : n <= req.length /\ stored = Content(n)
    BY <2>1, <2>3
  <2> QED BY <1>1, <2>1, <2>4 DEF OkIsTrue, StatusOps
<1>2. CASE req.op \in StatusOps
  BY <1>2 DEF SessionInv, Truthful, Kept, Changing, StatusOps, OkIsTrue
<1>3. CASE ~Changing
  BY <1>3 DEF Changing, OkIsTrue
<1> QED BY <1>1, <1>2, <1>3 DEF Changing

\* An OK that the client was told by the server is true (proxy.cpp:220-257): the
\* statement took effect, and the client sent at least what it announced.  It is
\* stored so far, and one byte more at most, unless a write to the spool was cut
\* short without a word.  Documents of any length, announced with any size.
THEOREM OkIsTrueCorrect == Spec => []OkIsTrue
<1>1. Init => SessionInv
  BY InitInv
<1>2. SessionInv /\ [Next]_vars => SessionInv'
  BY SessionInductive
<1>3. SessionInv => OkIsTrue
  BY HeardIsTrue
<1> QED BY <1>1, <1>2, <1>3, PTL DEF Spec


-----------------------------------------------------------------------------
(* The replies that name things. *)

\* Sequences put one behind the other, step by step.
LEMMA FlattenSteps ==
  ASSUME NEW S, NEW ss \in Seq(Seq(S))
  PROVE  \E g \in [0..Len(ss) -> Seq(S)] :
           /\ g[0] = << >>
           /\ \A n \in 1..Len(ss) : g[n] = g[n - 1] \o ss[n]
           /\ FlattenSeq(ss) = g[Len(ss)]
<1> DEFINE Flat(f) == f = [i \in 1..Len(ss) |-> IF i = 1 THEN ss[i] ELSE f[i - 1] \o ss[i]]
           flat == CHOOSE f : Flat(f)
           step == [n \in Nat |-> [x \in Seq(S) |-> IF n \in 1..Len(ss) THEN x \o ss[n] ELSE x]]
<1>1. PICK m \in Nat : m = Len(ss)
  OBVIOUS
<1>2. \A n \in 1..m : ss[n] \in Seq(S)
  BY <1>1, ElementOfSeq
<1>3. step \in Steps(Seq(S))
  <2>1. \A n \in Nat : \A x \in Seq(S) :
          (IF n \in 1..Len(ss) THEN x \o ss[n] ELSE x) \in Seq(S)
    BY <1>1, <1>2, ConcatProperties
  <2> QED BY <2>1 DEF Steps
<1>4. \A n \in 1..m : \A x \in Seq(S) : step[n][x] = x \o ss[n]
  <2> TAKE n \in 1..m
  <2>1. n \in Nat /\ n \in 1..Len(ss)
    BY <1>1
  <2>2. step[n] = [x \in Seq(S) |-> IF n \in 1..Len(ss) THEN x \o ss[n] ELSE x]
    BY <2>1
  <2> HIDE DEF step
  <2> QED BY <2>1, <2>2
<1> HIDE DEF step
<1>5. PICK g : Follows(g, Seq(S), << >>, step, m)
  BY <1>3, EmptySeq, Recursion
<1>6. g \in [0..m -> Seq(S)] /\ g[0] = << >>
  BY <1>5 DEF Follows
<1>7. \A n \in 1..m : g[n] = g[n - 1] \o ss[n]
  <2> TAKE n \in 1..m
  <2>1. n - 1 \in 0..m
    OBVIOUS
  <2>2. g[n - 1] \in Seq(S)
    BY <1>6, <2>1
  <2> QED BY <1>4, <1>5, <2>2 DEF Follows
<1>8. ASSUME m # 0 PROVE FlattenSeq(ss) = g[m]
  <2>1. FlattenSeq(ss) = flat[Len(ss)]
    <3>1. Len(ss) # 0
      BY <1>1, <1>8
    <3> QED BY <3>1 DEF FlattenSeq
  <2> DEFINE h == [n \in 1..m |-> g[n]]
  <2>2. Flat(h)
    <3>1. \A n \in 1..m : h[n] = IF n = 1 THEN ss[n] ELSE h[n - 1] \o ss[n]
      <4> TAKE n \in 1..m
      <4>1. CASE n = 1
        <5>1. g[1] = << >> \o ss[1] /\ ss[1] \in Seq(S)
          <6>1. 1 \in 1..m /\ 1 - 1 = 0
            BY <4>1
          <6>2. g[1] = g[1 - 1] \o ss[1]
            BY <1>7, <6>1
          <6>3. g[1 - 1] = << >>
            BY <1>6, <6>1
          <6> QED BY <1>2, <6>1, <6>2, <6>3
        <5> QED BY <4>1, <5>1, ConcatEmptySeq
      <4>2. CASE n # 1
        <5>1. n - 1 \in 1..m
          BY <4>2
        <5> QED BY <1>7, <4>2, <5>1
      <4> QED BY <4>1, <4>2
    <3> QED BY <1>1, <3>1
  <2>3. Flat(flat)
    <3> HIDE DEF Flat, h
    <3> QED BY <2>2
  <2> HIDE DEF flat
  <2>4. \A n \in 1..m : flat[n] = IF n = 1 THEN ss[n] ELSE flat[n - 1] \o ss[n]
    BY <1>1, <2>3
  <2> HIDE DEF Flat
  <2> DEFINE T == {n \in Nat : n + 1 <= m => flat[n + 1] = g[n + 1]}
  <2>5. 0 \in T
    <3>1. 1 \in 1..m /\ 1 - 1 = 0 /\ 0 + 1 = 1
      BY <1>8
    <3>2. g[1] = g[1 - 1] \o ss[1]
      BY <1>7, <3>1
    <3>3. g[1 - 1] = << >>
      BY <1>6, <3>1
    <3>4. ss[1] \in Seq(S) /\ flat[1] = ss[1]
      BY <1>2, <2>4, <3>1
    <3>5. flat[0 + 1] = g[0 + 1]
      BY <3>1, <3>2, <3>3, <3>4, ConcatEmptySeq
    <3> QED BY <3>5
  <2>6. ASSUME NEW n \in T PROVE n + 1 \in T
    <3>0. n \in Nat /\ (n + 1 <= m => flat[n + 1] = g[n + 1])
      OBVIOUS
    <3>1. ASSUME (n + 1) + 1 <= m PROVE flat[(n + 1) + 1] = g[(n + 1) + 1]
      <4>1. (n + 1) + 1 \in 1..m /\ (n + 1) + 1 # 1 /\ ((n + 1) + 1) - 1 = n + 1 /\ n + 1 <= m
        BY <3>0, <3>1
      <4>2. flat[(n + 1) + 1] = flat[n + 1] \o ss[(n + 1) + 1]
            /\ g[(n + 1) + 1] = g[n + 1] \o ss[(n + 1) + 1]
        BY <1>7, <2>4, <4>1
      <4> HIDE DEF T
      <4> QED BY <3>0, <4>1, <4>2
    <3>2. n + 1 \in Nat
      BY <3>0
    <3> QED BY <3>1, <3>2
  <2> HIDE DEF T
  <2>7. m - 1 \in T
    <3>1. T \in SUBSET Nat
      BY DEF T
    <3>2. m - 1 \in Nat
      BY <1>8
    <3> QED BY <2>5, <2>6, <3>1, <3>2, SetInduction
  <2>8. m - 1 \in Nat /\ (m - 1) + 1 = m
    BY <1>8
  <2>9. flat[m] = g[m]
    BY <2>7, <2>8 DEF T
  <2> QED BY <1>1, <2>1, <2>9
<1>9. ASSUME m = 0 PROVE FlattenSeq(ss) = g[m]
  <2>1. ss = << >>
    BY <1>1, <1>9, EmptySeq
  <2> QED BY <1>1, <1>6, <1>9, <2>1 DEF FlattenSeq
<1> QED BY <1>1, <1>6, <1>7, <1>8, <1>9

LEMMA FlattenType ==
  ASSUME NEW S, NEW ss \in Seq(Seq(S))
  PROVE  FlattenSeq(ss) \in Seq(S)
<1>1. PICK g \in [0..Len(ss) -> Seq(S)] : FlattenSeq(ss) = g[Len(ss)]
  BY FlattenSteps
<1>2. Len(ss) \in 0..Len(ss)
  OBVIOUS
<1> QED BY <1>1, <1>2

-----------------------------------------------------------------------------
(* The types, of all requests. *)

LEMMA Bytes ==
  /\ OK \in Nat /\ ERR \in Nat /\ Msg \in Nat /\ Newline \in Nat /\ Comma \in Nat
  /\ Letter \in Nat /\ Junk \in Nat /\ Header \in Nat
  /\ \A k \in Nat : Chunk(k) \in Nat
  /\ << >> \in Seq(Nat) /\ <<OK>> \in Seq(Nat) /\ <<OK, OK>> \in Seq(Nat)
  /\ ErrorReply \in Seq(Nat)
BY DEF OK, ERR, Msg, Newline, Comma, Letter, Junk, Header, Chunk, ErrorReply

LEMMA SayType ==
  ASSUME s2c \in Seq(Nat), NEW bytes \in Seq(Nat), Say(bytes)
  PROVE  s2c' \in Seq(Nat)
BY ConcatProperties DEF Say

LEMMA Taken ==
  ASSUME NEW s \in Seq(Nat), s # << >>
  PROVE  /\ Head(s) \in Nat /\ Tail(s) \in Seq(Nat)
         /\ Len(Tail(s)) = Len(s) - 1 /\ Len(s) \in Nat \ {0}
BY HeadTailProperties, EmptySeq, LenProperties

\* What the rows of a reply are as bytes.
LEMMA TerminatedType ==
  ASSUME NEW strings \in Seq(Seq(Character))
  PROVE  Terminated(strings) \in Seq(Nat)
<1>1. Character \in SUBSET Nat
  BY Bytes DEF Character
<1>2. \A s \in Seq(Character) : s \in Seq(Nat)
  <2> TAKE s \in Seq(Character)
  <2>1. PICK n \in Nat : s \in [1..n -> Character]
    BY LenProperties
  <2>2. s \in [1..n -> Nat]
    BY <1>1, <2>1
  <2> QED BY <2>2
<1>3. \A i \in DOMAIN strings : Append(strings[i], OK) \in Seq(Nat)
  BY <1>2, Bytes, ElementOfSeq
<1>4. DOMAIN strings = 1..Len(strings) /\ Len(strings) \in Nat
  BY LenProperties
<1>5. [i \in DOMAIN strings |-> Append(strings[i], OK)] \in Seq(Seq(Nat))
  BY <1>3, <1>4
<1> QED BY <1>5, FlattenType DEF Terminated

\* The replies of the handlers are bytes.
LEMMA ReplyType ==
  ASSUME req \in Requests, req.op \in {"LIST", "SEARCH"}
  PROVE  <<OK>> \o Terminated(IF req.op = "LIST" THEN req.names ELSE FlattenSeq(req.rows))
           \o <<OK>> \in Seq(Nat)
<1>1. req.op = "LIST" => req.names \in Seq(Seq(Character))
  BY RequestsAssumption DEF StatusOps
<1>2. req.op = "SEARCH" => req.rows \in Seq(Seq(Seq(Character)))
  BY RequestsAssumption DEF StatusOps
<1>3. req.op = "SEARCH" => FlattenSeq(req.rows) \in Seq(Seq(Character))
  BY <1>2, FlattenType
<1>4. Terminated(IF req.op = "LIST" THEN req.names ELSE FlattenSeq(req.rows)) \in Seq(Nat)
  BY <1>1, <1>3, TerminatedType
<1> QED BY <1>4, Bytes, ConcatProperties

LEMMA BrokenTypes ==
  ASSUME TypeOK, NEW how \in {"reset", "silent"}, Break(how)
  PROVE  /\ c2s' \in Seq(Nat) /\ Len(c2s') <= Window + 1
         /\ s2c' \in Seq(Nat) /\ conn' \in {"reset", "silent"}
<1>1. /\ c2s \in Seq(Nat) /\ Len(c2s) <= Window + 1 /\ s2c \in Seq(Nat)
      /\ c2s' \in Prefixes(c2s) /\ s2c' \in Prefixes(s2c) /\ conn' = how
  BY DEF TypeOK, Break
<1>2. PICK a, b : a = c2s' /\ b = s2c'
  OBVIOUS
<1>3. a \in Seq(Nat) /\ Len(a) \in Nat /\ Len(c2s) \in Nat /\ Len(a) <= Len(c2s) /\ b \in Seq(Nat)
  BY <1>1, <1>2, PrefixProperties
<1>4. \A x, y, z \in Nat : x <= y /\ y <= z => x <= z
  OBVIOUS
<1>5. Window + 1 \in Nat
  BY WindowAssumption
<1>6. Len(a) <= Window + 1
  BY <1>1, <1>3, <1>4, <1>5
<1> QED BY <1>1, <1>2, <1>3, <1>6

LEMMA SentTypes ==
  ASSUME TypeOK, SessionInv, Start \/ SendChunk \/ SendEnds
  PROVE  TypeOK'
<1>1. CASE Start
  <2>1. req.op = "UPLOAD" => req.length \in Nat
    BY RequestFields DEF TypeOK
  <2>2. <<Header>> \in Seq(Nat) /\ Len(<<Header>>) = 1 /\ 1 <= Window + 1
    BY Bytes, WindowAssumption
  <2>3. c2s' \in Seq(Nat) /\ Len(c2s') <= Window + 1
    BY <1>1, <2>2 DEF Start, TypeOK
  <2>4. todo' \in Nat /\ cpc' \in {"sending", "waiting", "done"} /\ result' \in {"none", "0", "-1", "killed"}
    BY <1>1, <2>1 DEF Start, Finish, TypeOK
  <2> QED BY <1>1, <2>3, <2>4 DEF Start, TypeOK, server
<1>2. CASE SendChunk
  <2>0. /\ req.op = "UPLOAD" /\ todo \in Nat /\ todo > 0 /\ todo <= req.length
        /\ req.length \in Nat /\ c2s \in Seq(Nat) /\ Len(c2s) <= Window + 1
    BY <1>2, RequestFields DEF SendChunk, SessionInv, Silent, InOrder, TypeOK
  <2>1. todo - 1 \in Nat /\ req.length - todo + 1 \in Nat
    BY <2>0
  <2>2. /\ cpc' \in {"sending", "complain", "done"} /\ todo' \in Nat
        /\ result' \in {"none", "0", "-1", "killed"}
    BY <1>2, <2>1 DEF SendChunk, WriteFails, Finish, TypeOK
  <2>3. c2s' \in Seq(Nat) /\ Len(c2s') <= Window + 1 /\ s2c' \in Seq(Nat)
        /\ conn' \in {"up", "closed", "reset", "silent"}
    <3>1. CASE Len(c2s) < Window /\ c2s' = Append(c2s, Chunk(req.length - todo + 1))
               /\ UNCHANGED <<s2c, conn>>
      <4>1. Chunk(req.length - todo + 1) \in Nat
        BY <2>1, Bytes
      <4>2. PICK l \in Nat : l = Len(c2s)
        BY <2>0, LenProperties
      <4>3. c2s' \in Seq(Nat) /\ Len(c2s') = l + 1
        BY <2>0, <3>1, <4>1, <4>2, AppendProperties
      <4>4. l + 1 <= Window + 1
        BY <3>1, <4>2, WindowAssumption
      <4> QED BY <3>1, <4>3, <4>4 DEF TypeOK
    <3>2. CASE Break("reset")
      BY <3>2, BrokenTypes
    <3>3. CASE UNCHANGED <<c2s, s2c, conn>>
      BY <3>3 DEF TypeOK
    <3> QED BY <1>2, <3>1, <3>2, <3>3 DEF SendChunk
  <2> QED BY <1>2, <2>2, <2>3 DEF SendChunk, TypeOK, server
<1>3. CASE SendEnds
  BY <1>3 DEF SendEnds, TypeOK, net, server
<1> QED BY <1>1, <1>2, <1>3

LEMMA ProceedTypes ==
  ASSUME TypeOK, NEW read \in Seq(Nat), Proceed(read)
  PROVE  /\ out' \in Seq(Nat) /\ shown' \in Seq(Nat) /\ unsaid' \in BOOLEAN
         /\ cpc' \in {"receiving", "reading", "done"}
         /\ result' \in {"none", "0", "-1", "killed"}
<1>1. out \in Seq(Nat) /\ shown \in Seq(Nat) /\ unsaid \in BOOLEAN
      /\ result \in {"none", "0", "-1", "killed"}
  BY DEF TypeOK
<1>2. Title \in Seq(Nat)
  BY Bytes DEF Title
<1>3. out \o read \in Seq(Nat) /\ Title \o read \in Seq(Nat)
  BY <1>1, <1>2, ConcatProperties
<1> QED BY <1>1, <1>2, <1>3 DEF Proceed, PrintTitle, Finish

LEMMA FlushTypes ==
  ASSUME TypeOK, Flush
  PROVE  /\ shown' \in Seq(Nat) /\ unsaid' \in BOOLEAN
         /\ cpc' = "done" /\ result' \in {"0", "-1"}
<1>1. out \in Seq(Nat) /\ shown \in Seq(Nat) /\ unsaid \in BOOLEAN
  BY DEF TypeOK
<1>2. shown \o out \in Seq(Nat)
  BY <1>1, ConcatProperties
<1>3. \A part \in Prefixes(out) : shown \o part \in Seq(Nat)
  <2>1. \A part \in Prefixes(out) : part \in Seq(Nat)
    BY <1>1, PrefixProperties
  <2> QED BY <1>1, <2>1, ConcatProperties
<1> QED BY <1>1, <1>2, <1>3 DEF Flush, Finish

LEMMA HeardTypes ==
  ASSUME TypeOK, HearStatus \/ Complain \/ Receive \/ Read
  PROVE  TypeOK'
<1>0. /\ s2c \in Seq(Nat) /\ out \in Seq(Nat)
      /\ s2c # << >> => Tail(s2c) \in Seq(Nat) /\ Head(s2c) \in Nat
  BY Taken DEF TypeOK
<1>a. \A ch \in Nat : Append(out, ch) \in Seq(Nat)
  BY <1>0, AppendProperties
<1>b. s2c # << >> => Append(out, Head(s2c)) \in Seq(Nat)
  BY <1>0, <1>a
<1>c. Append(out, Junk) \in Seq(Nat)
  BY <1>a, Bytes
<1>1. CASE HearStatus
  <2>1. s2c' \in Seq(Nat)
    BY <1>0, <1>1 DEF HearStatus
  <2>2. heard' \in {"none", "OK", "ERR", "eof", "lost"}
    BY <1>1 DEF HearStatus
  <2>3. /\ out' \in Seq(Nat) /\ shown' \in Seq(Nat) /\ unsaid' \in BOOLEAN
        /\ cpc' \in {"receiving", "reading", "complain", "done"}
        /\ result' \in {"none", "0", "-1", "killed"}
    <3>1. CASE Proceed(<< >>)
      BY <3>1, Bytes, ProceedTypes
    <3>2. CASE Proceed(<<Junk>>)
      <4>1. <<Junk>> \in Seq(Nat)
        BY Bytes
      <4> QED BY <3>2, <4>1, ProceedTypes
    <3>3. CASE cpc' = "complain" /\ UNCHANGED <<result, out, shown, unsaid>>
      BY <3>3 DEF TypeOK
    <3>4. CASE Finish("killed") /\ UNCHANGED <<out, shown, unsaid>>
      BY <3>4 DEF Finish, TypeOK
    <3> QED BY <1>1, <3>1, <3>2, <3>3, <3>4 DEF HearStatus
  <2> QED BY <1>1, <2>1, <2>2, <2>3 DEF HearStatus, TypeOK, server
<1>2. CASE Complain
  <2>1. s2c' \in Seq(Nat)
    BY <1>0, <1>2, Bytes DEF Complain
  <2> QED BY <1>2, <2>1 DEF Complain, Finish, TypeOK, server
<1>3. CASE Receive
  <2>1. s2c' \in Seq(Nat) /\ out' \in Seq(Nat)
    BY <1>0, <1>3, <1>b DEF Receive
  <2>2. /\ cpc' \in {"receiving", "done"} /\ result' \in {"none", "0", "-1", "killed"}
        /\ unsaid' \in BOOLEAN
    BY <1>3 DEF Receive, Finish, TypeOK
  <2> QED BY <1>3, <2>1, <2>2 DEF Receive, TypeOK, server
<1>4. CASE Read
  <2>1. s2c' \in Seq(Nat)
    BY <1>0, <1>4 DEF Read
  <2>2. \A ch \in Nat : ShownAs(ch) \in Seq(Nat)
    <3>1. << >> \in Seq(Nat) /\ <<Newline>> \in Seq(Nat) /\ <<Comma>> \in Seq(Nat)
      BY Bytes
    <3> QED BY <3>1 DEF ShownAs
  <2>3. out' \in Seq(Nat)
    BY <1>0, <1>4, <2>2, ConcatProperties DEF Read
  <2>4. col' \in 0..3
    <3>1. col \in 0..3
      BY DEF TypeOK
    <3>2. (col + 1) % 4 \in 0..3
      BY <3>1
    <3> QED BY <1>4, <3>1, <3>2 DEF Read
  <2>5. /\ cpc' \in {"reading", "done"} /\ result' \in {"none", "0", "-1", "killed"}
        /\ shown' \in Seq(Nat) /\ unsaid' \in BOOLEAN
    <3>1. CASE Flush
      BY <3>1, FlushTypes
    <3>2. CASE UNCHANGED <<cpc, result, shown, unsaid>>
      BY <1>4, <3>2 DEF Read, TypeOK
    <3> QED BY <1>4, <3>1, <3>2 DEF Read
  <2> QED BY <1>4, <2>1, <2>3, <2>4, <2>5 DEF Read, TypeOK, server
<1> QED BY <1>1, <1>2, <1>3, <1>4

LEMMA StoreChunkTypes ==
  ASSUME TypeOK, StoreChunk
  PROVE  /\ c2s' \in Seq(Nat) /\ Len(c2s') <= Window + 1
         /\ left' \in Nat /\ stored' \in Seq(Nat) /\ gap' \in BOOLEAN
<1>1. /\ c2s \in Seq(Nat) /\ Len(c2s) <= Window + 1 /\ stored \in Seq(Nat)
      /\ left \in Nat \ {0} /\ gap \in BOOLEAN
  BY DEF TypeOK, StoreChunk
<1>2. PICK n \in 1..Len(c2s) :
        LET taken == TakenOf(SubSeq(c2s, 1, n), left)
        IN /\ c2s' = SubSeq(c2s, n + 1, Len(c2s))
           /\ \/ /\ \/ stored' = stored \o taken /\ UNCHANGED gap
                    \/ /\ Fails("short")
                       /\ \E part \in Prefixes(taken) : stored' = stored \o part
                       /\ gap' = TRUE
                 /\ left' = IF n <= left THEN left - n ELSE 0
                 /\ UNCHANGED <<spc, s2c>>
              \/ /\ Fails("write")
                 /\ Leave(ErrorReply)
                 /\ UNCHANGED <<stored, left, gap>>
  BY DEF StoreChunk
<1>3. n \in 1..Len(c2s) /\ Len(c2s) \in Nat /\ n \in Nat
  BY <1>1, <1>2, LenProperties
<1>4. PICK bytes \in Seq(Nat) : bytes = c2s
  BY <1>1
<1>5. PICK k \in 1..Len(bytes) : k = n
  BY <1>3, <1>4
<1>6. PICK max \in Nat \ {0} : max = left
  BY <1>1
<1>7. PICK taken : taken = TakenOf(SubSeq(bytes, 1, k), max)
  OBVIOUS
<1>8. taken \in Seq(Nat)
  BY <1>7, TakenProperties
<1>9. PICK rest : rest = SubSeq(bytes, k + 1, Len(bytes))
  OBVIOUS
<1>10. rest \in Seq(Nat) /\ Len(rest) = Len(bytes) - k
  BY <1>9, SkipProperties
<1>11. c2s' \in Seq(Nat) /\ Len(c2s') <= Window + 1
  <2>1. c2s' = rest
    BY <1>2, <1>4, <1>5, <1>9
  <2>2. \A x, y, z \in Nat : x <= z => x - y <= z
    OBVIOUS
  <2>3. Window + 1 \in Nat
    BY WindowAssumption
  <2>4. Len(bytes) \in Nat /\ k \in Nat /\ Len(bytes) <= Window + 1
    BY <1>1, <1>3, <1>4, <1>5
  <2>5. Len(rest) <= Window + 1
    BY <1>10, <2>2, <2>3, <2>4
  <2> QED BY <1>10, <2>1, <2>5
<1>12. left' \in Nat
  BY <1>1, <1>2, <1>3
<1>13. stored' \in Seq(Nat) /\ gap' \in BOOLEAN
  <2>1. stored \o taken \in Seq(Nat)
    BY <1>1, <1>8, ConcatProperties
  <2>2. \A part \in Prefixes(taken) : stored \o part \in Seq(Nat)
    <3>1. \A part \in Prefixes(taken) : part \in Seq(Nat)
      BY <1>8, PrefixProperties
    <3> QED BY <1>1, <3>1, ConcatProperties
  <2>3. taken = TakenOf(SubSeq(c2s, 1, n), left)
    BY <1>4, <1>5, <1>6, <1>7
  <2>4. \/ stored' = stored \o taken /\ gap' = gap
        \/ gap' = TRUE /\ \E part \in Prefixes(taken) : stored' = stored \o part
        \/ stored' = stored /\ gap' = gap
    BY <1>2, <2>3
  <2> QED BY <1>1, <2>1, <2>2, <2>4
<1> QED BY <1>11, <1>12, <1>13

LEMMA WorkerTypes ==
  ASSUME TypeOK, Worker
  PROVE  TypeOK'
<1>0. /\ s2c \in Seq(Nat) /\ c2s \in Seq(Nat) /\ Len(c2s) <= Window + 1
      /\ left \in Nat /\ sent \in Nat /\ stored \in Seq(Nat) /\ gap \in BOOLEAN
  BY DEF TypeOK
<1>1. UNCHANGED <<req, conn, held, cpc, todo, heard, out, col, result, shown, unsaid>>
  BY DEF Worker, Refuse, ReadRequest, ExecStatus, ExecList, ExecDownload, ServeChunk,
         ExecUpload, StoreChunk, StoreStops, StoreEnds, client
<1>2. spc' \in {"request", "exec", "receiving", "sending", "closed", "dead", "stuck"}
  BY DEF Worker, Refuse, ReadRequest, ExecStatus, ExecList, ExecDownload, ServeChunk,
         ExecUpload, StoreChunk, StoreStops, StoreEnds, Leave, TypeOK
<1>s. ASSUME StoreChunk
      PROVE  /\ c2s' \in Seq(Nat) /\ Len(c2s') <= Window + 1
             /\ left' \in Nat /\ stored' \in Seq(Nat) /\ gap' \in BOOLEAN
  BY <1>s, StoreChunkTypes
<1>3. c2s' \in Seq(Nat) /\ Len(c2s') <= Window + 1
  <2>1. c2s # << >> => Tail(c2s) \in Seq(Nat) /\ Len(Tail(c2s)) <= Window + 1
    <3>1. \A x, y \in Nat : x <= y => x - 1 <= y
      OBVIOUS
    <3>2. Window + 1 \in Nat
      BY WindowAssumption
    <3> QED BY <1>0, <3>1, <3>2, Taken
  <2>2. CASE StoreChunk
    BY <1>0, <1>s, <2>2
  <2>3. CASE ~StoreChunk
    BY <1>0, <2>1, <2>3 DEF Worker, Refuse, ReadRequest, ExecStatus, ExecList, ExecDownload,
         ServeChunk, ExecUpload, StoreStops, StoreEnds
  <2> QED BY <2>2, <2>3
<1>4. s2c' \in Seq(Nat)
  <2>1. \A bytes \in Seq(Nat) : Say(bytes) => s2c' \in Seq(Nat)
    BY <1>0, SayType
  <2>2. \A bytes \in Seq(Nat) : Leave(bytes) => s2c' \in Seq(Nat)
    BY <2>1 DEF Leave
  <2>3. CASE ExecList
    <3>1. req \in Requests /\ req.op \in {"LIST", "SEARCH"}
      BY <2>3 DEF ExecList, TypeOK
    <3> QED BY <2>2, <2>3, <3>1, ReplyType, Bytes DEF ExecList
  <2>4. CASE ServeChunk
    <3>0. sent + 1 \in Nat
      BY <1>0
    <3>1. <<Chunk(sent + 1)>> \in Seq(Nat)
      BY <3>0, Bytes
    <3> QED BY <2>1, <2>2, <2>4, <3>1, Bytes DEF ServeChunk
  <2>5. CASE Refuse \/ ReadRequest \/ ExecStatus \/ ExecDownload \/ ExecUpload
    BY <1>0, <2>1, <2>2, <2>5, Bytes DEF Refuse, ReadRequest, ExecStatus, ExecDownload, ExecUpload
  <2>6. CASE StoreChunk \/ StoreStops \/ StoreEnds
    BY <1>0, <2>2, <2>6, Bytes DEF StoreChunk, StoreStops, StoreEnds
  <2> QED BY <2>3, <2>4, <2>5, <2>6 DEF Worker
<1>5. left' \in Nat
  <2>1. req.op = "UPLOAD" => req.size \in Nat
    BY RequestFields DEF TypeOK
  <2>2. CASE ExecUpload
    BY <1>0, <2>1, <2>2 DEF ExecUpload
  <2>3. CASE StoreChunk
    BY <1>s, <2>3
  <2>4. CASE ~(ExecUpload \/ StoreChunk)
    <3>1. left' = left
      BY <2>4 DEF Worker, Refuse, ReadRequest, ExecStatus, ExecList, ExecDownload,
                  ServeChunk, StoreStops, StoreEnds
    <3> QED BY <1>0, <3>1
  <2> QED BY <2>2, <2>3, <2>4
<1>6. stored' \in Seq(Nat) /\ gap' \in BOOLEAN
  <2>1. ~StoreChunk => UNCHANGED <<stored, gap>>
    BY DEF Worker, Refuse, ReadRequest, ExecStatus, ExecList,
           ExecDownload, ServeChunk, ExecUpload, StoreStops, StoreEnds
  <2> QED BY <1>0, <1>s, <2>1
<1>7. sent' \in Nat
  <2>1. sent' = sent \/ sent' = sent + 1
    BY DEF Worker, Refuse, ReadRequest, ExecStatus, ExecList, ExecDownload,
         ServeChunk, ExecUpload, StoreChunk, StoreStops, StoreEnds
  <2> QED BY <1>0, <2>1
<1>8. done' \in BOOLEAN
  <2>1. CASE ExecStatus
    <3>1. req.tooLong \in BOOLEAN /\ done \in BOOLEAN
      BY <2>1, RequestFields DEF ExecStatus, TypeOK
    <3> QED BY <2>1, <3>1 DEF ExecStatus
  <2>2. CASE ~ExecStatus
    <3>1. done' = done \/ done' = TRUE
      BY <2>2 DEF Worker, Refuse, ReadRequest, ExecList, ExecDownload,
         ServeChunk, ExecUpload, StoreChunk, StoreStops, StoreEnds
    <3> QED BY <3>1 DEF TypeOK
  <2> QED BY <2>1, <2>2
<1> QED BY <1>1, <1>2, <1>3, <1>4, <1>5, <1>6, <1>7, <1>8 DEF TypeOK

LEMMA EnvironmentTypes ==
  ASSUME TypeOK,
         \/ Fork \/ ChildExits \/ ServerSocketCloses \/ ClientSocketCloses
         \/ Fault \/ Kill \/ Crash \/ WaitForRest
  PROVE  TypeOK'
<1>1. CASE Fork \/ ChildExits
  BY <1>1 DEF Fork, ChildExits, TypeOK, client, server
<1>2. CASE ServerSocketCloses
  <2>1. CASE Break("reset")
    <3>1. /\ c2s' \in Seq(Nat) /\ Len(c2s') <= Window + 1
          /\ s2c' \in Seq(Nat) /\ conn' \in {"reset", "silent"}
      BY <2>1, BrokenTypes
    <3>2. UNCHANGED <<req, held, client, server>>
      BY <1>2 DEF ServerSocketCloses
    <3> QED BY <3>1, <3>2 DEF TypeOK, client, server
  <2>2. CASE conn' = "closed" /\ UNCHANGED <<c2s, s2c>>
    BY <1>2, <2>2 DEF ServerSocketCloses, TypeOK, client, server
  <2> QED BY <1>2, <2>1, <2>2 DEF ServerSocketCloses
<1>3. CASE ClientSocketCloses \/ Fault
  <2>1. PICK how \in {"reset", "silent"} : Break(how)
    BY <1>3 DEF ClientSocketCloses, Fault
  <2>2. /\ c2s' \in Seq(Nat) /\ Len(c2s') <= Window + 1
        /\ s2c' \in Seq(Nat) /\ conn' \in {"reset", "silent"}
    BY <2>1, BrokenTypes
  <2>3. UNCHANGED <<req, held, client, server>>
    BY <1>3 DEF ClientSocketCloses, Fault
  <2> QED BY <2>2, <2>3 DEF TypeOK, client, server
<1>4. CASE Kill
  BY <1>4 DEF Kill, Finish, TypeOK, net, server
<1>5. CASE Crash
  BY <1>5 DEF Crash, TypeOK, net, client
<1>6. CASE WaitForRest
  BY <1>6 DEF WaitForRest, TypeOK, net, client
<1> QED BY <1>1, <1>2, <1>3, <1>4, <1>5, <1>6

\* The bytes under way, the counters of both loops (Client::copy's size and the
\* column of perform_search) and the state of either side are of their types, the
\* rounds left of an upload never fall below zero, and the client never has more
\* under way than the socket holds.
THEOREM TypeCorrect == Spec => []TypeOK
<1>1. Init => SessionInv /\ TypeOK
  <2>1. Init => TypeOK
    <3> SUFFICES ASSUME Init PROVE TypeOK
      OBVIOUS
    <3>1. req.op = "DOWNLOAD" => req.old \in Seq(Nat)
      BY RequestsAssumption DEF Init, StatusOps
    <3>2. out \in Seq(Nat) /\ c2s \in Seq(Nat) /\ s2c \in Seq(Nat) /\ stored \in Seq(Nat)
      BY <3>1, EmptySeq DEF Init
    <3>3. Len(c2s) <= Window + 1
      BY EmptySeq, WindowAssumption DEF Init
    <3>4. /\ req \in Requests /\ conn = "up" /\ held = "no" /\ cpc = "start" /\ todo = 0
          /\ heard = "none" /\ col = 0 /\ result = "none" /\ spc = "request" /\ left = 0
          /\ sent = 0 /\ done = FALSE /\ shown = << >> /\ unsaid = FALSE /\ gap = FALSE
      BY DEF Init
    <3>5. /\ conn \in {"up", "closed", "reset", "silent"} /\ held \in {"no", "yes", "over"}
          /\ cpc \in {"start", "sending", "waiting", "receiving", "reading", "complain", "done"}
          /\ heard \in {"none", "OK", "ERR", "eof", "lost"}
          /\ result \in {"none", "0", "-1", "killed"}
          /\ spc \in {"request", "exec", "receiving", "sending", "closed", "dead", "stuck"}
      BY <3>4
    <3>6. todo \in Nat /\ col \in 0..3 /\ left \in Nat /\ sent \in Nat
      BY <3>4
    <3>7. done \in BOOLEAN /\ unsaid \in BOOLEAN /\ gap \in BOOLEAN /\ shown \in Seq(Nat)
      BY <3>4, EmptySeq
    <3> QED BY <3>2, <3>3, <3>4, <3>5, <3>6, <3>7 DEF TypeOK
  <2> QED BY <2>1, InitInv
<1>2. SessionInv /\ TypeOK /\ [Next]_vars => SessionInv' /\ TypeOK'
  <2> SUFFICES ASSUME SessionInv, TypeOK, [Next]_vars PROVE SessionInv' /\ TypeOK'
    OBVIOUS
  <2>1. SessionInv'
    BY SessionInductive
  <2>2. CASE UNCHANGED vars
    BY <2>1, <2>2 DEF vars, net, client, server, TypeOK
  <2>3. CASE Next
    BY <2>1, <2>3, SentTypes, HeardTypes, WorkerTypes, EnvironmentTypes DEF Next, Client
  <2> QED BY <2>2, <2>3
<1> QED BY <1>1, <1>2, PTL DEF Spec

-----------------------------------------------------------------------------
(* Downloads. *)

\* What a download says, byte by byte, when n chunks were sent: OK, the chunks, and
\* at most a report of an error.
Served(j, n) ==
  CASE j = 1                -> OK
    [] j # 1 /\ j <= n + 1  -> Chunk(j - 1)
    [] j > n + 1 /\ j = n + 2 /\ j # 1 -> ERR
    [] OTHER                -> Msg

\* s is what was said behind the first p bytes, or a beginning of it.
Part(s, p, n, w) ==
  /\ \A i \in 1..Len(s) : s[i] = Served(p + i, n)
  /\ p + Len(s) <= n + 3
  /\ w = "sending" => p + Len(s) <= n + 1

\* ... and nothing is missing: the document so far, or with a report behind it.
All(s, p, n) == p + Len(s) \in {n + 1, n + 3}

\* What is on its way to a client that has heard p bytes.
Coming(p) ==
  /\ Part(s2c, p, sent, spc)
  /\ conn \in {"up", "closed"} => All(s2c, p, sent)

SaysOK == s2c # << >> /\ Head(s2c) = OK

\* The client has appended g to its file.
Received(g) ==
  /\ out = req.old \o g
  /\ Part(g, 1, sent, spc)
  /\ cpc = "receiving" => Coming(1 + Len(g))
  /\ result = "0" => spc \in {"closed", "dead"} /\ All(g, 1, sent)

\* Who has not begun has said, heard and written nothing.
Quiet ==
  /\ sent <= req.length
  /\ conn = "closed" => spc \in {"closed", "dead"}
  /\ spc \in {"request", "exec"} => s2c = << >> /\ sent = 0 /\ heard # "OK"
  /\ cpc \in {"start", "waiting"} => heard # "OK" /\ out = req.old
  /\ heard = "OK" => cpc \in {"receiving", "done"}
  /\ cpc # "reading"
  /\ cpc # "done" => result = "none"

Downloaded == heard = "OK" /\ ~unsaid => \E g \in Seq(Nat) : Received(g)

DownloadInv ==
  req.op = "DOWNLOAD" =>
    /\ Quiet
    /\ cpc = "waiting" /\ spc = "sending" /\ conn = "up" => SaysOK
    /\ cpc = "waiting" /\ SaysOK => Coming(0)
    /\ Downloaded

-----------------------------------------------------------------------------
LEMMA ServedValues ==
  ASSUME NEW n \in Nat
  PROVE  /\ Served(1, n) = OK
         /\ \A j \in Nat : j >= 2 /\ j <= n + 1 => Served(j, n) = Chunk(j - 1)
         /\ Served(n + 2, n) = ERR
         /\ \A j \in Nat : j >= n + 3 => Served(j, n) = Msg
         /\ \A j \in Nat : j >= 1 /\ j <= n + 1 => Served(j, n + 1) = Served(j, n)
         /\ Served(n + 2, n + 1) = Chunk(n + 1)
<1>1. Served(1, n) = OK
  BY DEF Served
<1>2. \A j \in Nat : j >= 2 /\ j <= n + 1 => Served(j, n) = Chunk(j - 1)
  BY DEF Served
<1>3. Served(n + 2, n) = ERR
  BY DEF Served
<1>4. \A j \in Nat : j >= n + 3 => Served(j, n) = Msg
  BY DEF Served
<1>5. \A j \in Nat : j >= 1 /\ j <= n + 1 => Served(j, n + 1) = Served(j, n)
  BY DEF Served
<1>6. Served(n + 2, n + 1) = Chunk(n + 1)
  <2>1. (n + 2) - 1 = n + 1 /\ n + 2 # 1 /\ n + 2 <= (n + 1) + 1
    OBVIOUS
  <2> QED BY <2>1 DEF Served
<1> QED BY <1>1, <1>2, <1>3, <1>4, <1>5, <1>6

\* More was sent, but nothing of it was said.
LEMMA PartGrows ==
  ASSUME NEW s \in Seq(Nat), NEW p \in Nat, NEW n \in Nat, Part(s, p, n, "sending")
  PROVE  Part(s, p, n + 1, "sending")
<1>1. PICK l \in Nat : l = Len(s)
  BY LenProperties
<1>2. p + l <= n + 1 /\ \A i \in 1..l : s[i] = Served(p + i, n)
  BY <1>1 DEF Part
<1>3. \A i \in 1..l : p + i \in Nat /\ p + i >= 1 /\ p + i <= n + 1
  BY <1>2
<1>4. \A i \in 1..l : s[i] = Served(p + i, n + 1)
  BY <1>2, <1>3, ServedValues
<1>5. p + l <= (n + 1) + 3 /\ p + l <= (n + 1) + 1
  BY <1>2
<1> QED BY <1>1, <1>4, <1>5 DEF Part

\* A chunk is said behind everything that was sent.
LEMMA PartServed ==
  ASSUME NEW s \in Seq(Nat), NEW p \in Nat, NEW n \in Nat,
         Part(s, p, n, "sending"), All(s, p, n)
  PROVE  LET t == s \o <<Chunk(n + 1)>>
         IN  Part(t, p, n + 1, "sending") /\ All(t, p, n + 1)
<1> DEFINE t == s \o <<Chunk(n + 1)>>
<1>1. PICK l \in Nat : l = Len(s)
  BY LenProperties
<1>2. p + l = n + 1 /\ \A i \in 1..l : s[i] = Served(p + i, n)
  BY <1>1 DEF Part, All
<1>3. <<Chunk(n + 1)>> \in Seq(Nat) /\ Len(<<Chunk(n + 1)>>) = 1 /\ <<Chunk(n + 1)>>[1] = Chunk(n + 1)
  <2>1. n + 1 \in Nat
    OBVIOUS
  <2>2. PICK c \in Nat : c = Chunk(n + 1)
    BY <2>1, Bytes
  <2>3. <<c>> \in Seq(Nat) /\ Len(<<c>>) = 1 /\ <<c>>[1] = c
    OBVIOUS
  <2> QED BY <2>2, <2>3
<1>4. Len(t) = l + 1 /\ \A i \in 1..(l + 1) : t[i] = IF i <= l THEN s[i] ELSE <<Chunk(n + 1)>>[i - l]
  BY <1>1, <1>3, ConcatProperties
<1> HIDE DEF t
<1>5. \A i \in 1..(l + 1) : t[i] = Served(p + i, n + 1)
  <2> TAKE i \in 1..(l + 1)
  <2>1. CASE i <= l
    <3>1. i \in 1..l /\ p + i \in Nat /\ p + i >= 1 /\ p + i <= n + 1
      BY <1>2, <2>1
    <3> QED BY <1>2, <1>4, <2>1, <3>1, ServedValues
  <2>2. CASE ~(i <= l)
    <3>1. i = l + 1 /\ i - l = 1 /\ p + i = n + 2
      BY <1>2, <2>2
    <3>2. t[i] = Chunk(n + 1)
      BY <1>3, <1>4, <2>2, <3>1
    <3> QED BY <3>1, <3>2, ServedValues
  <2> QED BY <2>1, <2>2
<1>6. p + (l + 1) = (n + 1) + 1 /\ p + (l + 1) <= (n + 1) + 3
  BY <1>2
<1>7. Part(t, p, n + 1, "sending")
  BY <1>4, <1>5, <1>6 DEF Part
<1>8. All(t, p, n + 1)
  BY <1>4, <1>6 DEF All
<1> QED BY <1>7, <1>8 DEF t

\* An error is reported behind everything that was sent.
LEMMA PartReported ==
  ASSUME NEW s \in Seq(Nat), NEW p \in Nat, NEW n \in Nat,
         Part(s, p, n, "sending"), All(s, p, n)
  PROVE  Part(s \o ErrorReply, p, n, "closed") /\ All(s \o ErrorReply, p, n)
<1> DEFINE t == s \o ErrorReply
<1>1. PICK l \in Nat : l = Len(s)
  BY LenProperties
<1>2. p + l = n + 1 /\ \A i \in 1..l : s[i] = Served(p + i, n)
  BY <1>1 DEF Part, All
<1>3. ErrorReply \in Seq(Nat) /\ Len(ErrorReply) = 2 /\ ErrorReply[1] = ERR /\ ErrorReply[2] = Msg
  BY Bytes DEF ErrorReply
<1>4. Len(t) = l + 2 /\ \A i \in 1..(l + 2) : t[i] = IF i <= l THEN s[i] ELSE ErrorReply[i - l]
  <2>1. PICK e \in Seq(Nat) : e = ErrorReply /\ Len(e) = 2
    BY <1>3
  <2>2. Len(s \o e) = Len(s) + Len(e) /\ \A i \in 1..(Len(s) + Len(e)) :
          (s \o e)[i] = IF i <= Len(s) THEN s[i] ELSE e[i - Len(s)]
    BY <2>1, ConcatProperties
  <2> QED BY <1>1, <2>1, <2>2
<1> HIDE DEF t
<1>5. \A i \in 1..(l + 2) : t[i] = Served(p + i, n)
  <2> TAKE i \in 1..(l + 2)
  <2>1. CASE i <= l
    <3>1. i \in 1..l
      BY <2>1
    <3>2. t[i] = s[i]
      BY <1>4, <2>1
    <3> QED BY <1>2, <3>1, <3>2
  <2>2. CASE i = l + 1
    <3>1. ~(i <= l) /\ i - l = 1 /\ p + i = n + 2
      BY <1>2, <2>2
    <3> QED BY <1>3, <1>4, <3>1, ServedValues
  <2>3. CASE i = l + 2
    <3>1. ~(i <= l) /\ i - l = 2 /\ p + i = n + 3
      BY <1>2, <2>3
    <3>2. Served(n + 3, n) = Msg
      BY ServedValues
    <3> QED BY <1>3, <1>4, <3>1, <3>2
  <2> QED BY <2>1, <2>2, <2>3
<1>6. p + (l + 2) = n + 3
  BY <1>2
<1>7. Part(t, p, n, "closed")
  BY <1>4, <1>5, <1>6 DEF Part
<1>8. All(t, p, n)
  BY <1>4, <1>6 DEF All
<1> QED BY <1>7, <1>8 DEF t

\* The rest of it is lost.
LEMMA PartLost ==
  ASSUME NEW s \in Seq(Nat), NEW p \in Nat, NEW n \in Nat, NEW w, Part(s, p, n, w),
         NEW t \in Prefixes(s)
  PROVE  Part(t, p, n, w)
<1>1. PICK l \in Nat, k \in Nat : l = Len(s) /\ k = Len(t) /\ k <= l
  BY PrefixProperties
<1>2. \A i \in 1..k : t[i] = s[i]
  BY <1>1, PrefixProperties
<1>3. \A i \in 1..k : i \in 1..l
  BY <1>1
<1>4. \A i \in 1..k : t[i] = Served(p + i, n)
  BY <1>1, <1>2, <1>3 DEF Part
<1>5. /\ p + l <= n + 3 => p + k <= n + 3
      /\ p + l <= n + 1 => p + k <= n + 1
  BY <1>1
<1> QED BY <1>1, <1>4, <1>5 DEF Part

\* The first byte is heard.
LEMMA PartHeard ==
  ASSUME NEW s \in Seq(Nat), NEW p \in Nat, NEW n \in Nat, NEW w, Part(s, p, n, w), s # << >>
  PROVE  /\ Part(Tail(s), p + 1, n, w)
         /\ All(s, p, n) => All(Tail(s), p + 1, n)
         /\ Head(s) = Served(p + 1, n)
         /\ p + 1 <= n + 3
         /\ w = "sending" => p + 1 <= n + 1
<1>1. PICK l \in Nat : l = Len(s) /\ l # 0 /\ Len(Tail(s)) = l - 1
  BY Taken
<1>2. PICK t \in Seq(Nat) : t = Tail(s) /\ \A i \in 1..(l - 1) : t[i] = s[i + 1]
  <2>1. Tail(s) \in Seq(Nat) /\ \A i \in 1..Len(Tail(s)) : Tail(s)[i] = s[i + 1]
    BY HeadTailProperties
  <2> QED BY <1>1, <2>1
<1>3. \A i \in 1..(l - 1) : i + 1 \in 1..l /\ p + (i + 1) = (p + 1) + i
  BY <1>1
<1>4. \A i \in 1..(l - 1) : t[i] = Served((p + 1) + i, n)
  BY <1>1, <1>2, <1>3 DEF Part
<1>5. (p + 1) + (l - 1) = p + l /\ p + 1 <= p + l
  BY <1>1
<1>6. Part(t, p + 1, n, w)
  BY <1>1, <1>2, <1>4, <1>5 DEF Part
<1>7. All(s, p, n) => All(t, p + 1, n)
  BY <1>1, <1>2, <1>5 DEF All
<1>8. Head(s) = Served(p + 1, n)
  <2>1. 1 \in 1..l /\ Head(s) = s[1]
    BY <1>1
  <2> QED BY <1>1, <2>1 DEF Part
<1>9. \A x, y, z \in Nat : x <= y /\ y <= z => x <= z
  OBVIOUS
<1>10. p + 1 <= n + 3 /\ (w = "sending" => p + 1 <= n + 1)
  <2>1. p + 1 \in Nat /\ p + l \in Nat /\ n + 3 \in Nat /\ n + 1 \in Nat
    OBVIOUS
  <2>2. p + l <= n + 3 /\ (w = "sending" => p + l <= n + 1)
    BY <1>1 DEF Part
  <2> QED BY <1>5, <1>9, <2>1, <2>2
<1> QED BY <1>2, <1>6, <1>7, <1>8, <1>10

\* The next byte is appended.
LEMMA PartAppended ==
  ASSUME NEW g \in Seq(Nat), NEW n \in Nat, NEW w, Part(g, 1, n, w),
         NEW c \in Nat, c = Served((1 + Len(g)) + 1, n),
         (1 + Len(g)) + 1 <= n + 3, w = "sending" => (1 + Len(g)) + 1 <= n + 1
  PROVE  Part(Append(g, c), 1, n, w) /\ Len(Append(g, c)) = Len(g) + 1
<1>1. PICK l \in Nat : l = Len(g)
  BY LenProperties
<1>2. PICK t \in Seq(Nat) : t = Append(g, c) /\ Len(t) = l + 1
                            /\ (\A i \in 1..l : t[i] = g[i]) /\ t[l + 1] = c
  BY <1>1, AppendProperties
<1>3. \A i \in 1..(l + 1) : t[i] = Served(1 + i, n)
  <2> TAKE i \in 1..(l + 1)
  <2>1. CASE i \in 1..l
    BY <1>1, <1>2, <2>1 DEF Part
  <2>2. CASE i \notin 1..l
    <3>1. i = l + 1 /\ 1 + i = (1 + l) + 1
      BY <2>2
    <3> QED BY <1>1, <1>2, <3>1
  <2> QED BY <2>1, <2>2
<1>4. 1 + (l + 1) = (1 + l) + 1
  OBVIOUS
<1> QED BY <1>1, <1>2, <1>3, <1>4 DEF Part

\* Nothing was heard behind OK yet.
LEMMA PartEmpty ==
  ASSUME NEW n \in Nat, NEW w
  PROVE  Part(<< >>, 1, n, w)
<1>1. Len(<< >>) = 0 /\ 1 + 0 <= n + 3 /\ 1 + 0 <= n + 1 /\ 1..0 = {}
  OBVIOUS
<1> QED BY <1>1 DEF Part


\* The worker stops.
LEMMA PartStops ==
  ASSUME NEW s, NEW p, NEW n, NEW w, Part(s, p, n, w), NEW v, v = w \/ v # "sending"
  PROVE  Part(s, p, n, v)
BY DEF Part

-----------------------------------------------------------------------------
LEMMA DownloadFacts ==
  ASSUME TypeOK, SessionInv, req.op = "DOWNLOAD"
  PROVE  /\ req.length \in Nat /\ req.old \in Seq(Nat)
         /\ s2c \in Seq(Nat) /\ out \in Seq(Nat) /\ sent \in Nat
         /\ cpc # "sending" /\ spc # "receiving"
         /\ cpc = "start" => spc = "request" /\ conn = "up"
<1>1. req \in Requests /\ s2c \in Seq(Nat) /\ out \in Seq(Nat) /\ sent \in Nat
  BY DEF TypeOK
<1>2. req.length \in Nat /\ req.old \in Seq(Nat)
  BY <1>1, RequestsAssumption DEF StatusOps
<1>3. /\ cpc # "sending" /\ spc # "receiving"
      /\ cpc = "start" => spc = "request" /\ conn = "up"
  BY DEF SessionInv, Silent
<1> QED BY <1>1, <1>2, <1>3

LEMMA HeadStays ==
  ASSUME NEW s \in Seq(Nat), NEW b \in Seq(Nat), s # << >>
  PROVE  s \o b # << >> /\ Head(s \o b) = Head(s)
<1>1. PICK l \in Nat : l = Len(s) /\ l # 0
  BY Taken
<1>2. PICK m \in Nat : m = Len(b)
  BY LenProperties
<1>3. PICK t \in Seq(Nat) : t = s \o b /\ Len(t) = l + m
                            /\ \A i \in 1..(l + m) : t[i] = IF i <= l THEN s[i] ELSE b[i - l]
  <2>1. /\ s \o b \in Seq(Nat) /\ Len(s \o b) = Len(s) + Len(b)
        /\ \A i \in 1..(Len(s) + Len(b)) : (s \o b)[i] = IF i <= Len(s) THEN s[i] ELSE b[i - Len(s)]
    BY ConcatProperties
  <2> QED BY <1>1, <1>2, <2>1
<1>4. 1 \in 1..(l + m) /\ 1 <= l /\ l + m # 0
  BY <1>1
<1>5. t[1] = s[1] /\ t # << >>
  BY <1>3, <1>4, EmptySeq
<1> QED BY <1>3, <1>5

LEMMA ComingStays ==
  ASSUME NEW p, Coming(p), UNCHANGED <<s2c, sent>>,
         spc' = spc \/ spc' # "sending", conn' = conn \/ conn = "up"
  PROVE  Coming(p)'
<1>1. Part(s2c, p, sent, spc')
  BY PartStops DEF Coming
<1>2. conn' \in {"up", "closed"} => All(s2c, p, sent)
  BY DEF Coming
<1> QED BY <1>1, <1>2 DEF Coming

LEMMA ComingLost ==
  ASSUME NEW p \in Nat, Coming(p), s2c \in Seq(Nat), sent \in Nat, UNCHANGED <<sent, spc>>,
         NEW how \in {"reset", "silent"}, Break(how)
  PROVE  Coming(p)'
<1>1. PICK t \in Prefixes(s2c) : t = s2c'
  BY DEF Break
<1>2. Part(t, p, sent, spc)
  BY PartLost DEF Coming
<1> QED BY <1>1, <1>2 DEF Coming, Break

\* What the worker says of a download comes behind what is on its way.
LEMMA ComingServed ==
  ASSUME NEW p \in Nat, Coming(p), s2c \in Seq(Nat), sent \in Nat,
         ServeChunk, cpc # "done", conn # "closed"
  PROVE  Coming(p)'
<1>0. spc = "sending" /\ conn' = conn /\ Part(s2c, p, sent, "sending")
  BY DEF ServeChunk, Coming
<1>1. CASE conn # "up"
  <2>1. s2c' = s2c
    BY <1>1 DEF ServeChunk, Leave, Say
  <2>2. CASE sent' = sent + 1 /\ spc' = spc
    <3>1. Part(s2c, p, sent + 1, "sending")
      BY <1>0, PartGrows
    <3> QED BY <1>0, <1>1, <2>1, <2>2, <3>1 DEF Coming
  <2>3. CASE sent' = sent /\ spc' = "closed"
    <3>1. Part(s2c, p, sent, "closed")
      BY <1>0, PartStops
    <3> QED BY <1>0, <1>1, <2>1, <2>3, <3>1 DEF Coming
  <2> QED BY <2>2, <2>3 DEF ServeChunk, Leave
<1>2. CASE conn = "up"
  <2>0. All(s2c, p, sent)
    BY <1>2 DEF Coming
  <2>1. CASE s2c' = s2c \o <<Chunk(sent + 1)>> /\ sent' = sent + 1 /\ spc' = spc
    <3>1. Part(s2c', p, sent', "sending") /\ All(s2c', p, sent')
      BY <1>0, <2>0, <2>1, PartServed
    <3> QED BY <1>0, <2>1, <3>1 DEF Coming
  <2>2. CASE s2c' = s2c \o << >> /\ sent' = sent /\ spc' = "closed"
    <3>1. s2c' = s2c
      BY <2>2, ConcatEmptySeq
    <3>2. Part(s2c, p, sent, "closed")
      BY <1>0, PartStops
    <3> QED BY <1>0, <2>0, <2>2, <3>1, <3>2 DEF Coming
  <2>3. CASE s2c' = s2c \o ErrorReply /\ sent' = sent /\ spc' = "closed"
    <3>1. Part(s2c', p, sent', "closed") /\ All(s2c', p, sent')
      BY <1>0, <2>0, <2>3, PartReported
    <3> QED BY <1>0, <2>3, <3>1 DEF Coming
  <2> QED BY <1>2, <2>1, <2>2, <2>3 DEF ServeChunk, Leave, Say
<1> QED BY <1>1, <1>2

-----------------------------------------------------------------------------
\* Nothing is said or heard: neither side goes back, the connection may end, and a
\* client that gives up does not call it a success.
LEMMA DownloadStays ==
  ASSUME TypeOK, SessionInv, DownloadInv, req.op = "DOWNLOAD",
         UNCHANGED <<req, s2c, heard, out, sent, unsaid>>,
         \/ spc' = spc
         \/ spc' \in {"closed", "dead"}
         \/ spc = "request" /\ spc' \in {"exec", "stuck"},
         conn' = conn \/ (conn = "up" /\ conn' = "closed" /\ spc \in {"closed", "dead"}),
         \/ UNCHANGED <<cpc, result>>
         \/ cpc' = "done" /\ result' = "killed"
         \/ cpc = "start" /\ cpc' = "waiting" /\ UNCHANGED result
  PROVE  DownloadInv'
<1>1. Quiet'
  <2>1. Quiet
    BY DEF DownloadInv
  <2>2. cpc = "start" => spc = "request"
    BY DownloadFacts
  <2> QED BY <2>1, <2>2 DEF Quiet
<1>2. (cpc = "waiting" /\ spc = "sending" /\ conn = "up" => SaysOK)'
  <2>1. SaysOK' = SaysOK
    BY DEF SaysOK
  <2>2. cpc' = "waiting" /\ spc' = "sending" /\ conn' = "up"
          => cpc = "waiting" /\ spc = "sending" /\ conn = "up"
    BY DownloadFacts
  <2> QED BY <2>1, <2>2 DEF DownloadInv
<1>3. (cpc = "waiting" /\ SaysOK => Coming(0))'
  <2> SUFFICES ASSUME cpc' = "waiting", SaysOK' PROVE Coming(0)'
    OBVIOUS
  <2>1. SaysOK
    BY DEF SaysOK
  <2>2. cpc # "start"
    BY <2>1, DownloadFacts DEF DownloadInv, Quiet, SaysOK
  <2>3. Coming(0)
    BY <2>1, <2>2 DEF DownloadInv
  <2> QED BY <2>3, ComingStays
<1>4. Downloaded'
  <2> SUFFICES ASSUME heard' = "OK", ~unsaid' PROVE \E g \in Seq(Nat) : Received(g)'
    BY DEF Downloaded
  <2>1. PICK g \in Seq(Nat) : Received(g)
    BY DEF DownloadInv, Downloaded
  <2>2. Part(g, 1, sent, spc')
    BY <2>1, PartStops DEF Received
  <2>3. cpc' = "receiving" => Coming(1 + Len(g))'
    <3> SUFFICES ASSUME cpc' = "receiving" PROVE Coming(1 + Len(g))'
      OBVIOUS
    <3>1. Coming(1 + Len(g))
      BY <2>1 DEF Received
    <3>2. PICK p : p = 1 + Len(g)
      OBVIOUS
    <3> QED BY <3>1, <3>2, ComingStays
  <2>4. result' = "0" => spc' \in {"closed", "dead"} /\ All(g, 1, sent)
    BY <2>1 DEF Received
  <2>5. Received(g)'
    BY <2>1, <2>2, <2>3, <2>4 DEF Received
  <2> QED BY <2>5
<1> QED BY <1>1, <1>2, <1>3, <1>4 DEF DownloadInv

\* Bytes under way are lost.
LEMMA DownloadBroken ==
  ASSUME TypeOK, SessionInv, DownloadInv, req.op = "DOWNLOAD",
         NEW how \in {"reset", "silent"}, Break(how), UNCHANGED <<req, client, server>>
  PROVE  DownloadInv'
<1>0. s2c \in Seq(Nat) /\ sent \in Nat /\ UNCHANGED <<heard, out, sent, spc, cpc, result, unsaid>>
  BY DownloadFacts DEF client, server
<1>1. PICK t \in Prefixes(s2c) : t = s2c'
  BY DEF Break
<1>2. /\ t # << >> => s2c # << >> /\ Head(t) = Head(s2c)
      /\ s2c = << >> => t = << >>
  BY <1>0, PrefixProperties
<1>3. Quiet'
  <2>1. conn' # "closed"
    BY DEF Break
  <2> QED BY <1>0, <1>1, <1>2, <2>1 DEF DownloadInv, Quiet
<1>4. (cpc = "waiting" /\ spc = "sending" /\ conn = "up" => SaysOK)'
  BY DEF Break
<1>5. (cpc = "waiting" /\ SaysOK => Coming(0))'
  <2> SUFFICES ASSUME cpc' = "waiting", SaysOK' PROVE Coming(0)'
    OBVIOUS
  <2>1. SaysOK
    BY <1>1, <1>2 DEF SaysOK
  <2>2. Coming(0)
    BY <1>0, <2>1 DEF DownloadInv
  <2> QED BY <1>0, <2>2, ComingLost
<1>6. Downloaded'
  <2> SUFFICES ASSUME heard' = "OK", ~unsaid' PROVE \E g \in Seq(Nat) : Received(g)'
    BY DEF Downloaded
  <2>1. PICK g \in Seq(Nat) : Received(g)
    BY <1>0 DEF DownloadInv, Downloaded
  <2>2. cpc' = "receiving" => Coming(1 + Len(g))'
    <3> SUFFICES ASSUME cpc' = "receiving" PROVE Coming(1 + Len(g))'
      OBVIOUS
    <3>1. PICK p \in Nat : p = 1 + Len(g)
      BY LenProperties
    <3>2. Coming(p)
      BY <1>0, <2>1, <3>1 DEF Received
    <3> QED BY <1>0, <3>1, <3>2, ComingLost
  <2>3. Received(g)'
    BY <1>0, <2>1, <2>2 DEF Received
  <2> QED BY <2>3
<1> QED BY <1>3, <1>4, <1>5, <1>6 DEF DownloadInv


LEMMA DownloadHearStatus ==
  ASSUME TypeOK, SessionInv, DownloadInv, req.op = "DOWNLOAD", HearStatus
  PROVE  DownloadInv'
<1>0. /\ cpc = "waiting" /\ heard # "OK" /\ out = req.old /\ sent <= req.length
      /\ conn = "closed" => spc \in {"closed", "dead"}
      /\ spc \in {"request", "exec"} => s2c = << >> /\ sent = 0
      /\ UNCHANGED <<req, conn, spc, sent>>
      /\ result = "none"
      /\ s2c \in Seq(Nat) /\ sent \in Nat /\ req.old \in Seq(Nat)
  BY DownloadFacts DEF HearStatus, DownloadInv, Quiet, server
<1>1. CASE SaysOK
  <2>1. /\ s2c' = Tail(s2c) /\ heard' = "OK" /\ cpc' = "receiving" /\ out' = out
        /\ result' = result
    <3>1. Proceed(<< >>) /\ s2c' = Tail(s2c) /\ heard' = "OK"
      BY <1>1 DEF HearStatus, SaysOK
    <3>2. out \o << >> = out
      BY <1>0, ConcatEmptySeq
    <3> QED BY <3>1, <3>2 DEF Proceed, ReadsOn
  <2>2. Quiet'
    BY <1>0, <1>1, <2>1 DEF Quiet, SaysOK
  <2>3. Part(s2c, 0, sent, spc) /\ (conn \in {"up", "closed"} => All(s2c, 0, sent))
    BY <1>0, <1>1 DEF DownloadInv, Coming
  <2>4. Part(Tail(s2c), 0 + 1, sent, spc) /\ (All(s2c, 0, sent) => All(Tail(s2c), 0 + 1, sent))
    BY <1>0, <1>1, <2>3, PartHeard DEF SaysOK
  <2>5. PICK g \in Seq(Nat) : g = << >> /\ 1 + Len(g) = 0 + 1
    <3>1. << >> \in Seq(Nat) /\ Len(<< >>) = 0 /\ 1 + 0 = 0 + 1
      BY EmptySeq
    <3> QED BY <3>1
  <2>6. Coming(0 + 1)'
    BY <1>0, <2>1, <2>3, <2>4 DEF Coming
  <2>7. out' = req'.old \o g
    BY <1>0, <2>1, <2>5, ConcatEmptySeq
  <2>8. Part(g, 1, sent', spc')
    BY <1>0, <2>5, PartEmpty
  <2>9. Coming(1 + Len(g))'
    BY <2>5, <2>6
  <2>10. Received(g)'
    BY <1>0, <2>1, <2>7, <2>8, <2>9 DEF Received
  <2> QED BY <2>1, <2>2, <2>10 DEF DownloadInv, Downloaded
<1>2. CASE ~SaysOK
  <2>1. /\ heard' # "OK" /\ cpc' \in {"done", "complain", "receiving"}
        /\ cpc' # "done" => result' = result
        /\ s2c = << >> => s2c' = s2c
    BY <1>2 DEF HearStatus, SaysOK, Finish, Proceed, ReadsOn
  <2>2. Quiet'
    BY <1>0, <2>1 DEF Quiet
  <2> QED BY <2>1, <2>2 DEF DownloadInv, Downloaded
<1> QED BY <1>1, <1>2

LEMMA DownloadComplain ==
  ASSUME TypeOK, SessionInv, DownloadInv, req.op = "DOWNLOAD", Complain
  PROVE  DownloadInv'
<1>1. /\ heard # "OK" /\ heard' = heard /\ cpc' = "done" /\ UNCHANGED <<req, conn, spc, sent>>
      /\ s2c = << >> => s2c' = << >>
  BY DEF Complain, Finish, DownloadInv, Quiet, server
<1>2. Quiet'
  BY <1>1 DEF DownloadInv, Quiet
<1> QED BY <1>1, <1>2 DEF DownloadInv, Downloaded

\* One byte more behind what the file held.
LEMMA AppendBehind ==
  ASSUME NEW o \in Seq(Nat), NEW g \in Seq(Nat), NEW c \in Nat
  PROVE  Append(o \o g, c) = o \o Append(g, c)
<1>1. PICK w \in Seq(Nat) : w = <<c>>
  <2>1. <<c>> \in Seq(Nat)
    OBVIOUS
  <2> QED BY <2>1
<1>2. o \o g \in Seq(Nat)
  BY ConcatProperties
<1>3. Append(o \o g, c) = (o \o g) \o w
  BY <1>1, <1>2, AppendIsConcat
<1>4. Append(g, c) = g \o w
  BY <1>1, AppendIsConcat
<1>5. (o \o g) \o w = o \o (g \o w)
  BY ConcatAssociative, SMTT(40)
<1> QED BY <1>3, <1>4, <1>5

LEMMA DownloadReceive ==
  ASSUME TypeOK, SessionInv, DownloadInv, req.op = "DOWNLOAD", Receive
  PROVE  DownloadInv'
<1>0. /\ cpc = "receiving" /\ result = "none"
      /\ conn = "closed" => spc \in {"closed", "dead"}
      /\ UNCHANGED <<req, conn, spc, sent, heard>>
      /\ s2c \in Seq(Nat) /\ sent \in Nat /\ req.old \in Seq(Nat)
      /\ cpc' \in {"receiving", "done"}
      /\ s2c = << >> => s2c' = << >>
  BY DownloadFacts DEF Receive, DownloadInv, Quiet, server, Finish
<1>1. Quiet'
  <2>1. cpc' # "done" => result' = "none"
    BY <1>0 DEF Receive, Finish
  <2> QED BY <1>0, <2>1 DEF DownloadInv, Quiet
<1> SUFFICES ASSUME heard = "OK", ~unsaid, ~unsaid' PROVE DownloadInv'
  <2>1. unsaid => unsaid'
    BY DEF Receive
  <2> QED BY <1>0, <1>1, <2>1 DEF DownloadInv, Downloaded
<1>2. PICK g \in Seq(Nat) : Received(g)
  BY <1>0 DEF DownloadInv, Downloaded
<1>3. PICK l \in Nat : l = Len(g)
  BY LenProperties
<1>4. /\ out = req.old \o g /\ Part(g, 1, sent, spc) /\ Part(s2c, 1 + l, sent, spc)
      /\ conn \in {"up", "closed"} => All(s2c, 1 + l, sent)
  BY <1>0, <1>2, <1>3 DEF Received, Coming
<1>5. CASE s2c # << >> /\ out' = Append(out, Head(s2c)) /\ s2c' = Tail(s2c) /\ UNCHANGED <<cpc, result>>
  <2>1. PICK c \in Nat : c = Head(s2c)
    BY <1>0, <1>5, Taken
  <2>2. 1 + l \in Nat
    OBVIOUS
  <2>3. /\ Part(Tail(s2c), (1 + l) + 1, sent, spc)
        /\ All(s2c, 1 + l, sent) => All(Tail(s2c), (1 + l) + 1, sent)
        /\ c = Served((1 + l) + 1, sent)
        /\ (1 + l) + 1 <= sent + 3
        /\ spc = "sending" => (1 + l) + 1 <= sent + 1
    BY <1>0, <1>4, <1>5, <2>1, <2>2, PartHeard
  <2>4. PICK h \in Seq(Nat) : h = Append(g, c) /\ Part(h, 1, sent, spc) /\ Len(h) = l + 1
    <3>1. Append(g, c) \in Seq(Nat)
      BY AppendProperties
    <3>2. Part(Append(g, c), 1, sent, spc) /\ Len(Append(g, c)) = Len(g) + 1
      BY <1>0, <1>3, <1>4, <2>3, PartAppended
    <3> QED BY <1>3, <3>1, <3>2
  <2>5. out' = req.old \o h
    <3>1. PICK o \in Seq(Nat) : o = req.old
      BY <1>0
    <3>2. Append(o \o g, c) = o \o Append(g, c)
      BY AppendBehind
    <3> QED BY <1>4, <1>5, <2>1, <2>4, <3>1, <3>2
  <2>6. 1 + Len(h) = (1 + l) + 1
    BY <2>4
  <2>7. Coming(1 + Len(h))'
    BY <1>0, <1>4, <1>5, <2>3, <2>6 DEF Coming
  <2>8. Received(h)'
    BY <1>0, <1>5, <2>4, <2>5, <2>7 DEF Received
  <2> QED BY <1>0, <1>1, <1>5, <2>8 DEF DownloadInv, Downloaded
<1>6. CASE cpc' = "done" /\ result' = "-1" /\ out' = out
  <2>1. Received(g)'
    BY <1>0, <1>4, <1>6 DEF Received
  <2> QED BY <1>0, <1>1, <1>6, <2>1 DEF DownloadInv, Downloaded
<1>7. CASE cpc' = "done" /\ conn = "closed" /\ s2c = << >> /\ result' = "0" /\ out' = out
  <2>1. All(g, 1, sent)
    <3>1. Len(s2c) = 0 /\ (1 + l) + 0 = 1 + l
      BY <1>7, EmptySeq
    <3> QED BY <1>3, <1>4, <1>7, <3>1 DEF All
  <2>2. Received(g)'
    BY <1>0, <1>4, <1>7, <2>1 DEF Received
  <2> QED BY <1>0, <1>1, <1>7, <2>2 DEF DownloadInv, Downloaded
<1> QED BY <1>5, <1>6, <1>7 DEF Receive, Finish

LEMMA DownloadClient ==
  ASSUME TypeOK, SessionInv, DownloadInv, req.op = "DOWNLOAD", Client
  PROVE  DownloadInv'
<1>1. ~SendChunk /\ ~SendEnds /\ ~Read
  BY DownloadFacts DEF SendChunk, SendEnds, Read, DownloadInv, Quiet
<1>2. CASE Start
  <2>1. /\ UNCHANGED <<req, s2c, heard, out, sent, spc, conn, result, unsaid>>
        /\ cpc = "start" /\ cpc' = "waiting"
    BY <1>2 DEF Start, server
  <2> QED BY <2>1, DownloadStays
<1> QED BY <1>1, <1>2, DownloadHearStatus, DownloadComplain, DownloadReceive DEF Client

\* The first answer of the worker.
LEMMA DownloadFirst ==
  ASSUME TypeOK, SessionInv, DownloadInv, req.op = "DOWNLOAD",
         Refuse \/ ExecDownload
  PROVE  DownloadInv'
<1>0. /\ s2c = << >> /\ sent = 0 /\ heard # "OK" /\ spc \in {"request", "exec"} /\ conn # "closed"
      /\ UNCHANGED <<req, conn, cpc, heard, out, result, sent>>
  BY DEF Refuse, ExecDownload, DownloadInv, Quiet, client
<1>1. CASE Leave(ErrorReply)
  <2>1. s2c' \in {<< >>, ErrorReply} /\ spc' = "closed"
    BY <1>0, <1>1, SayFirst, Bytes, EmptySeq DEF Leave
  <2>2. ~SaysOK'
    BY <2>1 DEF SaysOK, ErrorReply, OK, ERR
  <2>3. Quiet'
    BY <1>0, <2>1 DEF DownloadInv, Quiet
  <2> QED BY <1>0, <2>1, <2>2, <2>3 DEF DownloadInv, Downloaded
<1>2. CASE ExecDownload /\ spc' = "sending" /\ Say(<<OK>>)
  <2>1. /\ s2c' \in {<< >>, <<OK>>}
        /\ conn = "up" /\ cpc = "waiting" => s2c' = <<OK>>
    <3>1. << >> \o <<OK>> = <<OK>>
      BY Bytes, ConcatEmptySeq
    <3> QED BY <1>0, <1>2, <3>1 DEF Say
  <2>2. Quiet'
    BY <1>0, <1>2 DEF DownloadInv, Quiet
  <2>3. (cpc = "waiting" /\ spc = "sending" /\ conn = "up" => SaysOK)'
    BY <1>0, <2>1 DEF SaysOK
  <2>4. SaysOK' => Coming(0)'
    <3> SUFFICES ASSUME SaysOK' PROVE Coming(0)'
      OBVIOUS
    <3>1. s2c' = <<OK>>
      BY <2>1 DEF SaysOK
    <3>2. sent' = 0 /\ Len(<<OK>>) = 1 /\ <<OK>>[1] = Served(0 + 1, 0)
      <4>1. Served(1, 0) = OK
        BY ServedValues
      <4> QED BY <1>0, <4>1
    <3>3. Part(<<OK>>, 0, 0, "sending") /\ All(<<OK>>, 0, 0)
      BY <3>2 DEF Part, All
    <3> QED BY <1>2, <3>1, <3>2, <3>3 DEF Coming
  <2> QED BY <1>0, <2>2, <2>3, <2>4 DEF DownloadInv, Downloaded
<1> QED BY <1>1, <1>2 DEF Refuse, ExecDownload

LEMMA DownloadServe ==
  ASSUME TypeOK, SessionInv, DownloadInv, req.op = "DOWNLOAD", ServeChunk
  PROVE  DownloadInv'
<1>0. /\ spc = "sending" /\ spc' \in {"sending", "closed"} /\ conn # "closed"
      /\ UNCHANGED <<req, conn, cpc, heard, out, result, unsaid>>
      /\ s2c \in Seq(Nat) /\ sent \in Nat /\ req.length \in Nat
  BY DownloadFacts DEF ServeChunk, Leave, DownloadInv, Quiet, client
<1>1. \/ spc' = "sending" /\ sent < req.length /\ sent' = sent + 1
      \/ spc' = "closed" /\ sent' = sent
  BY <1>0 DEF ServeChunk, Leave
<1>2. Quiet'
  <2>1. sent' <= req.length
    BY <1>0, <1>1 DEF DownloadInv, Quiet
  <2> QED BY <1>0, <2>1 DEF DownloadInv, Quiet
<1>3. PICK b \in Seq(Nat) : s2c' = IF conn = "up" /\ cpc # "done" THEN s2c \o b ELSE s2c
  <2>1. sent + 1 \in Nat
    BY <1>0
  <2>2. <<Chunk(sent + 1)>> \in Seq(Nat) /\ << >> \in Seq(Nat) /\ ErrorReply \in Seq(Nat)
    BY <2>1, Bytes
  <2> QED BY <2>2 DEF ServeChunk, Leave, Say
<1>4. s2c # << >> => s2c' # << >> /\ Head(s2c') = Head(s2c)
  BY <1>0, <1>3, HeadStays
<1>5. (cpc = "waiting" /\ spc = "sending" /\ conn = "up" => SaysOK)'
  BY <1>0, <1>4 DEF DownloadInv, SaysOK
<1>6. (cpc = "waiting" /\ SaysOK => Coming(0))'
  <2> SUFFICES ASSUME cpc' = "waiting", SaysOK' PROVE Coming(0)'
    OBVIOUS
  <2>1. SaysOK
    <3>1. CASE conn = "up"
      BY <1>0, <3>1 DEF DownloadInv
    <3>2. CASE conn # "up"
      BY <1>3, <3>2 DEF SaysOK
    <3> QED BY <3>1, <3>2
  <2>2. Coming(0)
    BY <1>0, <2>1 DEF DownloadInv
  <2> QED BY <1>0, <2>2, ComingServed
<1>7. Downloaded'
  <2> SUFFICES ASSUME heard' = "OK", ~unsaid' PROVE \E g \in Seq(Nat) : Received(g)'
    BY DEF Downloaded
  <2>1. PICK g \in Seq(Nat) : Received(g)
    BY <1>0 DEF DownloadInv, Downloaded
  <2>2. cpc' = "receiving" => Coming(1 + Len(g))'
    <3> SUFFICES ASSUME cpc' = "receiving" PROVE Coming(1 + Len(g))'
      OBVIOUS
    <3>1. PICK p \in Nat : p = 1 + Len(g)
      BY LenProperties
    <3>2. Coming(p)
      BY <1>0, <2>1, <3>1 DEF Received
    <3> QED BY <1>0, <3>1, <3>2, ComingServed
  <2>3. Part(g, 1, sent', spc')
    BY <1>0, <1>1, <2>1, PartGrows, PartStops DEF Received
  <2>4. result # "0"
    BY <1>0, <2>1 DEF Received
  <2>5. Received(g)'
    BY <1>0, <2>1, <2>2, <2>3, <2>4 DEF Received
  <2> QED BY <2>5
<1> QED BY <1>2, <1>5, <1>6, <1>7 DEF DownloadInv

LEMMA DownloadWorker ==
  ASSUME TypeOK, SessionInv, DownloadInv, req.op = "DOWNLOAD", Worker
  PROVE  DownloadInv'
<1>1. ~(ExecStatus \/ ExecList \/ ExecUpload \/ StoreChunk \/ StoreStops \/ StoreEnds)
  BY DownloadFacts DEF ExecStatus, ExecList, ExecUpload, StoreChunk, StoreStops, StoreEnds, StatusOps
<1>2. CASE ReadRequest
  <2>1. /\ UNCHANGED <<req, s2c, heard, out, sent, conn, cpc, result, unsaid>>
        /\ \/ spc' \in {"closed", "dead"}
           \/ spc = "request" /\ spc' = "exec"
    BY <1>2 DEF ReadRequest, client
  <2> QED BY <2>1, DownloadStays
<1> QED BY <1>1, <1>2, DownloadFirst, DownloadServe DEF Worker

LEMMA DownloadEnvironment ==
  ASSUME TypeOK, SessionInv, DownloadInv, req.op = "DOWNLOAD",
         \/ Fork \/ ChildExits \/ ServerSocketCloses \/ ClientSocketCloses
         \/ Fault \/ Kill \/ Crash \/ WaitForRest
  PROVE  DownloadInv'
<1>1. CASE Fork \/ ChildExits
  BY <1>1, DownloadStays DEF Fork, ChildExits, client, server
<1>2. CASE ServerSocketCloses
  <2>1. CASE Break("reset")
    BY <1>2, <2>1, DownloadBroken DEF ServerSocketCloses
  <2>2. CASE conn' = "closed" /\ UNCHANGED <<c2s, s2c>>
    BY <1>2, <2>2, DownloadStays DEF ServerSocketCloses, client, server
  <2> QED BY <1>2, <2>1, <2>2 DEF ServerSocketCloses
<1>3. CASE ClientSocketCloses \/ Fault
  BY <1>3, DownloadBroken DEF ClientSocketCloses, Fault
<1>4. CASE Kill
  BY <1>4, DownloadStays DEF Kill, Finish, net, server
<1>5. CASE Crash
  BY <1>5, DownloadStays DEF Crash, net, client
<1>6. CASE WaitForRest
  BY <1>6, DownloadFacts, DownloadStays DEF WaitForRest, net, client
<1> QED BY <1>1, <1>2, <1>3, <1>4, <1>5, <1>6


\* DownloadInv is inductive.
THEOREM DownloadInductive ==
  ASSUME TypeOK, SessionInv, DownloadInv, [Next]_vars
  PROVE  DownloadInv'
<1>1. CASE req.op # "DOWNLOAD"
  <2>1. req' = req
    BY DEF Next, vars, Client, Start, SendChunk, SendEnds, HearStatus, Complain, Receive, Read,
           Worker, Refuse, ReadRequest, ExecStatus, ExecList, ExecDownload, ServeChunk, ExecUpload,
           StoreChunk, StoreStops, StoreEnds, Fork, ChildExits, ServerSocketCloses,
           ClientSocketCloses, Fault, Kill, Crash, WaitForRest
  <2> QED BY <1>1, <2>1 DEF DownloadInv
<1>2. CASE req.op = "DOWNLOAD" /\ UNCHANGED vars
  BY <1>2, DownloadStays DEF vars, net, client, server
<1>3. CASE req.op = "DOWNLOAD" /\ Next
  BY <1>3, DownloadClient, DownloadWorker, DownloadEnvironment DEF Next
<1> QED BY <1>1, <1>2, <1>3

-----------------------------------------------------------------------------
\* The document with the report of an error behind it, byte by byte.
LEMMA Report ==
  ASSUME NEW n \in Nat
  PROVE  /\ Content(n) \in Seq(Nat) /\ Len(Content(n)) = n
         /\ \A i \in 1..n : Content(n)[i] = Served(1 + i, n)
         /\ Content(n) \o ErrorReply \in Seq(Nat)
         /\ Len(Content(n) \o ErrorReply) = n + 2
         /\ \A i \in 1..(n + 2) : (Content(n) \o ErrorReply)[i] = Served(1 + i, n)
<1>1. \A k \in 1..n : Chunk(k) \in Nat
  BY Bytes
<1>2. PICK s \in Seq(Nat) : s = Content(n) /\ Len(s) = n /\ \A k \in 1..n : s[k] = Chunk(k)
  <2>1. Content(n) \in [1..n -> Nat]
    BY <1>1 DEF Content
  <2>2. Content(n) \in Seq(Nat) /\ Len(Content(n)) = n
    BY <2>1
  <2>3. \A k \in 1..n : Content(n)[k] = Chunk(k)
    BY DEF Content
  <2> QED BY <2>2, <2>3
<1>3. \A i \in 1..n : s[i] = Served(1 + i, n)
  <2> TAKE i \in 1..n
  <2>1. 1 + i \in Nat /\ 1 + i >= 2 /\ 1 + i <= n + 1 /\ (1 + i) - 1 = i
    OBVIOUS
  <2> QED BY <1>2, <2>1, ServedValues
<1>4. Part(s, 1, n, "sending") /\ All(s, 1, n)
  <2>1. 1 + n = n + 1 /\ 1 + n <= n + 3
    OBVIOUS
  <2> QED BY <1>2, <1>3, <2>1 DEF Part, All
<1>5. PICK t \in Seq(Nat) : t = s \o ErrorReply /\ Len(t) = n + 2
  <2>1. PICK e \in Seq(Nat) : e = ErrorReply /\ Len(e) = 2
    BY Bytes DEF ErrorReply
  <2>2. s \o e \in Seq(Nat) /\ Len(s \o e) = Len(s) + Len(e)
    BY ConcatProperties
  <2> QED BY <1>2, <2>1, <2>2
<1>6. Part(t, 1, n, "closed")
  BY <1>4, <1>5, PartReported
<1>7. \A i \in 1..(n + 2) : t[i] = Served(1 + i, n)
  BY <1>5, <1>6 DEF Part
<1> QED BY <1>2, <1>3, <1>5, <1>7

LEMMA SameBytesPrefix ==
  ASSUME NEW s \in Seq(Nat), NEW t \in Seq(Nat), Len(s) <= Len(t),
         \A i \in 1..Len(s) : s[i] = t[i]
  PROVE  IsPrefix(s, t)
<1>1. PICK l \in Nat : l = Len(s)
  BY LenProperties
<1>2. PICK m \in Nat : m = Len(t) /\ l <= m
  BY <1>1, LenProperties
<1>3. \A i \in 1..l : s[i] \in Nat /\ t[i] \in Nat
  <2> TAKE i \in 1..l
  <2>1. i \in 1..Len(s) /\ i \in 1..Len(t)
    BY <1>1, <1>2
  <2> QED BY <2>1, ElementOfSeq
<1>4. 1 \in Int /\ l \in Int
  OBVIOUS
<1>5. PICK a \in Seq(Nat) : a = SubSeq(s, 1, l) /\ Len(a) = l /\ \A i \in 1..l : a[i] = s[i]
  <2>1. SubSeq(s, 1, l) = s
    BY <1>1, SubSeqFull
  <2> QED BY <1>1, <2>1
<1>6. PICK b \in Seq(Nat) : b = SubSeq(t, 1, l) /\ Len(b) = l /\ \A i \in 1..l : b[i] = t[i]
  <2>1. t \in [1..m -> Nat]
    BY <1>2, LenProperties
  <2>2. /\ SubSeq(t, 1, l) \in Seq(Nat)
        /\ Len(SubSeq(t, 1, l)) = (IF 1 <= l THEN l - 1 + 1 ELSE 0)
        /\ \A i \in 1..(l - 1 + 1) : SubSeq(t, 1, l)[i] = t[1 + i - 1]
    BY <1>3, <1>4, SubSeqProperties
  <2>3. (IF 1 <= l THEN l - 1 + 1 ELSE 0) = l /\ l - 1 + 1 = l /\ \A i \in 1..l : 1 + i - 1 = i
    OBVIOUS
  <2>4. \A i \in 1..l : SubSeq(t, 1, l)[i] = t[i]
    BY <2>2, <2>3
  <2> QED BY <2>2, <2>3, <2>4
<1>7. \A i \in 1..l : a[i] = b[i]
  BY <1>1, <1>5, <1>6
<1>8. a = b
  BY <1>5, <1>6, <1>7, SeqEqual
<1> QED BY <1>1, <1>2, <1>5, <1>6, <1>8 DEF IsPrefix

\* What was appended is what stands behind what was there.
LEMMA Appendix ==
  ASSUME NEW s \in Seq(Nat), NEW g \in Seq(Nat)
  PROVE  /\ SubSeq(s \o g, Len(s) + 1, Len(s \o g)) = g
         /\ IsPrefix(s, s \o g)
<1>1. PICK l \in Nat, m \in Nat : l = Len(s) /\ m = Len(g)
  BY LenProperties
<1>2. PICK t \in Seq(Nat) : t = s \o g /\ Len(t) = l + m
                            /\ \A i \in 1..(l + m) : t[i] = IF i <= l THEN s[i] ELSE g[i - l]
  <2>1. /\ s \o g \in Seq(Nat) /\ Len(s \o g) = Len(s) + Len(g)
        /\ \A i \in 1..(Len(s) + Len(g)) : (s \o g)[i] = IF i <= Len(s) THEN s[i] ELSE g[i - Len(s)]
    BY ConcatProperties
  <2> QED BY <1>1, <2>1
<1>3. SubSeq(t, l + 1, l + m) = g
  <2>1. l + 1 \in Int /\ l + m \in Int /\ (l + m) - (l + 1) + 1 = m
        /\ (IF l + 1 <= l + m THEN (l + m) - (l + 1) + 1 ELSE 0) = m
    OBVIOUS
  <2>2. \A i \in (l + 1)..(l + m) : t[i] \in Nat
    <3> TAKE i \in (l + 1)..(l + m)
    <3>1. i \in 1..Len(t)
      BY <1>2
    <3> QED BY <3>1, ElementOfSeq
  <2>3. /\ SubSeq(t, l + 1, l + m) \in Seq(Nat)
        /\ Len(SubSeq(t, l + 1, l + m))
             = IF l + 1 <= l + m THEN (l + m) - (l + 1) + 1 ELSE 0
        /\ \A i \in 1..((l + m) - (l + 1) + 1) : SubSeq(t, l + 1, l + m)[i] = t[(l + 1) + i - 1]
    BY <2>1, <2>2, SubSeqProperties
  <2>4. PICK b \in Seq(Nat) : b = SubSeq(t, l + 1, l + m) /\ Len(b) = m
                              /\ \A i \in 1..m : b[i] = t[(l + 1) + i - 1]
    BY <2>1, <2>3
  <2>5. \A i \in 1..m : (l + 1) + i - 1 \in 1..(l + m) /\ ~((l + 1) + i - 1 <= l)
                        /\ ((l + 1) + i - 1) - l = i
    OBVIOUS
  <2>6. \A i \in 1..m : b[i] = g[i]
    BY <1>2, <2>4, <2>5
  <2> QED BY <1>1, <2>4, <2>6, SeqEqual
<1>4. IsPrefix(s, t)
  <2>1. l <= l + m /\ \A i \in 1..l : i \in 1..(l + m) /\ i <= l
    OBVIOUS
  <2>2. \A i \in 1..l : s[i] = t[i]
    BY <1>2, <2>1
  <2> QED BY <1>1, <1>2, <2>1, <2>2, SameBytesPrefix
<1> QED BY <1>1, <1>2, <1>3, <1>4

LEMMA DownloadedIsTrue ==
  ASSUME TypeOK, SessionInv, DownloadInv
  PROVE  DownloadIsTrue
<1> SUFFICES ASSUME req.op = "DOWNLOAD", heard = "OK", ~unsaid PROVE DownloadIsTrue
  BY DEF DownloadIsTrue
<1>1. PICK g \in Seq(Nat) : Received(g)
  BY DEF DownloadInv, Downloaded
<1>2. PICK o \in Seq(Nat), n \in Nat : o = req.old /\ n = sent /\ n \in 0..req.length
  BY DownloadFacts DEF DownloadInv, Quiet
<1>3. out = o \o g /\ Part(g, 1, n, spc) /\ (result = "0" => All(g, 1, n))
  BY <1>1, <1>2 DEF Received
<1>4. SubSeq(out, Len(o) + 1, Len(out)) = g /\ IsPrefix(o, out)
  BY <1>3, Appendix
<1>5. PICK c \in Seq(Nat) : c = Content(n) /\ Len(c) = n /\ \A i \in 1..n : c[i] = Served(1 + i, n)
  BY Report
<1>6. PICK d \in Seq(Nat) : d = Content(n) \o ErrorReply /\ Len(d) = n + 2
                            /\ \A i \in 1..(n + 2) : d[i] = Served(1 + i, n)
  BY Report
<1>7. PICK l \in Nat : l = Len(g)
  BY LenProperties
<1>8. l <= n + 2 /\ \A i \in 1..l : g[i] = Served(1 + i, n) /\ i \in 1..(n + 2)
  BY <1>3, <1>7 DEF Part
<1>9. IsPrefix(g, d)
  BY <1>6, <1>7, <1>8, SameBytesPrefix
<1>10. ASSUME result = "0" PROVE g \in {c, d}
  <2>1. l = n \/ l = n + 2
    BY <1>3, <1>7, <1>10 DEF All
  <2>2. CASE l = n
    BY <1>5, <1>7, <1>8, <2>2, SeqEqual
  <2>3. CASE l = n + 2
    BY <1>6, <1>7, <1>8, <2>3, SeqEqual
  <2> QED BY <2>1, <2>2, <2>3
<1> QED BY <1>2, <1>4, <1>5, <1>6, <1>9, <1>10 DEF DownloadIsTrue

\* Unless a write to its file was cut short without a word, a client that was told OK
\* appends a beginning of the document to it, with the report of an error behind it
\* at most, and what it calls a success is all that the worker sent, under any other
\* of the failures (download.cpp:54, proxy.cpp:143-174).
THEOREM DownloadIsTrueCorrect == Spec => []DownloadIsTrue
<1>1. Init => DownloadInv
  <2> SUFFICES ASSUME Init, req.op = "DOWNLOAD" PROVE DownloadInv
    BY DEF DownloadInv
  <2>1. req.length \in Nat
    BY RequestsAssumption DEF Init, StatusOps
  <2>2. /\ sent = 0 /\ conn = "up" /\ s2c = << >> /\ heard = "none" /\ out = req.old
        /\ cpc = "start" /\ result = "none" /\ spc = "request"
    BY DEF Init
  <2>3. Quiet
    BY <2>1, <2>2 DEF Quiet
  <2> QED BY <2>2, <2>3 DEF DownloadInv, Downloaded
<1>2. DownloadInv /\ TypeOK /\ SessionInv /\ [Next]_vars => DownloadInv'
  BY DownloadInductive
<1>3. SessionInv /\ [Next]_vars => SessionInv'
  BY SessionInductive
<1>4. Init => SessionInv
  BY InitInv
<1>5. DownloadInv /\ TypeOK /\ SessionInv => DownloadIsTrue
  BY DownloadedIsTrue
<1>6. Spec => []TypeOK
  BY TypeCorrect
<1> QED BY <1>1, <1>2, <1>3, <1>4, <1>5, <1>6, PTL DEF Spec


-----------------------------------------------------------------------------
(* Lists and tables. *)

\* The sums of the first members of ss, the last of which is FlattenSeq(ss).
Sums(ss) ==
  CHOOSE g \in [0..Len(ss) -> Seq(Nat)] :
    /\ g[0] = << >>
    /\ \A n \in 1..Len(ss) : g[n] = g[n - 1] \o ss[n]
    /\ FlattenSeq(ss) = g[Len(ss)]

LEMMA SumsSteps ==
  ASSUME NEW ss \in Seq(Seq(Nat)), NEW k \in Nat, k = Len(ss)
  PROVE  /\ Sums(ss)[0] = << >>
         /\ \A m \in 0..k : Sums(ss)[m] \in Seq(Nat)
         /\ \A m \in 0..(k - 1) : Sums(ss)[m + 1] = Sums(ss)[m] \o ss[m + 1]
         /\ FlattenSeq(ss) = Sums(ss)[k]
<1> DEFINE Ok(g) == /\ g[0] = << >>
                    /\ \A n \in 1..Len(ss) : g[n] = g[n - 1] \o ss[n]
                    /\ FlattenSeq(ss) = g[Len(ss)]
<1>1. \E g \in [0..Len(ss) -> Seq(Nat)] : Ok(g)
  BY FlattenSteps
<1>2. Sums(ss) \in [0..Len(ss) -> Seq(Nat)] /\ Ok(Sums(ss))
  <2>1. Sums(ss) = CHOOSE g \in [0..Len(ss) -> Seq(Nat)] : Ok(g)
    BY DEF Sums
  <2> HIDE DEF Ok
  <2> QED BY <1>1, <2>1
<1>3. PICK g : g = Sums(ss)
  OBVIOUS
<1>4. g \in [0..k -> Seq(Nat)] /\ \A n \in 1..k : g[n] = g[n - 1] \o ss[n]
  BY <1>2, <1>3
<1>5. \A m \in 0..(k - 1) : g[m + 1] = g[m] \o ss[m + 1]
  <2> TAKE m \in 0..(k - 1)
  <2>1. m + 1 \in 1..k /\ (m + 1) - 1 = m
    OBVIOUS
  <2> QED BY <1>4, <2>1
<1> QED BY <1>2, <1>3, <1>4, <1>5

\* A sequence and what stands behind it, byte by byte.
LEMMA Bytewise ==
  ASSUME NEW a \in Seq(Nat), NEW b \in Seq(Nat), NEW l \in Nat, l = Len(a), NEW m \in Nat, m = Len(b)
  PROVE  /\ a \o b \in Seq(Nat) /\ Len(a \o b) = l + m
         /\ \A i \in 1..l : (a \o b)[i] = a[i]
         /\ \A i \in 1..m : (a \o b)[l + i] = b[i]
<1>1. /\ a \o b \in Seq(Nat) /\ Len(a \o b) = Len(a) + Len(b)
      /\ \A i \in 1..(Len(a) + Len(b)) : (a \o b)[i] = IF i <= Len(a) THEN a[i] ELSE b[i - Len(a)]
  BY ConcatProperties
<1>2. PICK c \in Seq(Nat) : c = a \o b /\ Len(c) = l + m
                            /\ \A i \in 1..(l + m) : c[i] = IF i <= l THEN a[i] ELSE b[i - l]
  BY <1>1
<1>3. \A i \in 1..l : i \in 1..(l + m) /\ i <= l
  OBVIOUS
<1>4. \A i \in 1..m : l + i \in 1..(l + m) /\ ~(l + i <= l) /\ (l + i) - l = i
  OBVIOUS
<1>5. \A i \in 1..l : c[i] = a[i]
  BY <1>2, <1>3
<1>6. \A i \in 1..m : c[l + i] = b[i]
  BY <1>2, <1>4
<1> QED BY <1>2, <1>5, <1>6

\* A sum is a beginning of every later one.
LEMMA SumsGrow ==
  ASSUME NEW ss \in Seq(Seq(Nat)), NEW k \in Nat, k = Len(ss),
         NEW m \in 0..k, NEW n \in Nat, m + n <= k
  PROVE  /\ Len(Sums(ss)[m]) <= Len(Sums(ss)[m + n])
         /\ \A i \in 1..Len(Sums(ss)[m]) : Sums(ss)[m + n][i] = Sums(ss)[m][i]
<1>1. PICK g : g = Sums(ss)
  OBVIOUS
<1>2. /\ \A x \in 0..k : g[x] \in Seq(Nat)
      /\ \A x \in 0..(k - 1) : g[x + 1] = g[x] \o ss[x + 1]
  BY <1>1, SumsSteps
<1>3. \A x \in 1..k : ss[x] \in Seq(Nat)
  BY ElementOfSeq
<1>4. PICK l \in Nat : l = Len(g[m])
  BY <1>2, LenProperties
<1> DEFINE T == {x \in Nat : m + x <= k =>
                    l <= Len(g[m + x]) /\ \A i \in 1..l : g[m + x][i] = g[m][i]}
<1>5. 0 \in T
  <2>1. m + 0 = m
    OBVIOUS
  <2> QED BY <1>4, <2>1
<1>6. ASSUME NEW x \in T PROVE x + 1 \in T
  <2>1. x \in Nat /\ (m + x <= k => l <= Len(g[m + x]) /\ \A i \in 1..l : g[m + x][i] = g[m][i])
    OBVIOUS
  <2> HIDE DEF T
  <2>2. ASSUME m + (x + 1) <= k
        PROVE  l <= Len(g[m + (x + 1)]) /\ \A i \in 1..l : g[m + (x + 1)][i] = g[m][i]
    <3>1. /\ m + x \in 0..k /\ m + x \in 0..(k - 1) /\ (m + x) + 1 \in 1..k /\ m + x <= k
          /\ m + (x + 1) = (m + x) + 1
      BY <2>1, <2>2
    <3>2. PICK a \in Seq(Nat), b \in Seq(Nat) : a = g[m + x] /\ b = ss[(m + x) + 1]
      BY <1>2, <1>3, <3>1
    <3>3. g[m + (x + 1)] = a \o b
      BY <1>2, <3>1, <3>2
    <3>4. PICK p \in Nat, q \in Nat : p = Len(a) /\ q = Len(b)
      BY LenProperties
    <3>5. l <= p /\ \A i \in 1..l : a[i] = g[m][i]
      BY <2>1, <3>1, <3>2, <3>4
    <3>6. Len(a \o b) = p + q /\ \A i \in 1..p : (a \o b)[i] = a[i]
      BY <3>4, Bytewise
    <3>7. l <= p + q /\ \A i \in 1..l : i \in 1..p
      BY <3>5
    <3> QED BY <3>3, <3>5, <3>6, <3>7
  <2>3. x + 1 \in Nat
    BY <2>1
  <2> QED BY <2>2, <2>3 DEF T
<1> HIDE DEF T
<1>7. T \in SUBSET Nat
  BY DEF T
<1>8. n \in T
  BY <1>5, <1>6, <1>7, SetInduction
<1> QED BY <1>1, <1>4, <1>8 DEF T

LEMMA SumsPrefix ==
  ASSUME NEW ss \in Seq(Seq(Nat)), NEW k \in Nat, k = Len(ss), NEW m \in 0..k, NEW n \in m..k
  PROVE  /\ Len(Sums(ss)[m]) <= Len(Sums(ss)[n])
         /\ \A i \in 1..Len(Sums(ss)[m]) : Sums(ss)[n][i] = Sums(ss)[m][i]
         /\ IsPrefix(Sums(ss)[m], Sums(ss)[n])
<1>1. PICK d \in Nat : d = n - m /\ m + d = n /\ m + d <= k
  OBVIOUS
<1>2. /\ Len(Sums(ss)[m]) <= Len(Sums(ss)[n])
      /\ \A i \in 1..Len(Sums(ss)[m]) : Sums(ss)[n][i] = Sums(ss)[m][i]
  <2>1. /\ Len(Sums(ss)[m]) <= Len(Sums(ss)[m + d])
        /\ \A i \in 1..Len(Sums(ss)[m]) : Sums(ss)[m + d][i] = Sums(ss)[m][i]
    BY <1>1, SumsGrow
  <2> QED BY <1>1, <2>1
<1>3. PICK a \in Seq(Nat), b \in Seq(Nat) : a = Sums(ss)[m] /\ b = Sums(ss)[n]
  <2>1. m \in 0..k /\ n \in 0..k
    OBVIOUS
  <2> QED BY <2>1, SumsSteps
<1>4. IsPrefix(a, b)
  BY <1>2, <1>3, SameBytesPrefix
<1> QED BY <1>2, <1>3, <1>4

LEMMA Joined ==
  ASSUME NEW a \in Seq(Nat), NEW b \in Seq(Nat)
  PROVE  /\ Len(a) \in Nat /\ Len(b) \in Nat
         /\ a \o b \in Seq(Nat) /\ Len(a \o b) = Len(a) + Len(b)
         /\ \A i \in 1..Len(a) : (a \o b)[i] = a[i]
         /\ \A i \in 1..Len(b) : (a \o b)[Len(a) + i] = b[i]
<1>1. PICK l \in Nat, m \in Nat : l = Len(a) /\ m = Len(b)
  BY LenProperties
<1>2. /\ a \o b \in Seq(Nat) /\ Len(a \o b) = l + m
      /\ \A i \in 1..l : (a \o b)[i] = a[i]
      /\ \A i \in 1..m : (a \o b)[l + i] = b[i]
  BY <1>1, Bytewise
<1> QED BY <1>1, <1>2

\* Where the member m + 1 stands in the whole.
LEMMA SumsMember ==
  ASSUME NEW ss \in Seq(Seq(Nat)), NEW k \in Nat, k = Len(ss), NEW m \in 0..(k - 1)
  PROVE  /\ Len(Sums(ss)[m]) \in Nat /\ Len(ss[m + 1]) \in Nat
         /\ Len(Sums(ss)[m + 1]) = Len(Sums(ss)[m]) + Len(ss[m + 1])
         /\ Len(Sums(ss)[m]) + Len(ss[m + 1]) <= Len(Sums(ss)[k])
         /\ \A i \in 1..Len(ss[m + 1]) : Sums(ss)[k][Len(Sums(ss)[m]) + i] = ss[m + 1][i]
<1>1. m \in 0..k /\ m + 1 \in 0..k /\ m + 1 \in 1..k /\ k \in (m + 1)..k
  OBVIOUS
<1>2. PICK a \in Seq(Nat), b \in Seq(Nat) : a = Sums(ss)[m] /\ b = ss[m + 1]
  BY <1>1, SumsSteps, ElementOfSeq
<1>3. Sums(ss)[m + 1] = a \o b
  BY <1>2, SumsSteps
<1>4. /\ Len(a) \in Nat /\ Len(b) \in Nat /\ Len(a \o b) = Len(a) + Len(b)
      /\ \A i \in 1..Len(b) : (a \o b)[Len(a) + i] = b[i]
  BY Joined
<1>5. PICK n : n = m + 1 /\ n \in 0..k /\ k \in n..k
  BY <1>1
<1>6. /\ Len(Sums(ss)[n]) <= Len(Sums(ss)[k])
      /\ \A i \in 1..Len(Sums(ss)[n]) : Sums(ss)[k][i] = Sums(ss)[n][i]
  BY <1>5, SumsPrefix
<1>7. \A i \in 1..Len(b) : Len(a) + i \in 1..(Len(a) + Len(b))
  <2>1. \A x, y \in Nat : \A i \in 1..y : x + i \in 1..(x + y)
    OBVIOUS
  <2> QED BY <1>4, <2>1
<1>8. \A i \in 1..Len(b) : Sums(ss)[k][Len(a) + i] = (a \o b)[Len(a) + i]
  BY <1>3, <1>4, <1>5, <1>6, <1>7
<1>9. /\ Len(Sums(ss)[m + 1]) = Len(a) + Len(b)
      /\ Len(a) + Len(b) <= Len(Sums(ss)[k])
      /\ \A i \in 1..Len(b) : Sums(ss)[k][Len(a) + i] = b[i]
  BY <1>3, <1>4, <1>5, <1>6, <1>8
<1> QED BY <1>2, <1>4, <1>9


-----------------------------------------------------------------------------
\* The fields of a reply as they are sent, and what the first m of them take.
Ends(fs) == [i \in DOMAIN fs |-> Append(fs[i], OK)]

Place(fs, m) == Len(Sums(Ends(fs))[m])

FullReply(fs) == <<OK>> \o Terminated(fs) \o <<OK>>

LEMMA Words ==
  ASSUME NEW fs \in Seq(Seq(Character)), NEW i \in 1..Len(fs)
  PROVE  /\ fs[i] \in Seq(Character) /\ fs[i] \in Seq(Nat) /\ Len(fs[i]) \in Nat
         /\ \A j \in 1..Len(fs[i]) : fs[i][j] \in Nat /\ fs[i][j] # OK
<1>1. PICK f \in Seq(Character) : f = fs[i]
  BY ElementOfSeq
<1>2. Character \in SUBSET Nat /\ OK \notin Character
  BY Bytes DEF Character, OK, Newline, Letter
<1>3. Len(f) \in Nat /\ \A j \in 1..Len(f) : f[j] \in Character
  BY LenProperties, ElementOfSeq
<1>4. f \in Seq(Nat)
  <2>1. PICK n \in Nat : f \in [1..n -> Character]
    BY LenProperties
  <2>2. f \in [1..n -> Nat]
    BY <1>2, <2>1
  <2> QED BY <2>2
<1> QED BY <1>1, <1>2, <1>3, <1>4

LEMMA EndsType ==
  ASSUME NEW fs \in Seq(Seq(Character)), NEW k \in Nat, k = Len(fs)
  PROVE  /\ Ends(fs) \in Seq(Seq(Nat)) /\ Len(Ends(fs)) = k
         /\ \A m \in 0..(k - 1) : Ends(fs)[m + 1] = Append(fs[m + 1], OK)
<1>1. \A i \in 1..k : Append(fs[i], OK) \in Seq(Nat)
  <2> TAKE i \in 1..k
  <2>1. PICK f \in Seq(Nat) : f = fs[i]
    BY Words
  <2> QED BY <2>1, Bytes, AppendProperties
<1>2. DOMAIN fs = 1..k
  BY LenProperties
<1>3. Ends(fs) = [i \in 1..k |-> Append(fs[i], OK)]
  BY <1>2 DEF Ends
<1>4. Ends(fs) \in Seq(Seq(Nat)) /\ Len(Ends(fs)) = k
  BY <1>1, <1>3
<1>5. \A m \in 0..(k - 1) : m + 1 \in 1..k
  OBVIOUS
<1> QED BY <1>3, <1>4, <1>5

LEMMA Places ==
  ASSUME NEW fs \in Seq(Seq(Character)), NEW k \in Nat, k = Len(fs)
  PROVE  /\ Place(fs, 0) = 0
         /\ \A m \in 0..k : Place(fs, m) \in Nat /\ Place(fs, m) <= Place(fs, k)
         /\ \A m \in 0..(k - 1) : /\ Place(fs, m + 1) = Place(fs, m) + (Len(fs[m + 1]) + 1)
                                  /\ Place(fs, m) + (Len(fs[m + 1]) + 1) <= Place(fs, k)
<1>1. PICK ss \in Seq(Seq(Nat)) : ss = Ends(fs) /\ Len(ss) = k
  BY EndsType
<1>2. Place(fs, 0) = 0
  <2>1. Sums(ss)[0] = << >>
    BY <1>1, SumsSteps
  <2> QED BY <1>1, <2>1, EmptySeq DEF Place
<1>3. ASSUME NEW m \in 0..k PROVE Place(fs, m) \in Nat /\ Place(fs, m) <= Place(fs, k)
  <2>1. k \in m..k
    OBVIOUS
  <2>2. Len(Sums(ss)[m]) <= Len(Sums(ss)[k])
    BY <1>1, <2>1, SumsPrefix
  <2>3. Sums(ss)[m] \in Seq(Nat)
    BY <1>1, SumsSteps
  <2> QED BY <1>1, <2>2, <2>3, LenProperties DEF Place
<1>4. ASSUME NEW m \in 0..(k - 1)
      PROVE  /\ Place(fs, m + 1) = Place(fs, m) + (Len(fs[m + 1]) + 1)
             /\ Place(fs, m) + (Len(fs[m + 1]) + 1) <= Place(fs, k)
  <2>1. m \in 0..k /\ m + 1 \in 1..k
    OBVIOUS
  <2>2. PICK l \in Nat : l = Len(Sums(ss)[m]) /\ l = Place(fs, m)
    BY <1>1, <1>3, <2>1 DEF Place
  <2>3. PICK f \in Seq(Nat), n \in Nat : f = fs[m + 1] /\ n = Len(f)
    BY <2>1, Words
  <2>4. ss[m + 1] = Append(f, OK)
    BY <1>1, <2>3, EndsType
  <2>5. Len(Append(f, OK)) = n + 1
    BY <2>3, Bytes, AppendProperties
  <2>6. PICK q \in Nat : q = Len(ss[m + 1]) /\ q = n + 1
    BY <2>4, <2>5
  <2>7. k = Len(ss)
    BY <1>1
  <2>9. /\ Len(Sums(ss)[m + 1]) = Len(Sums(ss)[m]) + Len(ss[m + 1])
        /\ Len(Sums(ss)[m]) + Len(ss[m + 1]) <= Len(Sums(ss)[k])
    BY <2>7, SumsMember
  <2>8. Len(Sums(ss)[m + 1]) = l + q /\ l + q <= Len(Sums(ss)[k])
    BY <2>2, <2>6, <2>9
  <2> QED BY <1>1, <2>2, <2>3, <2>6, <2>8 DEF Place
<1> QED BY <1>2, <1>3, <1>4

\* What stands behind j letters of the field m + 1.
LEMMA ReplyBytes ==
  ASSUME NEW fs \in Seq(Seq(Character)), NEW k \in Nat, k = Len(fs)
  PROVE  /\ FullReply(fs) \in Seq(Nat)
         /\ Len(FullReply(fs)) = Place(fs, k) + 2
         /\ FullReply(fs)[1] = OK
         /\ FullReply(fs)[Place(fs, k) + 2] = OK
         /\ \A m \in 0..(k - 1) : \A j \in 0..Len(fs[m + 1]) :
              FullReply(fs)[1 + (Place(fs, m) + (j + 1))]
                = IF j < Len(fs[m + 1]) THEN fs[m + 1][j + 1] ELSE OK
<1>1. PICK ss \in Seq(Seq(Nat)) : ss = Ends(fs) /\ Len(ss) = k
  BY EndsType
<1>2. PICK p \in Nat : p = Place(fs, k) /\ p = Len(Sums(ss)[k])
  <2>1. k \in 0..k
    OBVIOUS
  <2> QED BY <1>1, <2>1, Places DEF Place
<1>3. PICK t \in Seq(Nat) : t = Terminated(fs) /\ t = Sums(ss)[k] /\ Len(t) = p
  <2>1. FlattenSeq(ss) = Sums(ss)[k]
    BY <1>1, SumsSteps
  <2>2. Terminated(fs) = FlattenSeq(ss)
    BY <1>1 DEF Terminated, Ends
  <2>3. Terminated(fs) \in Seq(Nat)
    BY TerminatedType
  <2> QED BY <1>2, <2>1, <2>2, <2>3
<1>4. PICK o \in Seq(Nat) : o = <<OK>> /\ Len(o) = 1 /\ o[1] = OK
  BY Bytes
<1>5. PICK u \in Seq(Nat) : u = o \o t /\ Len(u) = 1 + p /\ u[1] = OK /\ \A i \in 1..p : u[1 + i] = t[i]
  <2>1. /\ o \o t \in Seq(Nat) /\ Len(o \o t) = Len(o) + Len(t)
        /\ \A i \in 1..Len(o) : (o \o t)[i] = o[i]
        /\ \A i \in 1..Len(t) : (o \o t)[Len(o) + i] = t[i]
    BY Joined
  <2>2. 1 \in 1..1
    OBVIOUS
  <2>3. /\ Len(o \o t) = 1 + p /\ (o \o t)[1] = OK
        /\ \A i \in 1..p : (o \o t)[1 + i] = t[i]
    BY <1>3, <1>4, <2>1, <2>2
  <2> QED BY <2>1, <2>3
<1>6. PICK r \in Seq(Nat) : /\ r = u \o o /\ Len(r) = (1 + p) + 1 /\ r[(1 + p) + 1] = OK
                            /\ \A i \in 1..(1 + p) : r[i] = u[i]
  <2>1. /\ u \o o \in Seq(Nat) /\ Len(u \o o) = Len(u) + Len(o)
        /\ \A i \in 1..Len(u) : (u \o o)[i] = u[i]
        /\ \A i \in 1..Len(o) : (u \o o)[Len(u) + i] = o[i]
    BY Joined
  <2>2. 1 \in 1..1
    OBVIOUS
  <2>3. /\ Len(u \o o) = (1 + p) + 1 /\ (u \o o)[(1 + p) + 1] = OK
        /\ \A i \in 1..(1 + p) : (u \o o)[i] = u[i]
    BY <1>4, <1>5, <2>1, <2>2
  <2> QED BY <2>1, <2>3
<1>7. r = FullReply(fs)
  BY <1>3, <1>4, <1>5, <1>6 DEF FullReply
<1>8. (1 + p) + 1 = p + 2 /\ 1 \in 1..(1 + p) /\ \A i \in 1..p : 1 + i \in 1..(1 + p)
  OBVIOUS
<1>9. \A i \in 1..p : r[1 + i] = t[i]
  BY <1>5, <1>6, <1>8
<1>10. ASSUME NEW m \in 0..(k - 1), NEW j \in 0..Len(fs[m + 1])
       PROVE  r[1 + (Place(fs, m) + (j + 1))] = IF j < Len(fs[m + 1]) THEN fs[m + 1][j + 1] ELSE OK
  <2>1. m \in 0..k /\ m + 1 \in 1..k
    OBVIOUS
  <2>2. PICK l \in Nat : l = Len(Sums(ss)[m]) /\ l = Place(fs, m)
    BY <1>1, <2>1, Places DEF Place
  <2>3. PICK f \in Seq(Nat), n \in Nat : f = fs[m + 1] /\ n = Len(f) /\ j \in 0..n
    BY <2>1, Words
  <2>12. ss[m + 1] = Append(f, OK)
    BY <1>1, <2>3, EndsType
  <2>13. Len(Append(f, OK)) = n + 1
    BY <2>3, Bytes, AppendProperties
  <2>4. PICK q \in Nat : q = Len(ss[m + 1]) /\ q = n + 1
    BY <2>12, <2>13
  <2>14. k = Len(ss)
    BY <1>1
  <2>15. /\ Len(Sums(ss)[m]) + Len(ss[m + 1]) <= Len(Sums(ss)[k])
         /\ \A i \in 1..Len(ss[m + 1]) : Sums(ss)[k][Len(Sums(ss)[m]) + i] = ss[m + 1][i]
    BY <2>14, SumsMember
  <2>5. /\ l + q <= p
        /\ \A i \in 1..q : t[l + i] = ss[m + 1][i]
    BY <1>2, <1>3, <2>2, <2>4, <2>15
  <2>16. n \in Nat /\ j \in 0..n /\ q = n + 1 /\ l \in Nat /\ l + q <= p
    BY <2>2, <2>3, <2>4, <2>5
  <2>6. j + 1 \in 1..q /\ l + (j + 1) \in 1..p
    BY <2>16
  <2>7. r[1 + (l + (j + 1))] = ss[m + 1][j + 1]
    BY <1>9, <2>5, <2>6
  <2>8. ss[m + 1] = Append(f, OK)
    BY <2>12
  <2>9. (\A i \in 1..n : Append(f, OK)[i] = f[i]) /\ Append(f, OK)[n + 1] = OK
    <3>1. OK \in Nat /\ n = Len(f)
      BY <2>3, Bytes
    <3>2. (\A i \in 1..Len(f) : Append(f, OK)[i] = f[i]) /\ Append(f, OK)[Len(f) + 1] = OK
      BY <3>1, AppendProperties
    <3> QED BY <3>1, <3>2
  <2>10. CASE j < n
    <3>1. j + 1 \in 1..n
      BY <2>3, <2>10
    <3> QED BY <2>2, <2>3, <2>7, <2>8, <2>9, <2>10, <3>1
  <2>11. CASE ~(j < n)
    <3>1. j = n
      BY <2>3, <2>11
    <3> QED BY <2>2, <2>3, <2>7, <2>8, <2>9, <2>11, <3>1
  <2> QED BY <2>10, <2>11
<1>11. Len(r) = p + 2 /\ r[1] = OK /\ r[p + 2] = OK
  BY <1>5, <1>6, <1>8
<1>12. Len(FullReply(fs)) = Place(fs, k) + 2 /\ FullReply(fs)[1] = OK
       /\ FullReply(fs)[Place(fs, k) + 2] = OK /\ FullReply(fs) \in Seq(Nat)
  BY <1>2, <1>7, <1>11
<1> QED BY <1>7, <1>10, <1>12


-----------------------------------------------------------------------------
\* What the client makes of the field m, of the first m fields, and of all.
Line(op, f, m) ==
  IF op = "LIST" THEN IF f = << >> THEN << >> ELSE Append(f, Newline)
  ELSE Append(f, IF m % 4 = 0 THEN Newline ELSE Comma)

Shown(op, fs) == [m \in DOMAIN fs |-> Line(op, fs[m], m)]

Drawn(op, fs, m) == Sums(Shown(op, fs))[m]

LEMMA Behind ==
  ASSUME NEW a \in Seq(Nat), NEW f \in Seq(Nat), NEW c \in Nat
  PROVE  /\ a \o Append(f, c) = (a \o f) \o <<c>>
         /\ a \o Append(f, c) \in Seq(Nat)
         /\ a \o Append(f, c) # << >>
         /\ Last(a \o Append(f, c)) = c
<1>1. <<c>> \in Seq(Nat) /\ Append(f, c) = f \o <<c>>
  BY AppendIsConcat
<1>2. a \o Append(f, c) = (a \o f) \o <<c>>
  BY <1>1, ConcatAssociative, SMTT(40)
<1>3. PICK s \in Seq(Nat) : s = a \o f
  BY ConcatProperties
<1>4. /\ Append(s, c) \in Seq(Nat) /\ Append(s, c) # << >>
      /\ Len(Append(s, c)) = Len(s) + 1 /\ Append(s, c)[Len(s) + 1] = c
  <2>1. Append(s, c) \in Seq(Nat)
    BY AppendProperties
  <2>2. Len(Append(s, c)) = Len(s) + 1
    BY AppendProperties
  <2>3. Append(s, c)[Len(s) + 1] = c
    BY AppendProperties
  <2>4. Append(s, c) # << >>
    BY AppendProperties
  <2> QED BY <2>1, <2>2, <2>3, <2>4
<1>5. Append(s, c) = s \o <<c>>
  BY AppendIsConcat
<1>6. Last(Append(s, c)) = c
  BY <1>4 DEF Last
<1> QED BY <1>2, <1>3, <1>4, <1>5, <1>6

LEMMA LastBehind ==
  ASSUME NEW a \in Seq(Nat), NEW f \in Seq(Nat), f # << >>
  PROVE  a \o f # << >> /\ Last(a \o f) = Last(f)
<1>1. PICK e \in Seq(Nat), c \in Nat : f = Append(e, c)
  BY SequenceEmptyOrAppend
<1>2. Last(f) = c
  <2>1. Len(Append(e, c)) = Len(e) + 1 /\ Append(e, c)[Len(e) + 1] = c
    BY AppendProperties
  <2> QED BY <1>1, <2>1 DEF Last
<1> QED BY <1>1, <1>2, Behind

LEMMA LineType ==
  ASSUME NEW f \in Seq(Nat), NEW op, NEW m
  PROVE  Line(op, f, m) \in Seq(Nat)
<1>1. Append(f, Newline) \in Seq(Nat) /\ Append(f, Comma) \in Seq(Nat)
  BY Bytes, AppendProperties
<1> QED BY <1>1, Bytes DEF Line

LEMMA ShownType ==
  ASSUME NEW fs \in Seq(Seq(Character)), NEW op, NEW k \in Nat, k = Len(fs)
  PROVE  /\ Shown(op, fs) \in Seq(Seq(Nat)) /\ Len(Shown(op, fs)) = k
         /\ \A m \in 0..(k - 1) : Shown(op, fs)[m + 1] = Line(op, fs[m + 1], m + 1)
<1>1. \A i \in 1..k : Line(op, fs[i], i) \in Seq(Nat)
  BY Words, LineType
<1>2. DOMAIN fs = 1..k
  BY LenProperties
<1>3. Shown(op, fs) = [i \in 1..k |-> Line(op, fs[i], i)]
  BY <1>2 DEF Shown
<1>4. Shown(op, fs) \in Seq(Seq(Nat)) /\ Len(Shown(op, fs)) = k
  BY <1>1, <1>3
<1>5. \A m \in 0..(k - 1) : m + 1 \in 1..k
  OBVIOUS
<1> QED BY <1>3, <1>4, <1>5

LEMMA DrawnSteps ==
  ASSUME NEW fs \in Seq(Seq(Character)), NEW op, NEW k \in Nat, k = Len(fs)
  PROVE  /\ Drawn(op, fs, 0) = << >>
         /\ \A m \in 0..k : Drawn(op, fs, m) \in Seq(Nat)
         /\ \A m \in 0..k : IsPrefix(Drawn(op, fs, m), Drawn(op, fs, k))
         /\ \A m \in 0..(k - 1) :
              /\ Line(op, fs[m + 1], m + 1) \in Seq(Nat)
              /\ Drawn(op, fs, m + 1) = Drawn(op, fs, m) \o Line(op, fs[m + 1], m + 1)
         /\ FlattenSeq(Shown(op, fs)) = Drawn(op, fs, k)
<1>1. PICK ss \in Seq(Seq(Nat)) : ss = Shown(op, fs) /\ Len(ss) = k
  BY ShownType
<1>2. k = Len(ss)
  BY <1>1
<1>3. /\ Sums(ss)[0] = << >>
      /\ \A m \in 0..k : Sums(ss)[m] \in Seq(Nat)
      /\ \A m \in 0..(k - 1) : Sums(ss)[m + 1] = Sums(ss)[m] \o ss[m + 1]
      /\ FlattenSeq(ss) = Sums(ss)[k]
  BY <1>2, SumsSteps
<1>4. \A m \in 0..k : IsPrefix(Sums(ss)[m], Sums(ss)[k])
  <2> TAKE m \in 0..k
  <2>1. k \in m..k
    OBVIOUS
  <2> QED BY <1>2, <2>1, SumsPrefix
<1>5. \A m \in 0..(k - 1) : ss[m + 1] = Line(op, fs[m + 1], m + 1)
  BY <1>1, ShownType
<1>6. \A m \in 0..(k - 1) : Line(op, fs[m + 1], m + 1) \in Seq(Nat)
  <2> TAKE m \in 0..(k - 1)
  <2>1. m + 1 \in 1..k
    OBVIOUS
  <2> QED BY <2>1, Words, LineType
<1> QED BY <1>1, <1>3, <1>4, <1>5, <1>6 DEF Drawn

\* How what was shown so far ends, which the client goes by.
LEMMA DrawnEnds ==
  ASSUME NEW fs \in Seq(Seq(Character)), NEW op, NEW k \in Nat, k = Len(fs), NEW m \in 0..k
  PROVE  /\ op = "LIST" => Drawn(op, fs, m) = << >> \/ Last(Drawn(op, fs, m)) = Newline
         /\ op # "LIST" /\ m # 0 =>
              /\ Drawn(op, fs, m) # << >>
              /\ Last(Drawn(op, fs, m)) = IF m % 4 = 0 THEN Newline ELSE Comma
<1> DEFINE End(n) == Drawn(op, fs, n) = << >> \/ Last(Drawn(op, fs, n)) = Newline
           T == {n \in Nat : n \in 0..k /\ op = "LIST" => End(n)}
<1>1. End(0)
  BY DrawnSteps
<1>2. ASSUME NEW n \in 0..(k - 1), op = "LIST", End(n) PROVE End(n + 1)
  <2>1. PICK a \in Seq(Nat), f \in Seq(Nat) : a = Drawn(op, fs, n) /\ f = fs[n + 1]
    <3>1. n \in 0..k /\ n + 1 \in 1..k
      OBVIOUS
    <3> QED BY <3>1, DrawnSteps, Words
  <2>2. Drawn(op, fs, n + 1) = a \o Line(op, f, n + 1)
    BY <2>1, DrawnSteps
  <2>3. CASE f = << >>
    <3>1. a \o << >> = a
      BY ConcatEmptySeq
    <3> QED BY <1>2, <2>1, <2>2, <2>3, <3>1 DEF Line
  <2>4. CASE f # << >>
    <3>1. Newline \in Nat
      BY Bytes
    <3>2. Last(a \o Append(f, Newline)) = Newline
      BY <3>1, Behind
    <3> QED BY <1>2, <2>2, <2>4, <3>2 DEF Line
  <2> QED BY <2>3, <2>4
<1> HIDE DEF End
<1>3. \A n \in T : n + 1 \in T
  <2> SUFFICES ASSUME NEW n \in T PROVE n + 1 \in T
    OBVIOUS
  <2>1. n + 1 \in 0..k => n \in 0..(k - 1) /\ n \in 0..k
    OBVIOUS
  <2> QED BY <1>2, <2>1
<1>4. m \in T
  <2>1. T \in SUBSET Nat /\ 0 \in T /\ m \in Nat
    BY <1>1
  <2> HIDE DEF T
  <2>2. T = Nat
    BY <1>3, <2>1, SetInduction
  <2> QED BY <2>1, <2>2
<1>5. op = "LIST" => End(m)
  BY <1>4
<1>6. ASSUME op # "LIST", m # 0
      PROVE  /\ Drawn(op, fs, m) # << >>
             /\ Last(Drawn(op, fs, m)) = IF m % 4 = 0 THEN Newline ELSE Comma
  <2>1. PICK n \in 0..(k - 1) : m = n + 1
    <3>1. m - 1 \in 0..(k - 1) /\ m = (m - 1) + 1
      BY <1>6
    <3> QED BY <3>1
  <2>2. PICK a \in Seq(Nat), f \in Seq(Nat) : a = Drawn(op, fs, n) /\ f = fs[n + 1]
    <3>1. n \in 0..k /\ n + 1 \in 1..k
      OBVIOUS
    <3> QED BY <3>1, DrawnSteps, Words
  <2>3. PICK c \in Nat : c = IF m % 4 = 0 THEN Newline ELSE Comma
    BY Bytes
  <2>4. Drawn(op, fs, m) = a \o Append(f, c)
    BY <1>6, <2>1, <2>2, <2>3, DrawnSteps DEF Line
  <2>5. a \o Append(f, c) # << >> /\ Last(a \o Append(f, c)) = c
    BY Behind
  <2> QED BY <2>3, <2>4, <2>5
<1> QED BY <1>5, <1>6 DEF End


-----------------------------------------------------------------------------
\* The fields of a reply, and what the client is to show of them.
Fields(r) == IF r.op = "LIST" THEN r.names ELSE FlattenSeq(r.rows)

Whole(r) ==
  IF r.op = "LIST" THEN Lines(r.names)
  ELSE IF r.rows = << >> THEN <<Comma>> ELSE Table(r.rows)

Ordinary(r) ==
  IF r.op = "LIST"
  THEN \A i \in DOMAIN r.names : r.names[i] # << >> /\ ~EndsLine(r.names[i])
  ELSE \A i \in DOMAIN r.rows : \A f \in 1..3 : ~EndsLine(r.rows[i][f])

LEMMA Fours ==
  /\ \A n \in Nat : /\ (4 * n + 1) % 4 = 1 /\ (4 * n + 2) % 4 = 2
                    /\ (4 * n + 3) % 4 = 3 /\ (4 * n + 4) % 4 = 0
                    /\ (4 * n) % 4 = 0 /\ 4 * (n + 1) = 4 * n + 4 /\ 4 * n \in Nat
  /\ \A m \in Nat : /\ m % 4 \in 0..3
                    /\ (m + 1) % 4 = ((m % 4) + 1) % 4
                    /\ (m + 1) % 4 = 0 <=> m % 4 = 3
  /\ \A m \in Nat : \E n \in Nat : m = 4 * n + (m % 4)
<1>1. \A m \in Nat : m \div 4 \in Nat /\ m = 4 * (m \div 4) + (m % 4)
  OBVIOUS
<1>2. \A m \in Nat : \E n \in Nat : m = 4 * n + (m % 4)
  BY <1>1
<1> QED BY <1>2

\* The rows of four, one behind the other.
LEMMA RowFields ==
  ASSUME NEW S, NEW rows \in Seq(Seq(S)), NEW R \in Nat, R = Len(rows),
         \A i \in 1..R : Len(rows[i]) = 4
  PROVE  /\ FlattenSeq(rows) \in Seq(S)
         /\ Len(FlattenSeq(rows)) = 4 * R
         /\ \A n \in 0..(R - 1) : \A f \in 1..4 : FlattenSeq(rows)[4 * n + f] = rows[n + 1][f]
<1>1. PICK g \in [0..R -> Seq(S)] : /\ g[0] = << >>
                                    /\ \A n \in 1..R : g[n] = g[n - 1] \o rows[n]
                                    /\ FlattenSeq(rows) = g[R]
  BY FlattenSteps
<1> DEFINE Filled(n) == /\ Len(g[n]) = 4 * n
                        /\ \A i \in 0..(n - 1) : \A f \in 1..4 : g[n][4 * i + f] = rows[i + 1][f]
           T == {n \in Nat : n <= R => Filled(n)}
<1>2. Filled(0)
  BY <1>1, EmptySeq
<1>3. ASSUME NEW n \in 0..(R - 1), Filled(n) PROVE Filled(n + 1)
  <2>1. PICK a \in Seq(S), b \in Seq(S) : a = g[n] /\ b = rows[n + 1]
    <3>1. n \in 0..R /\ n + 1 \in 1..R
      OBVIOUS
    <3> QED BY <1>1, <3>1, ElementOfSeq
  <2>2. g[n + 1] = a \o b
    <3>1. n + 1 \in 1..R /\ (n + 1) - 1 = n
      OBVIOUS
    <3> QED BY <1>1, <2>1, <3>1
  <2>3. Len(a) = 4 * n /\ Len(b) = 4
    <3>1. n + 1 \in 1..R
      OBVIOUS
    <3> QED BY <1>3, <2>1, <3>1
  <2>4. /\ Len(a \o b) = Len(a) + Len(b)
        /\ \A i \in 1..(Len(a) + Len(b)) :
             (a \o b)[i] = IF i <= Len(a) THEN a[i] ELSE b[i - Len(a)]
    BY ConcatProperties
  <2>5. Len(a \o b) = 4 * (n + 1)
    BY <2>3, <2>4
  <2>6. ASSUME NEW i \in 0..n, NEW f \in 1..4 PROVE (a \o b)[4 * i + f] = rows[i + 1][f]
    <3>1. 4 * i + f \in 1..(4 * n + 4)
      OBVIOUS
    <3>2. CASE i = n
      <4>1. ~(4 * i + f <= 4 * n) /\ (4 * i + f) - 4 * n = f
        BY <3>2
      <4>2. (a \o b)[4 * i + f] = b[f]
        BY <2>3, <2>4, <3>1, <4>1
      <4> QED BY <2>1, <3>2, <4>2
    <3>3. CASE i # n
      <4>1. i \in 0..(n - 1) /\ 4 * i + f <= 4 * n
        BY <3>3
      <4>2. (a \o b)[4 * i + f] = a[4 * i + f]
        BY <2>3, <2>4, <3>1, <4>1
      <4> QED BY <1>3, <2>1, <4>1, <4>2
    <3> QED BY <3>2, <3>3
  <2>7. 0..((n + 1) - 1) = 0..n
    OBVIOUS
  <2> QED BY <2>2, <2>5, <2>6, <2>7
<1> HIDE DEF Filled
<1>4. \A n \in T : n + 1 \in T
  <2> SUFFICES ASSUME NEW n \in T PROVE n + 1 \in T
    OBVIOUS
  <2>1. n + 1 <= R => n \in 0..(R - 1) /\ n <= R
    OBVIOUS
  <2> QED BY <1>3, <2>1
<1>5. T \in SUBSET Nat /\ 0 \in T
  BY <1>2
<1>6. Filled(R)
  <2> HIDE DEF T
  <2>1. T = Nat
    BY <1>4, <1>5, SetInduction
  <2>2. R \in T
    BY <2>1
  <2> QED BY <2>2 DEF T
<1>7. FlattenSeq(rows) \in Seq(S)
  BY FlattenType
<1> QED BY <1>1, <1>6, <1>7 DEF Filled

\* Concatenation as an operator of its own, which the provers take as it stands.
Cat(a, b) == a \o b

LEMMA CatTwo ==
  /\ \A a, b \in Seq(Nat) : Cat(a, b) \in Seq(Nat)
  /\ \A a, b, c \in Seq(Nat) : Cat(Cat(a, b), c) = Cat(a, Cat(b, c))
  /\ \A x \in Nat : \E e \in Seq(Nat) : e = <<x>> /\ \A a \in Seq(Nat) : Append(a, x) = Cat(a, e)
  /\ \A a \in Seq(Nat), x \in Nat : Append(a, x) \in Seq(Nat)
<1>1. \A a, b \in Seq(Nat) : Cat(a, b) \in Seq(Nat)
  BY DEF Cat
<1>2. \A a, b, c \in Seq(Nat) : Cat(Cat(a, b), c) = Cat(a, Cat(b, c))
  BY DEF Cat
<1>3. ASSUME NEW x \in Nat
      PROVE  \E e \in Seq(Nat) : e = <<x>> /\ \A a \in Seq(Nat) : Append(a, x) = Cat(a, e)
  <2>1. <<x>> \in Seq(Nat)
    OBVIOUS
  <2>2. \A a \in Seq(Nat) : Append(a, x) = Cat(a, <<x>>)
    BY AppendIsConcat DEF Cat
  <2> QED BY <2>1, <2>2, Zenon
<1>4. \A a \in Seq(Nat), x \in Nat : Append(a, x) \in Seq(Nat)
  BY AppendProperties
<1> QED BY <1>1, <1>2, <1>3, <1>4

LEMMA Joint ==
  ASSUME NEW D \in Seq(Nat), NEW s \in Seq(Nat), NEW f \in Seq(Nat), NEW x \in Nat
  PROVE  Cat(Cat(D, s), Append(f, x)) = Cat(D, Append(Cat(s, f), x))
<1>1. PICK e \in Seq(Nat) : \A a \in Seq(Nat) : Append(a, x) = Cat(a, e)
  BY CatTwo
<1>2. Cat(s, f) \in Seq(Nat) /\ Cat(D, s) \in Seq(Nat)
  BY CatTwo
<1>3. Cat(Cat(D, s), Cat(f, e)) = Cat(Cat(Cat(D, s), f), e)
  BY <1>2, CatTwo
<1>4. Cat(Cat(D, s), f) = Cat(D, Cat(s, f))
  BY CatTwo
<1>5. Cat(Cat(D, Cat(s, f)), e) = Cat(D, Cat(Cat(s, f), e))
  BY <1>2, CatTwo
<1> QED BY <1>1, <1>2, <1>3, <1>4, <1>5

\* A row of the table is the lines of its fields, one behind the other.
LEMMA RowOfLines ==
  ASSUME NEW D \in Seq(Nat), NEW r,
         r[1] \in Seq(Nat), r[2] \in Seq(Nat), r[3] \in Seq(Nat), r[4] \in Seq(Nat)
  PROVE  /\ Cat(Cat(Cat(Cat(D, Append(r[1], Comma)), Append(r[2], Comma)), Append(r[3], Comma)),
                Append(r[4], Newline))
              = Cat(D, Row(r))
         /\ Row(r) \in Seq(Nat)
<1>0. Comma \in Nat /\ Newline \in Nat
  BY Bytes
<1>7. PICK a \in Seq(Nat), b \in Seq(Nat), c \in Seq(Nat), d \in Seq(Nat) :
        a = r[1] /\ b = r[2] /\ c = r[3] /\ d = r[4]
  OBVIOUS
<1>1. PICK p \in Seq(Nat) : p = Append(a, Comma)
  BY <1>0, CatTwo
<1>2. PICK q \in Seq(Nat) : q = Append(Cat(p, b), Comma) /\ Cat(Cat(D, p), Append(b, Comma)) = Cat(D, q)
  <2>1. Cat(Cat(D, p), Append(b, Comma)) = Cat(D, Append(Cat(p, b), Comma))
    BY <1>0, Joint
  <2>2. Append(Cat(p, b), Comma) \in Seq(Nat)
    BY <1>0, CatTwo
  <2> QED BY <2>1, <2>2
<1>3. PICK t \in Seq(Nat) : t = Append(Cat(q, c), Comma) /\ Cat(Cat(D, q), Append(c, Comma)) = Cat(D, t)
  <2>1. Cat(Cat(D, q), Append(c, Comma)) = Cat(D, Append(Cat(q, c), Comma))
    BY <1>0, Joint
  <2>2. Append(Cat(q, c), Comma) \in Seq(Nat)
    BY <1>0, CatTwo
  <2> QED BY <2>1, <2>2
<1>4. PICK s \in Seq(Nat) : s = Append(Cat(t, d), Newline) /\ Cat(Cat(D, t), Append(d, Newline)) = Cat(D, s)
  <2>1. Cat(Cat(D, t), Append(d, Newline)) = Cat(D, Append(Cat(t, d), Newline))
    BY <1>0, Joint
  <2>2. Append(Cat(t, d), Newline) \in Seq(Nat)
    BY <1>0, CatTwo
  <2> QED BY <2>1, <2>2
<1>5. Cat(Cat(Cat(Cat(D, Append(a, Comma)), Append(b, Comma)), Append(c, Comma)), Append(d, Newline)) = Cat(D, s)
  BY <1>1, <1>2, <1>3, <1>4
<1>6. Row(r) = s
  <2>1. PICK x \in Seq(Nat) : x = <<Comma>> /\ \A e \in Seq(Nat) : Append(e, Comma) = Cat(e, x)
    BY <1>0, CatTwo
  <2>2. PICK y \in Seq(Nat) : y = <<Newline>> /\ \A e \in Seq(Nat) : Append(e, Newline) = Cat(e, y)
    BY <1>0, CatTwo
  <2>3. s = Cat(Cat(t, d), y) /\ t = Cat(Cat(q, c), x) /\ q = Cat(Cat(p, b), x) /\ p = Cat(a, x)
    BY <1>1, <1>2, <1>3, <1>4, <2>1, <2>2, CatTwo
  <2>4. Row(r) = Cat(Cat(Cat(Cat(Cat(Cat(Cat(a, x), b), x), c), x), d), y)
    BY <1>7, <2>1, <2>2, Zenon DEF Row, Cat
  <2> QED BY <2>3, <2>4
<1> QED BY <1>5, <1>6, <1>7

LEMMA TableDrawn ==
  ASSUME NEW rows \in Seq(Seq(Seq(Character))), NEW R \in Nat, R = Len(rows),
         \A i \in 1..R : Len(rows[i]) = 4, NEW op, op # "LIST"
  PROVE  Table(rows) = Drawn(op, FlattenSeq(rows), 4 * R)
<1>1. PICK fs \in Seq(Seq(Character)) :
        /\ fs = FlattenSeq(rows)
        /\ \A n \in 0..(R - 1) : \A f \in 1..4 : fs[4 * n + f] = rows[n + 1][f]
        /\ Len(fs) = 4 * R
  BY RowFields
<1>2. PICK k \in Nat : k = Len(fs) /\ k = 4 * R
  BY <1>1, LenProperties
<1>3. ASSUME NEW n \in 0..(R - 1)
      PROVE  \E r \in Seq(Seq(Character)) : \E a, b, c, d \in Seq(Nat) :
                /\ r = rows[n + 1] /\ a = r[1] /\ b = r[2] /\ c = r[3] /\ d = r[4]
                /\ a = fs[4 * n + 1] /\ b = fs[4 * n + 2] /\ c = fs[4 * n + 3] /\ d = fs[4 * n + 4]
  <2>1. n + 1 \in 1..R
    OBVIOUS
  <2>2. PICK r \in Seq(Seq(Character)) : r = rows[n + 1] /\ Len(r) = 4
    BY <2>1, ElementOfSeq
  <2>3. \A f \in 1..4 : r[f] \in Seq(Nat)
    BY <2>2, Words
  <2>4. 1 \in 1..4 /\ 2 \in 1..4 /\ 3 \in 1..4 /\ 4 \in 1..4
    OBVIOUS
  <2>5. PICK a, b, c, d \in Seq(Nat) : a = r[1] /\ b = r[2] /\ c = r[3] /\ d = r[4]
    BY <2>3, <2>4
  <2>6. /\ fs[4 * n + 1] = r[1] /\ fs[4 * n + 2] = r[2]
        /\ fs[4 * n + 3] = r[3] /\ fs[4 * n + 4] = r[4]
    BY <1>1, <2>2, <2>4
  <2> QED BY <2>2, <2>5, <2>6
<1>4. \A i \in 1..R : Row(rows[i]) \in Seq(Nat)
  <2> TAKE i \in 1..R
  <2>1. PICK n \in 0..(R - 1) : i = n + 1
    <3>1. i - 1 \in 0..(R - 1) /\ i = (i - 1) + 1
      OBVIOUS
    <3> QED BY <3>1
  <2>2. PICK r \in Seq(Seq(Character)) : \E a, b, c, d \in Seq(Nat) :
          r = rows[i] /\ a = r[1] /\ b = r[2] /\ c = r[3] /\ d = r[4]
    BY <1>3, <2>1
  <2>3. << >> \in Seq(Nat)
    BY Bytes
  <2>4. r[1] \in Seq(Nat) /\ r[2] \in Seq(Nat) /\ r[3] \in Seq(Nat) /\ r[4] \in Seq(Nat)
    BY <2>2
  <2>5. Row(r) \in Seq(Nat)
    BY <2>3, <2>4, RowOfLines
  <2> QED BY <2>2, <2>5
<1>5. PICK tab \in Seq(Seq(Nat)) : /\ tab = [i \in DOMAIN rows |-> Row(rows[i])]
                                   /\ Len(tab) = R
                                   /\ \A i \in 1..R : tab[i] = Row(rows[i])
  <2>1. DOMAIN rows = 1..R
    BY LenProperties
  <2>2. [i \in 1..R |-> Row(rows[i])] \in Seq(Seq(Nat))
    BY <1>4
  <2>3. PICK tab \in Seq(Seq(Nat)) : tab = [i \in 1..R |-> Row(rows[i])]
    BY <2>2
  <2>4. Len(tab) = R /\ \A i \in 1..R : tab[i] = Row(rows[i])
    BY <2>3
  <2> QED BY <2>1, <2>3, <2>4
<1>6. R = Len(tab)
  BY <1>5
<1>7. /\ Sums(tab)[0] = << >>
      /\ \A m \in 0..R : Sums(tab)[m] \in Seq(Nat)
      /\ \A m \in 0..(R - 1) : Sums(tab)[m + 1] = Sums(tab)[m] \o tab[m + 1]
      /\ FlattenSeq(tab) = Sums(tab)[R]
  BY <1>6, SumsSteps
<1> DEFINE Same(n) == Sums(tab)[n] = Drawn(op, fs, 4 * n)
           T == {n \in Nat : n <= R => Same(n)}
<1>8. Same(0)
  <2>1. 4 * 0 = 0
    OBVIOUS
  <2>2. Drawn(op, fs, 0) = << >>
    BY <1>2, DrawnSteps
  <2> QED BY <1>7, <2>1, <2>2
<1>9. ASSUME NEW n \in 0..(R - 1), Same(n) PROVE Same(n + 1)
  <2>1. n \in 0..R /\ n + 1 \in 1..R /\ 4 * (n + 1) = 4 * n + 4
    OBVIOUS
  <2>2. PICK D \in Seq(Nat) : D = Sums(tab)[n] /\ D = Drawn(op, fs, 4 * n)
    BY <1>7, <1>9, <2>1
  <2>3. PICK r \in Seq(Seq(Character)) : \E a, b, c, d \in Seq(Nat) :
                /\ r = rows[n + 1] /\ a = r[1] /\ b = r[2] /\ c = r[3] /\ d = r[4]
                /\ a = fs[4 * n + 1] /\ b = fs[4 * n + 2] /\ c = fs[4 * n + 3] /\ d = fs[4 * n + 4]
    BY <1>3
  <2>4. PICK a, b, c, d \in Seq(Nat) :
                /\ a = r[1] /\ b = r[2] /\ c = r[3] /\ d = r[4]
                /\ a = fs[4 * n + 1] /\ b = fs[4 * n + 2] /\ c = fs[4 * n + 3] /\ d = fs[4 * n + 4]
    BY <2>3
  <2>5. \A m \in 0..(k - 1) : Drawn(op, fs, m + 1) = Cat(Drawn(op, fs, m), Line(op, fs[m + 1], m + 1))
    BY <1>2, DrawnSteps DEF Cat
  <2>6. /\ 4 * n \in 0..(k - 1) /\ 4 * n + 1 \in 0..(k - 1) /\ 4 * n + 2 \in 0..(k - 1) /\ 4 * n + 3 \in 0..(k - 1)
        /\ (4 * n + 1) + 1 = 4 * n + 2 /\ (4 * n + 2) + 1 = 4 * n + 3 /\ (4 * n + 3) + 1 = 4 * n + 4
    BY <1>2
  <2>7. /\ Line(op, a, 4 * n + 1) = Append(a, Comma) /\ Line(op, b, 4 * n + 2) = Append(b, Comma)
        /\ Line(op, c, 4 * n + 3) = Append(c, Comma) /\ Line(op, d, 4 * n + 4) = Append(d, Newline)
    <3>1. /\ (4 * n + 1) % 4 # 0 /\ (4 * n + 2) % 4 # 0 /\ (4 * n + 3) % 4 # 0 /\ (4 * n + 4) % 4 = 0
      OBVIOUS
    <3> QED BY <3>1 DEF Line
  <2>8. Drawn(op, fs, 4 * n + 1) = Cat(D, Append(a, Comma))
    BY <2>2, <2>4, <2>5, <2>6, <2>7
  <2>9. Drawn(op, fs, 4 * n + 2) = Cat(Drawn(op, fs, 4 * n + 1), Append(b, Comma))
    BY <2>4, <2>5, <2>6, <2>7
  <2>10. Drawn(op, fs, 4 * n + 3) = Cat(Drawn(op, fs, 4 * n + 2), Append(c, Comma))
    BY <2>4, <2>5, <2>6, <2>7
  <2>11. Drawn(op, fs, 4 * n + 4) = Cat(Drawn(op, fs, 4 * n + 3), Append(d, Newline))
    BY <2>4, <2>5, <2>6, <2>7
  <2>14. r[1] \in Seq(Nat) /\ r[2] \in Seq(Nat) /\ r[3] \in Seq(Nat) /\ r[4] \in Seq(Nat)
    BY <2>4
  <2>15. Cat(Cat(Cat(Cat(D, Append(r[1], Comma)), Append(r[2], Comma)), Append(r[3], Comma)),
             Append(r[4], Newline))
           = Cat(D, Row(r))
    BY <2>14, RowOfLines
  <2>16. Drawn(op, fs, 4 * n + 4) = Cat(D, Row(r))
    BY <2>4, <2>8, <2>9, <2>10, <2>11, <2>15
  <2>12. Drawn(op, fs, 4 * n + 4) = D \o Row(r)
    BY <2>16 DEF Cat
  <2>13. Sums(tab)[n + 1] = D \o Row(r)
    BY <1>5, <1>7, <2>1, <2>2, <2>3
  <2> QED BY <2>1, <2>12, <2>13
<1> HIDE DEF Same
<1>10. \A n \in T : n + 1 \in T
  <2> SUFFICES ASSUME NEW n \in T PROVE n + 1 \in T
    OBVIOUS
  <2>1. n + 1 <= R => n \in 0..(R - 1) /\ n <= R
    OBVIOUS
  <2> QED BY <1>9, <2>1
<1>11. Same(R)
  <2>1. T \in SUBSET Nat /\ 0 \in T
    BY <1>8
  <2> HIDE DEF T
  <2>2. T = Nat
    BY <1>10, <2>1, SetInduction
  <2>3. R \in T
    BY <2>2
  <2> QED BY <2>3 DEF T
<1>12. Table(rows) = FlattenSeq(tab)
  BY <1>5 DEF Table
<1> QED BY <1>1, <1>7, <1>11, <1>12 DEF Same


\* How the fields fs of the request r, k of them, make up what is to be shown, w.
Laid(r, fs, k, w) ==
  /\ fs \in Seq(Seq(Character)) /\ k = Len(fs) /\ k \in Nat /\ w \in Seq(Nat)
  /\ r.op = "LIST" \/ k # 0 => w = Drawn(r.op, fs, k)
  /\ r.op = "SEARCH" /\ k = 0 => w = <<Comma>>
  /\ r.op = "SEARCH" => k % 4 = 0
  /\ \A m \in 0..(k - 1) :
       /\ r.op = "SEARCH" /\ m % 4 = 0 => fs[m + 1] # << >>
       /\ r.op = "LIST" /\ Ordinary(r) => fs[m + 1] # << >> /\ ~EndsLine(fs[m + 1])
       /\ r.op = "SEARCH" /\ m % 4 # 3 /\ Ordinary(r) => ~EndsLine(fs[m + 1])

LEMMA ListLaid ==
  ASSUME NEW r \in Requests, r.op = "LIST"
  PROVE  Laid(r, Fields(r), Len(Fields(r)), Whole(r))
<1>1. PICK fs \in Seq(Seq(Character)) : fs = r.names /\ fs = Fields(r)
  BY RequestsAssumption DEF StatusOps, Fields
<1>2. PICK k \in Nat : k = Len(fs)
  BY LenProperties
<1>3. DOMAIN fs = 1..k
  BY <1>2, LenProperties
<1>4. Whole(r) = FlattenSeq(Shown("LIST", fs))
  BY <1>1 DEF Whole, Lines, Shown, Line
<1>5. FlattenSeq(Shown("LIST", fs)) = Drawn("LIST", fs, k)
  BY <1>2, DrawnSteps
<1>6. Drawn("LIST", fs, k) \in Seq(Nat)
  <2>1. k \in 0..k
    OBVIOUS
  <2> QED BY <1>2, <2>1, DrawnSteps
<1>7. ASSUME NEW m \in 0..(k - 1), Ordinary(r) PROVE fs[m + 1] # << >> /\ ~EndsLine(fs[m + 1])
  <2>1. m + 1 \in 1..k
    OBVIOUS
  <2> QED BY <1>1, <1>3, <1>7, <2>1 DEF Ordinary
<1>8. Laid(r, fs, k, Whole(r))
  BY <1>2, <1>4, <1>5, <1>6, <1>7 DEF Laid
<1> QED BY <1>1, <1>2, <1>8

LEMMA SearchLaid ==
  ASSUME NEW r \in Requests, r.op = "SEARCH"
  PROVE  Laid(r, Fields(r), Len(Fields(r)), Whole(r))
<1>1. PICK rows \in Seq(Seq(Seq(Character))) :
        rows = r.rows /\ \A i \in DOMAIN rows : Len(rows[i]) = 4 /\ rows[i][1] # << >>
  BY RequestsAssumption DEF StatusOps
<1>2. PICK R \in Nat : R = Len(rows)
  BY LenProperties
<1>3. DOMAIN rows = 1..R
  BY <1>2, LenProperties
<1>4. \A i \in 1..R : Len(rows[i]) = 4
  BY <1>1, <1>3
<1>5. PICK fs \in Seq(Seq(Character)) :
        /\ fs = FlattenSeq(rows)
        /\ Len(fs) = 4 * R
        /\ \A n \in 0..(R - 1) : \A f \in 1..4 : fs[4 * n + f] = rows[n + 1][f]
  <2>1. PICK S : S = Seq(Character)
    OBVIOUS
  <2>2. rows \in Seq(Seq(S))
    BY <2>1
  <2>3. FlattenSeq(rows) \in Seq(S)
    BY <1>2, <1>4, <2>2, RowFields
  <2>4. Len(FlattenSeq(rows)) = 4 * R
    BY <1>2, <1>4, <2>2, RowFields
  <2>5. ASSUME NEW n \in 0..(R - 1), NEW f \in 1..4
        PROVE  FlattenSeq(rows)[4 * n + f] = rows[n + 1][f]
    BY <1>2, <1>4, <2>2, RowFields
  <2> QED BY <2>1, <2>3, <2>4, <2>5
<1>6. fs = Fields(r)
  BY <1>1, <1>5 DEF Fields
<1>7. PICK k \in Nat : k = 4 * R /\ k = Len(fs)
  BY <1>5, LenProperties
<1>8. R # 0 <=> rows # << >>
  BY <1>2, EmptySeq
<1>9. k # 0 => Whole(r) = Drawn("SEARCH", fs, k)
  <2>1. Table(rows) = Drawn("SEARCH", FlattenSeq(rows), 4 * R)
    BY <1>2, <1>4, TableDrawn
  <2> QED BY <1>1, <1>5, <1>7, <1>8, <2>1 DEF Whole
<1>10. k = 0 => Whole(r) = <<Comma>>
  BY <1>1, <1>7, <1>8 DEF Whole
<1>11. Whole(r) \in Seq(Nat)
  <2>1. k \in 0..k
    OBVIOUS
  <2>2. Drawn("SEARCH", fs, k) \in Seq(Nat)
    BY <1>7, <2>1, DrawnSteps
  <2>3. <<Comma>> \in Seq(Nat)
    BY Bytes
  <2> QED BY <1>9, <1>10, <2>2, <2>3
<1>12. ASSUME NEW m \in 0..(k - 1)
       PROVE  \E n \in 0..(R - 1) : m = 4 * n + (m % 4) /\ m % 4 \in 0..3
                /\ fs[m + 1] = rows[n + 1][(m % 4) + 1]
  <2>1. m \in Nat /\ m % 4 \in 0..3
    BY Fours
  <2>2. PICK n \in Nat : m = 4 * n + (m % 4)
    BY <2>1, Fours
  <2>3. n \in 0..(R - 1)
    <3>1. PICK x \in 0..3 : x = m % 4
      BY <2>1
    <3>2. m = 4 * n + x /\ m <= 4 * R - 1
      BY <1>7, <2>2, <3>1
    <3> QED BY <3>2
  <2>4. PICK f \in 1..4 : f = (m % 4) + 1 /\ m + 1 = 4 * n + f
    <3>1. PICK x \in 0..3 : x = m % 4
      BY <2>1
    <3>2. x + 1 \in 1..4 /\ m + 1 = 4 * n + (x + 1)
      BY <2>2, <3>1
    <3> QED BY <3>1, <3>2
  <2>5. fs[m + 1] = rows[n + 1][f]
    BY <1>5, <2>3, <2>4
  <2> QED BY <2>1, <2>2, <2>3, <2>4, <2>5
<1>13. ASSUME NEW m \in 0..(k - 1), m % 4 = 0 PROVE fs[m + 1] # << >>
  <2>1. PICK n \in 0..(R - 1) : fs[m + 1] = rows[n + 1][(m % 4) + 1]
    BY <1>12
  <2>2. n + 1 \in 1..R /\ (m % 4) + 1 = 1
    BY <1>13
  <2> QED BY <1>1, <1>3, <2>1, <2>2
<1>14. ASSUME NEW m \in 0..(k - 1), m % 4 # 3, Ordinary(r) PROVE ~EndsLine(fs[m + 1])
  <2>1. PICK n \in 0..(R - 1) : m % 4 \in 0..3 /\ fs[m + 1] = rows[n + 1][(m % 4) + 1]
    BY <1>12
  <2>2. n + 1 \in 1..R /\ (m % 4) + 1 \in 1..3
    BY <1>14, <2>1
  <2> QED BY <1>1, <1>3, <1>14, <2>1, <2>2 DEF Ordinary
<1>15. k % 4 = 0
  BY <1>7, Fours
<1>16. Laid(r, fs, k, Whole(r))
  BY <1>7, <1>9, <1>10, <1>11, <1>13, <1>14, <1>15 DEF Laid
<1> QED BY <1>6, <1>7, <1>16


-----------------------------------------------------------------------------
(* The client's way through a reply. *)

\* The column the client counts when m fields are behind it.
Turn(op, m) == IF op = "SEARCH" THEN m % 4 ELSE 0

\* j letters of the field m + 1 were read, or j of the OKs at the end.
Reached(op, fs, k, w, o, c, m, j) ==
  \/ /\ m \in 0..(k - 1) /\ j \in 0..Len(fs[m + 1]) /\ c = Turn(op, m)
     /\ \E g \in Seq(Nat) : /\ o = Drawn(op, fs, m) \o g
                            /\ Len(g) = j
                            /\ \A i \in 1..j : g[i] = fs[m + 1][i]
  \/ m = k /\ j = 0 /\ o = Drawn(op, fs, k) /\ c = 0
  \/ m = k /\ j = 1 /\ o = w

\* Breaks and ShownAs, of what was written and the column.
Stops(op, o, c, ch) ==
  ch = OK /\ (op = "SEARCH" => c # 3) /\ o # << >> /\ Last(o) = Newline

Adds(op, o, c, ch) ==
  CASE ch # OK -> <<ch>>
    [] ch = OK /\ op = "LIST" -> IF o = << >> THEN << >> ELSE <<Newline>>
    [] OTHER -> IF c = 3 THEN <<Newline>> ELSE <<Comma>>

NextTurn(op, c, ch) == IF op = "SEARCH" /\ ch = OK THEN (c + 1) % 4 ELSE c

LEMMA Arrived ==
  ASSUME NEW op, NEW fs \in Seq(Seq(Character)), NEW k \in Nat, k = Len(fs), NEW w,
         op = "SEARCH" => k % 4 = 0, NEW m \in 0..k
  PROVE  Reached(op, fs, k, w, Drawn(op, fs, m), Turn(op, m), m, 0)
<1>1. CASE m = k
  BY <1>1 DEF Reached, Turn
<1>2. CASE m # k
  <2>1. m \in 0..(k - 1) /\ m + 1 \in 1..k
    BY <1>2
  <2>2. PICK a \in Seq(Nat) : a = Drawn(op, fs, m)
    BY <2>1, DrawnSteps
  <2>3. a \o << >> = a /\ << >> \in Seq(Nat) /\ Len(<< >>) = 0
    BY ConcatEmptySeq, EmptySeq
  <2>4. \E g \in Seq(Nat) : a = a \o g /\ Len(g) = 0 /\ \A i \in 1..0 : g[i] = fs[m + 1][i]
    <3>1. PICK g \in Seq(Nat) : g = << >> /\ a \o g = a /\ Len(g) = 0
      BY <2>3, Zenon
    <3>2. \A i \in 1..0 : g[i] = fs[m + 1][i]
      OBVIOUS
    <3>3. a = a \o g /\ Len(g) = 0
      BY <3>1, Zenon
    <3> QED BY <3>2, <3>3, Zenon
  <2>5. 0 \in 0..Len(fs[m + 1])
    BY <2>1, Words
  <2> QED BY <2>1, <2>2, <2>4, <2>5 DEF Reached
<1> QED BY <1>1, <1>2

\* What was shown is a beginning of the whole.
LEMMA ReachedPrefix ==
  ASSUME NEW r, NEW fs, NEW k, NEW w, Laid(r, fs, k, w), r.op \in {"LIST", "SEARCH"},
         NEW o, NEW c, NEW m, NEW j, Reached(r.op, fs, k, w, o, c, m, j)
  PROVE  o \in Seq(Nat) /\ IsPrefix(o, w)
<1>1. fs \in Seq(Seq(Character)) /\ k = Len(fs) /\ k \in Nat /\ w \in Seq(Nat)
  BY DEF Laid
<1>2. IsPrefix(w, w)
  <2>1. PICK v \in Seq(Nat) : v = w
    BY <1>1
  <2>2. IsPrefix(v, v)
    BY LenProperties, SameBytesPrefix
  <2> QED BY <2>1, <2>2
<1>3. CASE m = k /\ j = 1 /\ o = w
  BY <1>1, <1>2, <1>3
<1>4. CASE m = k /\ j = 0 /\ o = Drawn(r.op, fs, k)
  <2>1. k \in 0..k
    BY <1>1
  <2>2. CASE r.op = "LIST" \/ k # 0
    BY <1>1, <1>2, <1>4, <2>2 DEF Laid
  <2>3. CASE k = 0
    <3>1. o = << >> /\ << >> \in Seq(Nat) /\ Len(<< >>) = 0
      BY <1>1, <1>4, <2>3, DrawnSteps, EmptySeq
    <3>2. PICK s \in Seq(Nat) : s = << >> /\ Len(s) = 0
      BY <3>1
    <3>3. PICK v \in Seq(Nat) : v = w
      BY <1>1
    <3>4. Len(s) <= Len(v) /\ \A i \in 1..Len(s) : s[i] = v[i]
      BY <3>2, LenProperties
    <3>5. IsPrefix(s, v)
      BY <3>4, SameBytesPrefix
    <3> QED BY <3>1, <3>2, <3>3, <3>5
  <2> QED BY <2>2, <2>3
<1>5. CASE /\ m \in 0..(k - 1) /\ j \in 0..Len(fs[m + 1])
           /\ \E g \in Seq(Nat) : /\ o = Drawn(r.op, fs, m) \o g
                                  /\ Len(g) = j
                                  /\ \A i \in 1..j : g[i] = fs[m + 1][i]
  <2>1. PICK g \in Seq(Nat) : /\ o = Drawn(r.op, fs, m) \o g /\ Len(g) = j
                              /\ \A i \in 1..j : g[i] = fs[m + 1][i]
    BY <1>5
  <2>2. m \in 0..k /\ m + 1 \in 1..k /\ m + 1 \in 0..k /\ k # 0
    BY <1>1, <1>5
  <2>3. PICK D \in Seq(Nat), f \in Seq(Nat), L \in Seq(Nat) :
          D = Drawn(r.op, fs, m) /\ f = fs[m + 1] /\ L = Line(r.op, f, m + 1)
    <3>1. Drawn(r.op, fs, m) \in Seq(Nat) /\ fs[m + 1] \in Seq(Nat)
      BY <1>1, <2>2, DrawnSteps, Words
    <3> QED BY <3>1, LineType
  <2>4. Len(f) \in Nat /\ Len(f) <= Len(L) /\ (\A i \in 1..Len(f) : L[i] = f[i]) /\ Len(L) \in Nat
    <3>1. CASE f = << >>
      BY <3>1, EmptySeq, LenProperties
    <3>2. CASE f # << >>
      <4>1. PICK x \in Nat : L = Append(f, x)
        <5>1. Comma \in Nat /\ Newline \in Nat
          BY Bytes
        <5> QED BY <2>3, <3>2, <5>1 DEF Line
      <4>2. Len(Append(f, x)) = Len(f) + 1
        BY AppendProperties
      <4>3. \A i \in 1..Len(f) : Append(f, x)[i] = f[i]
        BY AppendProperties
      <4>4. Len(f) \in Nat
        BY LenProperties
      <4> QED BY <4>1, <4>2, <4>3, <4>4
    <3> QED BY <3>1, <3>2
  <2>5. /\ Len(D) \in Nat /\ D \o g \in Seq(Nat) /\ Len(D \o g) = Len(D) + Len(g)
        /\ \A i \in 1..Len(D) : (D \o g)[i] = D[i]
        /\ \A i \in 1..Len(g) : (D \o g)[Len(D) + i] = g[i]
    BY Joined
  <2>6. /\ D \o L \in Seq(Nat) /\ Len(D \o L) = Len(D) + Len(L)
        /\ \A i \in 1..Len(D) : (D \o L)[i] = D[i]
        /\ \A i \in 1..Len(L) : (D \o L)[Len(D) + i] = L[i]
    BY Joined
  <2>7. PICK u \in Seq(Nat) : /\ u = D \o g /\ Len(u) = Len(D) + j
                              /\ \A i \in 1..Len(D) : u[i] = D[i]
                              /\ \A i \in 1..j : u[Len(D) + i] = g[i]
    BY <2>1, <2>5
  <2>8. PICK v \in Seq(Nat) : /\ v = D \o L /\ Len(v) = Len(D) + Len(L)
                              /\ \A i \in 1..Len(D) : v[i] = D[i]
                              /\ \A i \in 1..Len(L) : v[Len(D) + i] = L[i]
    BY <2>6
  <2>9. j \in Nat /\ j <= Len(f) /\ j <= Len(L)
    BY <1>5, <2>3, <2>4
  <2>10. Len(u) <= Len(v)
    BY <2>4, <2>5, <2>7, <2>8, <2>9
  <2>11. ASSUME NEW i \in 1..Len(u) PROVE u[i] = v[i]
    <3>1. PICK l \in Nat : l = Len(D)
      BY <2>5
    <3>2. CASE i <= l
      BY <2>7, <2>8, <3>1, <3>2
    <3>3. CASE ~(i <= l)
      <4>1. PICK e \in 1..j : i = l + e
        <5>1. i - l \in 1..j /\ i = l + (i - l)
          BY <2>7, <2>9, <3>1, <3>3
        <5> QED BY <5>1
      <4>2. e \in 1..Len(f) /\ e \in 1..Len(L)
        <5>1. PICK n \in Nat, x \in Nat : n = Len(f) /\ x = Len(L) /\ j <= n /\ j <= x
          BY <2>9, LenProperties
        <5>2. e \in 1..n /\ e \in 1..x
          BY <2>9, <5>1
        <5> QED BY <5>1, <5>2
      <4>3. u[i] = f[e]
        BY <2>1, <2>3, <2>7, <3>1, <4>1
      <4>4. v[i] = L[e] /\ L[e] = f[e]
        BY <2>4, <2>8, <3>1, <4>1, <4>2
      <4> QED BY <4>3, <4>4
    <3> QED BY <3>2, <3>3
  <2>12. Drawn(r.op, fs, m + 1) = v
    BY <1>1, <1>5, <2>3, <2>8, DrawnSteps
  <2>13. PICK z \in Seq(Nat) : z = Drawn(r.op, fs, k) /\ z = w
    BY <1>1, <2>2 DEF Laid
  <2>14. Len(v) <= Len(z) /\ \A i \in 1..Len(v) : z[i] = v[i]
    <3>1. PICK ss \in Seq(Seq(Nat)) : ss = Shown(r.op, fs) /\ k = Len(ss)
      BY <1>1, ShownType
    <3>2. PICK n : n = m + 1 /\ n \in 0..k /\ k \in n..k
      BY <1>1, <2>2
    <3>3. /\ Len(Sums(ss)[n]) <= Len(Sums(ss)[k])
          /\ \A i \in 1..Len(Sums(ss)[n]) : Sums(ss)[k][i] = Sums(ss)[n][i]
      BY <1>1, <3>1, <3>2, SumsPrefix
    <3>4. v = Sums(ss)[n] /\ z = Sums(ss)[k]
      BY <2>12, <2>13, <3>1, <3>2 DEF Drawn
    <3> QED BY <3>3, <3>4
  <2>15. Len(u) <= Len(z) /\ \A i \in 1..Len(u) : u[i] = z[i]
    <3>1. Len(u) \in Nat /\ Len(v) \in Nat /\ Len(z) \in Nat
      BY LenProperties
    <3>2. PICK x \in Nat, y \in Nat, n \in Nat : x = Len(u) /\ y = Len(v) /\ n = Len(z)
      BY <3>1
    <3>3. x <= y /\ y <= n
      BY <2>10, <2>14, <3>2
    <3>4. \A i \in 1..x : i \in 1..y
      BY <3>3
    <3>5. \A i \in 1..x : u[i] = z[i]
      BY <2>11, <2>14, <3>2, <3>4
    <3> QED BY <3>2, <3>3, <3>5
  <2>16. IsPrefix(u, z)
    BY <2>15, SameBytesPrefix
  <2> QED BY <2>1, <2>3, <2>7, <2>13, <2>16
<1> QED BY <1>3, <1>4, <1>5 DEF Reached


\* A letter is written as it is.
LEMMA ReadLetter ==
  ASSUME NEW r, NEW fs, NEW k, NEW w, Laid(r, fs, k, w), r.op \in {"LIST", "SEARCH"},
         NEW o, NEW c, NEW m \in 0..(k - 1), NEW j \in 0..Len(fs[m + 1]), j < Len(fs[m + 1]),
         Reached(r.op, fs, k, w, o, c, m, j), NEW ch, ch = fs[m + 1][j + 1]
  PROVE  /\ ~Stops(r.op, o, c, ch)
         /\ Reached(r.op, fs, k, w, o \o Adds(r.op, o, c, ch), NextTurn(r.op, c, ch), m, j + 1)
<1>1. fs \in Seq(Seq(Character)) /\ k = Len(fs) /\ k \in Nat
  BY DEF Laid
<1>2. m \in 0..k /\ m + 1 \in 1..k /\ m # k
  BY <1>1
<1>3. PICK f \in Seq(Nat) : f = fs[m + 1] /\ Len(f) \in Nat /\ \A i \in 1..Len(f) : f[i] \in Nat /\ f[i] # OK
  BY <1>1, <1>2, Words
<1>4. j \in Nat /\ j + 1 \in 1..Len(f) /\ j + 1 \in 0..Len(f)
  BY <1>3
<1>5. ch = f[j + 1] /\ ch \in Nat /\ ch # OK
  BY <1>3, <1>4
<1>6. Adds(r.op, o, c, ch) = <<ch>> /\ NextTurn(r.op, c, ch) = c /\ ~Stops(r.op, o, c, ch)
  BY <1>5 DEF Adds, NextTurn, Stops
<1>7. c = Turn(r.op, m) /\ \E g \in Seq(Nat) : /\ o = Drawn(r.op, fs, m) \o g /\ Len(g) = j
                                               /\ \A i \in 1..j : g[i] = fs[m + 1][i]
  BY <1>2 DEF Reached
<1>8. PICK g \in Seq(Nat) : o = Drawn(r.op, fs, m) \o g /\ Len(g) = j /\ \A i \in 1..j : g[i] = f[i]
  BY <1>3, <1>7
<1>9. PICK D \in Seq(Nat) : D = Drawn(r.op, fs, m)
  BY <1>1, <1>2, DrawnSteps
<1>10. (D \o g) \o <<ch>> = D \o Append(g, ch)
  BY <1>5, Behind
<1>11. /\ Append(g, ch) \in Seq(Nat) /\ Len(Append(g, ch)) = Len(g) + 1
       /\ (\A i \in 1..Len(g) : Append(g, ch)[i] = g[i]) /\ Append(g, ch)[Len(g) + 1] = ch
  <2>1. Append(g, ch) \in Seq(Nat)
    BY <1>5, AppendProperties
  <2>2. Len(Append(g, ch)) = Len(g) + 1
    BY <1>5, AppendProperties
  <2>3. \A i \in 1..Len(g) : Append(g, ch)[i] = g[i]
    BY <1>5, AppendProperties
  <2>4. Append(g, ch)[Len(g) + 1] = ch
    BY <1>5, AppendProperties
  <2> QED BY <2>1, <2>2, <2>3, <2>4
<1>12. PICK h \in Seq(Nat) : h = Append(g, ch) /\ Len(h) = j + 1 /\ \A i \in 1..(j + 1) : h[i] = f[i]
  <2>1. \A i \in 1..(j + 1) : i \in 1..j \/ i = j + 1
    BY <1>4
  <2>2. \A i \in 1..(j + 1) : Append(g, ch)[i] = f[i]
    BY <1>5, <1>8, <1>11, <2>1
  <2> QED BY <1>8, <1>11, <2>2
<1>13. o \o <<ch>> = Drawn(r.op, fs, m) \o h
  BY <1>8, <1>9, <1>10, <1>12
<1>14. Reached(r.op, fs, k, w, o \o <<ch>>, c, m, j + 1)
  BY <1>3, <1>4, <1>7, <1>12, <1>13 DEF Reached
<1> QED BY <1>6, <1>14

\* The end of a field ends a line or a cell, or else the client stops too soon.
LEMMA ReadEnd ==
  ASSUME NEW r, NEW fs, NEW k, NEW w, Laid(r, fs, k, w), r.op \in {"LIST", "SEARCH"},
         NEW o, NEW c, NEW m \in 0..(k - 1), Reached(r.op, fs, k, w, o, c, m, Len(fs[m + 1]))
  PROVE  /\ Stops(r.op, o, c, OK) => ~Ordinary(r)
         /\ ~Stops(r.op, o, c, OK) =>
              Reached(r.op, fs, k, w, o \o Adds(r.op, o, c, OK), NextTurn(r.op, c, OK), m + 1, 0)
<1>1. fs \in Seq(Seq(Character)) /\ k = Len(fs) /\ k \in Nat /\ (r.op = "SEARCH" => k % 4 = 0)
  BY DEF Laid
<1>2. m \in 0..k /\ m + 1 \in 1..k /\ m # k /\ m \in Nat
  BY <1>1
<1>3. PICK f \in Seq(Nat) : f = fs[m + 1] /\ Len(f) \in Nat
  BY <1>1, <1>2, Words
<1>4. c = Turn(r.op, m) /\ \E g \in Seq(Nat) : /\ o = Drawn(r.op, fs, m) \o g /\ Len(g) = Len(f)
                                               /\ \A i \in 1..Len(f) : g[i] = fs[m + 1][i]
  BY <1>2, <1>3 DEF Reached
<1>5. PICK D \in Seq(Nat) : D = Drawn(r.op, fs, m)
  BY <1>1, <1>2, DrawnSteps
<1>6. o = D \o f
  <2>1. PICK g \in Seq(Nat) : o = D \o g /\ Len(g) = Len(f) /\ \A i \in 1..Len(f) : g[i] = f[i]
    BY <1>3, <1>4, <1>5
  <2>2. g = f
    BY <2>1, SeqEqual
  <2> QED BY <2>1, <2>2
<1>7. Drawn(r.op, fs, m + 1) = D \o Line(r.op, f, m + 1)
  BY <1>1, <1>3, <1>5, DrawnSteps
<1>8. /\ r.op = "SEARCH" /\ m % 4 = 0 => f # << >>
      /\ r.op = "LIST" /\ Ordinary(r) => f # << >> /\ ~EndsLine(f)
      /\ r.op = "SEARCH" /\ m % 4 # 3 /\ Ordinary(r) => ~EndsLine(f)
  BY <1>3 DEF Laid
<1>9. f # << >> => o # << >> /\ Last(o) = Last(f)
  BY <1>6, LastBehind
<1>10. f = << >> => o = D
  BY <1>6, ConcatEmptySeq
<1>11. Comma \in Nat /\ Newline \in Nat /\ Comma # Newline
  BY Bytes DEF Comma, Newline
<1>12. /\ (D \o f) \o <<Comma>> = D \o Append(f, Comma)
       /\ (D \o f) \o <<Newline>> = D \o Append(f, Newline)
  <2>1. (D \o f) \o <<Comma>> = D \o Append(f, Comma)
    BY <1>11, Behind
  <2>2. (D \o f) \o <<Newline>> = D \o Append(f, Newline)
    BY <1>11, Behind
  <2> QED BY <2>1, <2>2
<1>13. Reached(r.op, fs, k, w, Drawn(r.op, fs, m + 1), Turn(r.op, m + 1), m + 1, 0)
  <2>1. m + 1 \in 0..k
    BY <1>1
  <2> QED BY <1>1, <2>1, Arrived
<1>14. CASE r.op = "LIST"
  <2>1. D = << >> \/ Last(D) = Newline
    BY <1>1, <1>2, <1>5, <1>14, DrawnEnds
  <2>2. Stops(r.op, o, c, OK) => ~Ordinary(r)
    BY <1>8, <1>9, <1>14 DEF Stops, EndsLine
  <2>3. NextTurn(r.op, c, OK) = Turn(r.op, m + 1)
    BY <1>4, <1>14 DEF NextTurn, Turn
  <2>4. CASE f = << >>
    <3>1. Drawn(r.op, fs, m + 1) = o
      <4>1. Line(r.op, f, m + 1) = << >>
        BY <1>14, <2>4 DEF Line
      <4> QED BY <1>7, <1>10, <2>4, <4>1, ConcatEmptySeq
    <3>2. ~Stops(r.op, o, c, OK) => o = << >>
      BY <1>10, <1>14, <2>1, <2>4 DEF Stops
    <3>3. o = << >> => Adds(r.op, o, c, OK) = << >>
      BY <1>14 DEF Adds
    <3>4. << >> \o << >> = << >>
      BY EmptySeq, ConcatEmptySeq
    <3>5. ~Stops(r.op, o, c, OK) => o \o Adds(r.op, o, c, OK) = Drawn(r.op, fs, m + 1)
      BY <3>1, <3>2, <3>3, <3>4
    <3> QED BY <1>13, <2>2, <2>3, <3>5
  <2>5. CASE f # << >>
    <3>1. Drawn(r.op, fs, m + 1) = o \o <<Newline>>
      <4>1. Line(r.op, f, m + 1) = Append(f, Newline)
        BY <1>14, <2>5 DEF Line
      <4> QED BY <1>6, <1>7, <1>12, <4>1
    <3>2. Adds(r.op, o, c, OK) = <<Newline>>
      BY <1>9, <1>14, <2>5 DEF Adds
    <3> QED BY <1>13, <2>2, <2>3, <3>1, <3>2
  <2> QED BY <2>4, <2>5
<1>15. CASE r.op = "SEARCH"
  <2>1. c = m % 4 /\ m % 4 \in 0..3 /\ (m + 1) % 4 = ((m % 4) + 1) % 4 /\ ((m + 1) % 4 = 0 <=> m % 4 = 3)
    <3>1. c = m % 4
      BY <1>4, <1>15 DEF Turn
    <3> QED BY <1>2, <3>1, Fours
  <2>2. NextTurn(r.op, c, OK) = Turn(r.op, m + 1)
    BY <1>15, <2>1 DEF NextTurn, Turn
  <2>3. Stops(r.op, o, c, OK) => ~Ordinary(r)
    <3>1. CASE f = << >>
      <4>1. m % 4 # 0 /\ m # 0
        BY <1>8, <1>15, <3>1
      <4>2. Last(D) = IF m % 4 = 0 THEN Newline ELSE Comma
        BY <1>1, <1>2, <1>5, <1>15, <4>1, DrawnEnds
      <4> QED BY <1>10, <1>11, <3>1, <4>1, <4>2 DEF Stops
    <3>2. CASE f # << >>
      BY <1>8, <1>9, <1>15, <2>1, <3>2 DEF Stops, EndsLine
    <3> QED BY <3>1, <3>2
  <2>4. Drawn(r.op, fs, m + 1) = o \o (IF c = 3 THEN <<Newline>> ELSE <<Comma>>)
    <3>1. Line(r.op, f, m + 1) = Append(f, IF c = 3 THEN Newline ELSE Comma)
      BY <1>15, <2>1 DEF Line
    <3>2. CASE c = 3
      BY <1>6, <1>7, <1>12, <3>1, <3>2
    <3>3. CASE c # 3
      BY <1>6, <1>7, <1>12, <3>1, <3>3
    <3> QED BY <3>2, <3>3
  <2>5. Adds(r.op, o, c, OK) = IF c = 3 THEN <<Newline>> ELSE <<Comma>>
    BY <1>15 DEF Adds
  <2> QED BY <1>13, <2>2, <2>3, <2>4, <2>5
<1> QED BY <1>14, <1>15

\* The OK behind the last field: the client stops, or there was nothing to show.
Concludes(op, w, o, c) ==
  /\ Stops(op, o, c, OK) => o = w
  /\ ~Stops(op, o, c, OK) => o \o Adds(op, o, c, OK) = w

LEMMA ReadLast ==
  ASSUME NEW r, NEW fs, NEW k, NEW w, Laid(r, fs, k, w), r.op \in {"LIST", "SEARCH"}
  PROVE  Concludes(r.op, w, Drawn(r.op, fs, k), 0)
<1>0. PICK o, c : o = Drawn(r.op, fs, k) /\ c = 0
  OBVIOUS
<1> SUFFICES Concludes(r.op, w, o, c)
  BY <1>0, Zenon
<1>1. fs \in Seq(Seq(Character)) /\ k = Len(fs) /\ k \in Nat /\ (r.op = "SEARCH" => k % 4 = 0)
  BY DEF Laid
<1>2. k \in 0..k
  BY <1>1
<1>3. << >> \o << >> = << >> /\ << >> \o <<Comma>> = <<Comma>>
  BY Bytes, EmptySeq, ConcatEmptySeq
<1>4. CASE r.op = "LIST"
  <2>1. o = w
    BY <1>0, <1>4 DEF Laid
  <2>2. o = << >> \/ Last(o) = Newline
    BY <1>0, <1>1, <1>2, <1>4, DrawnEnds
  <2>3. ~Stops(r.op, o, c, OK) => o = << >>
    BY <1>4, <2>2 DEF Stops
  <2>4. o = << >> => Adds(r.op, o, c, OK) = << >>
    BY <1>4 DEF Adds
  <2> QED BY <1>3, <2>1, <2>3, <2>4 DEF Concludes
<1>5. CASE r.op = "SEARCH" /\ k # 0
  <2>1. o = w
    BY <1>0, <1>5 DEF Laid
  <2>2. o # << >> /\ Last(o) = Newline
    BY <1>0, <1>1, <1>2, <1>5, DrawnEnds
  <2>3. Stops(r.op, o, c, OK)
    BY <1>0, <2>2 DEF Stops
  <2> QED BY <2>1, <2>3 DEF Concludes
<1>6. CASE r.op = "SEARCH" /\ k = 0
  <2>1. o = << >>
    BY <1>0, <1>1, <1>6, DrawnSteps
  <2>2. w = <<Comma>>
    BY <1>6 DEF Laid
  <2>3. ~Stops(r.op, o, c, OK)
    BY <2>1 DEF Stops
  <2>4. Adds(r.op, o, c, OK) = <<Comma>>
    BY <1>0, <1>6 DEF Adds
  <2> QED BY <1>3, <2>1, <2>2, <2>3, <2>4 DEF Concludes
<1> QED BY <1>4, <1>5, <1>6


\* What the byte ch makes of a client that is j letters behind m fields.
Advances(r, fs, k, w, o, c, m, j, ch) ==
  /\ Stops(r.op, o, c, ch) => (Ordinary(r) => o = w)
  /\ ~Stops(r.op, o, c, ch) =>
       \E n, i : /\ Reached(r.op, fs, k, w, o \o Adds(r.op, o, c, ch), NextTurn(r.op, c, ch), n, i)
                 /\ Place(fs, n) + i = Place(fs, m) + (j + 1)

\* A byte of the reply, read where the client is in it.
LEMMA ReadOne ==
  ASSUME NEW r, NEW fs, NEW k, NEW w, Laid(r, fs, k, w), r.op \in {"LIST", "SEARCH"},
         NEW o, NEW c, NEW m, NEW j, Reached(r.op, fs, k, w, o, c, m, j),
         1 + (Place(fs, m) + j) < Len(FullReply(fs))
  PROVE  Advances(r, fs, k, w, o, c, m, j, FullReply(fs)[1 + (Place(fs, m) + (j + 1))])
<1>0. PICK ch : ch = FullReply(fs)[1 + (Place(fs, m) + (j + 1))]
  OBVIOUS
<1> SUFFICES Advances(r, fs, k, w, o, c, m, j, ch)
  BY <1>0, Zenon
<1>1. fs \in Seq(Seq(Character)) /\ k = Len(fs) /\ k \in Nat
  BY DEF Laid
<1>2. PICK p \in Nat : p = Place(fs, k) /\ Len(FullReply(fs)) = p + 2 /\ FullReply(fs)[p + 2] = OK
  <2>1. k \in 0..k
    BY <1>1
  <2> QED BY <1>1, <2>1, Places, ReplyBytes
<1>3. CASE m = k /\ j = 1
  BY <1>2, <1>3
<1>4. CASE m = k /\ j = 0 /\ o = Drawn(r.op, fs, k) /\ c = 0
  <2>1. 1 + (p + (0 + 1)) = p + 2 /\ p + 1 = p + (0 + 1)
    BY <1>2
  <2>2. ch = OK
    BY <1>0, <1>2, <1>4, <2>1
  <2>3. /\ Stops(r.op, o, c, OK) => o = w
        /\ ~Stops(r.op, o, c, OK) => o \o Adds(r.op, o, c, OK) = w
    <3>1. Concludes(r.op, w, Drawn(r.op, fs, k), 0)
      BY ReadLast
    <3>2. Concludes(r.op, w, o, c)
      BY <1>4, <3>1, Zenon
    <3> QED BY <3>2 DEF Concludes
  <2>4. Reached(r.op, fs, k, w, w, NextTurn(r.op, c, OK), k, 1)
    BY DEF Reached
  <2> QED BY <1>2, <1>4, <2>1, <2>2, <2>3, <2>4 DEF Advances
<1>5. CASE m \in 0..(k - 1) /\ j \in 0..Len(fs[m + 1])
  <2>1. m + 1 \in 1..k /\ m \in 0..k
    BY <1>1, <1>5
  <2>2. Len(fs[m + 1]) \in Nat
    BY <1>1, <2>1, Words
  <2>3. ch = IF j < Len(fs[m + 1]) THEN fs[m + 1][j + 1] ELSE OK
    BY <1>0, <1>1, <1>5, ReplyBytes
  <2>4. CASE j < Len(fs[m + 1])
    <3>1. ch = fs[m + 1][j + 1]
      BY <2>3, <2>4
    <3>2. /\ ~Stops(r.op, o, c, ch)
          /\ Reached(r.op, fs, k, w, o \o Adds(r.op, o, c, ch), NextTurn(r.op, c, ch), m, j + 1)
      BY <1>5, <2>4, <3>1, ReadLetter
    <3> QED BY <3>2 DEF Advances
  <2>5. CASE ~(j < Len(fs[m + 1]))
    <3>1. j = Len(fs[m + 1]) /\ ch = OK
      BY <1>5, <2>2, <2>3, <2>5
    <3>2. /\ Stops(r.op, o, c, OK) => ~Ordinary(r)
          /\ ~Stops(r.op, o, c, OK) =>
               Reached(r.op, fs, k, w, o \o Adds(r.op, o, c, OK), NextTurn(r.op, c, OK), m + 1, 0)
      BY <1>5, <3>1, ReadEnd
    <3>3. Place(fs, m + 1) + 0 = Place(fs, m) + (j + 1)
      <4>1. Place(fs, m + 1) = Place(fs, m) + (Len(fs[m + 1]) + 1) /\ Place(fs, m) \in Nat
        BY <1>1, <1>5, <2>1, Places
      <4> QED BY <2>2, <3>1, <4>1
    <3> QED BY <3>1, <3>2, <3>3 DEF Advances
  <2> QED BY <2>4, <2>5
<1> QED BY <1>3, <1>4, <1>5 DEF Reached


\* Where nothing is left to read, all was shown.
LEMMA ReadAll ==
  ASSUME NEW r, NEW fs, NEW k, NEW w, Laid(r, fs, k, w),
         NEW o, NEW c, NEW m, NEW j, Reached(r.op, fs, k, w, o, c, m, j),
         1 + (Place(fs, m) + j) = Len(FullReply(fs))
  PROVE  o = w
<1>1. fs \in Seq(Seq(Character)) /\ k = Len(fs) /\ k \in Nat
  BY DEF Laid
<1>2. PICK p \in Nat : p = Place(fs, k) /\ Len(FullReply(fs)) = p + 2
  <2>1. k \in 0..k
    BY <1>1
  <2> QED BY <1>1, <2>1, Places, ReplyBytes
<1>3. ASSUME m \in 0..(k - 1), j \in 0..Len(fs[m + 1]) PROVE FALSE
  <2>1. m \in 0..k /\ m + 1 \in 1..k
    BY <1>1, <1>3
  <2>2. PICK n \in Nat : n = Len(fs[m + 1])
    BY <1>1, <2>1, Words
  <2>3. PICK l \in Nat : l = Place(fs, m) /\ l + (n + 1) <= p
    BY <1>1, <1>2, <1>3, <2>1, <2>2, Places
  <2>4. j \in 0..n /\ 1 + (l + j) = p + 2
    BY <1>2, <1>3, <2>2, <2>3
  <2> QED BY <2>3, <2>4
<1>4. ASSUME m = k, j = 0 PROVE FALSE
  <2>1. 1 + (p + 0) = p + 2
    BY <1>2, <1>4
  <2> QED BY <2>1
<1> QED BY <1>3, <1>4 DEF Reached

\* The client has begun at the start.
LEMMA ReachedFirst ==
  ASSUME NEW r, NEW fs, NEW k, NEW w, Laid(r, fs, k, w), r.op \in {"LIST", "SEARCH"}
  PROVE  Reached(r.op, fs, k, w, << >>, 0, 0, 0) /\ Place(fs, 0) = 0
<1>1. fs \in Seq(Seq(Character)) /\ k = Len(fs) /\ k \in Nat
  BY DEF Laid
<1>2. Drawn(r.op, fs, 0) = << >> /\ Place(fs, 0) = 0
  BY <1>1, DrawnSteps, Places
<1>3. PICK m \in 0..k : m = 0
  BY <1>1
<1>4. Reached(r.op, fs, k, w, Drawn(r.op, fs, m), Turn(r.op, m), m, 0)
  <2>1. r.op = "SEARCH" => k % 4 = 0
    BY DEF Laid
  <2> QED BY <1>1, <2>1, Arrived
<1>5. Turn(r.op, m) = 0
  BY <1>3 DEF Turn
<1>6. Drawn(r.op, fs, m) = << >>
  BY <1>2, <1>3
<1> QED BY <1>2, <1>3, <1>4, <1>5, <1>6, Zenon


-----------------------------------------------------------------------------
(* The lists and tables of the program. *)

\* s is what stands in the reply f behind its first p bytes, or a beginning of it.
Unread(s, f, p) ==
  /\ p + Len(s) <= Len(f)
  /\ \A i \in 1..Len(s) : s[i] = f[p + i]

\* ... and nothing is missing as long as nothing breaks.
Rest(f, p) ==
  /\ Unread(s2c, f, p)
  /\ conn \in {"up", "closed"} => p + Len(s2c) = Len(f)

LEMMA UnreadLost ==
  ASSUME NEW s \in Seq(Nat), NEW f \in Seq(Nat), NEW p \in Nat, Unread(s, f, p),
         NEW t \in Prefixes(s)
  PROVE  Unread(t, f, p)
<1>1. PICK l \in Nat, k \in Nat : l = Len(s) /\ k = Len(t) /\ k <= l
  BY PrefixProperties
<1>2. \A i \in 1..k : t[i] = s[i]
  BY <1>1, PrefixProperties
<1>3. \A i \in 1..k : i \in 1..l
  BY <1>1
<1>4. PICK n \in Nat : n = Len(f)
  BY LenProperties
<1>5. \A i \in 1..k : t[i] = f[p + i]
  BY <1>1, <1>2, <1>3 DEF Unread
<1>6. p + l <= n => p + k <= n
  BY <1>1
<1> QED BY <1>1, <1>4, <1>5, <1>6 DEF Unread

LEMMA UnreadHeard ==
  ASSUME NEW s \in Seq(Nat), NEW f \in Seq(Nat), NEW p \in Nat, Unread(s, f, p), s # << >>
  PROVE  /\ Unread(Tail(s), f, p + 1)
         /\ p + Len(s) = Len(f) => (p + 1) + Len(Tail(s)) = Len(f)
         /\ Head(s) = f[p + 1]
         /\ p < Len(f)
<1>1. PICK l \in Nat : l = Len(s) /\ l # 0 /\ Len(Tail(s)) = l - 1
  BY Taken
<1>2. PICK t \in Seq(Nat) : t = Tail(s) /\ \A i \in 1..(l - 1) : t[i] = s[i + 1]
  <2>1. Tail(s) \in Seq(Nat) /\ \A i \in 1..Len(Tail(s)) : Tail(s)[i] = s[i + 1]
    BY HeadTailProperties
  <2> QED BY <1>1, <2>1
<1>3. \A i \in 1..(l - 1) : i + 1 \in 1..l /\ p + (i + 1) = (p + 1) + i
  BY <1>1
<1>4. \A i \in 1..(l - 1) : t[i] = f[(p + 1) + i]
  BY <1>1, <1>2, <1>3 DEF Unread
<1>5. (p + 1) + (l - 1) = p + l /\ p < p + l
  BY <1>1
<1>6. PICK n \in Nat : n = Len(f)
  BY LenProperties
<1>7. Unread(t, f, p + 1)
  BY <1>1, <1>2, <1>4, <1>5 DEF Unread
<1>8. p + Len(s) = Len(f) => (p + 1) + Len(t) = Len(f)
  BY <1>1, <1>2, <1>5
<1>9. Head(s) = f[p + 1]
  <2>1. 1 \in 1..l /\ Head(s) = s[1]
    BY <1>1
  <2> QED BY <1>1, <2>1 DEF Unread
<1>10. p < n
  <2>1. p + l <= n
    BY <1>1, <1>6 DEF Unread
  <2> QED BY <1>1, <1>5, <2>1
<1> QED BY <1>2, <1>6, <1>7, <1>8, <1>9, <1>10

LEMMA RestStays ==
  ASSUME NEW f, NEW p, Rest(f, p), s2c' = s2c, conn' = conn \/ conn = "up"
  PROVE  Rest(f, p)'
BY DEF Rest

LEMMA RestLost ==
  ASSUME NEW f \in Seq(Nat), NEW p \in Nat, Rest(f, p), s2c \in Seq(Nat),
         NEW how \in {"reset", "silent"}, Break(how)
  PROVE  Rest(f, p)'
<1>1. PICK t \in Prefixes(s2c) : t = s2c'
  BY DEF Break
<1>2. Unread(t, f, p)
  BY UnreadLost DEF Rest
<1> QED BY <1>1, <1>2 DEF Rest, Break

LEMMA RestHeard ==
  ASSUME NEW f \in Seq(Nat), NEW p \in Nat, Rest(f, p), s2c \in Seq(Nat), s2c # << >>,
         s2c' = Tail(s2c), conn' = conn
  PROVE  Rest(f, p + 1)' /\ Head(s2c) = f[p + 1] /\ p < Len(f)
<1>1. /\ Unread(Tail(s2c), f, p + 1)
      /\ p + Len(s2c) = Len(f) => (p + 1) + Len(Tail(s2c)) = Len(f)
      /\ Head(s2c) = f[p + 1]
      /\ p < Len(f)
  BY UnreadHeard DEF Rest
<1> QED BY <1>1 DEF Rest

-----------------------------------------------------------------------------
\* Where a client is that reads the reply to r, ...
At(r) ==
  \E m, j :
    /\ Reached(r.op, Fields(r), Len(Fields(r)), Whole(r), out, col, m, j)
    /\ Rest(FullReply(Fields(r)), 1 + (Place(Fields(r), m) + j))

\* ... what the terminal shows before it, ...
Opening(r) == IF r.op = "SEARCH" THEN Title ELSE << >>

\* ... and what one has printed that is done.
Printed(r) ==
  \E t \in Seq(Nat) :
    /\ shown = Opening(r) \o t
    /\ IsPrefix(t, Whole(r))
    /\ result = "0" /\ conn \in {"up", "closed"} /\ Ordinary(r) => t = Whole(r)

\* Who has not begun has said, heard and written nothing.
Still ==
  /\ spc \in {"request", "exec"} => s2c = << >> /\ ~done /\ heard # "OK"
  /\ spc # "sending"
  /\ conn = "closed" => spc \in {"closed", "dead"}
  /\ cpc \in {"start", "waiting"} => out = << >> /\ col = 0 /\ shown = << >> /\ heard # "OK"
  /\ heard = "OK" => cpc \in {"reading", "done"}
  /\ cpc # "receiving"
  /\ cpc # "done" => result = "none"

Listed(r) ==
  /\ Still
  /\ cpc = "waiting" /\ done => Rest(FullReply(Fields(r)), 0)
  /\ heard = "OK" /\ done /\ ~unsaid =>
       /\ cpc = "reading" => At(r) /\ shown = Opening(r)
       /\ cpc = "done" => Printed(r)

ListInv == \A r \in Requests : r = req /\ r.op \in {"LIST", "SEARCH"} => Listed(r)

LEMMA ListFacts ==
  ASSUME TypeOK, SessionInv, NEW r \in Requests, r = req, r.op \in {"LIST", "SEARCH"}
  PROVE  /\ s2c \in Seq(Nat) /\ out \in Seq(Nat)
         /\ cpc # "sending" /\ spc # "receiving"
         /\ cpc = "start" => spc = "request" /\ conn = "up"
         /\ Laid(r, Fields(r), Len(Fields(r)), Whole(r))
         /\ FullReply(Fields(r)) \in Seq(Nat) /\ FullReply(Fields(r))[1] = OK
<1>1. s2c \in Seq(Nat) /\ out \in Seq(Nat)
  BY DEF TypeOK
<1>2. /\ cpc # "sending" /\ spc # "receiving"
      /\ cpc = "start" => spc = "request" /\ conn = "up"
  BY DEF SessionInv, Silent
<1>3. Laid(r, Fields(r), Len(Fields(r)), Whole(r))
  BY ListLaid, SearchLaid
<1>4. PICK fs \in Seq(Seq(Character)), k \in Nat : fs = Fields(r) /\ k = Len(fs)
  BY <1>3 DEF Laid
<1>5. FullReply(fs) \in Seq(Nat) /\ FullReply(fs)[1] = OK
  BY <1>4, ReplyBytes
<1> QED BY <1>1, <1>2, <1>3, <1>4, <1>5

LEMMA ReachedPlace ==
  ASSUME NEW r, NEW fs, NEW k, NEW w, Laid(r, fs, k, w),
         NEW op, NEW o, NEW c, NEW m, NEW j, Reached(op, fs, k, w, o, c, m, j)
  PROVE  Place(fs, m) \in Nat /\ j \in Nat /\ 1 + (Place(fs, m) + j) \in Nat
<1>1. fs \in Seq(Seq(Character)) /\ k = Len(fs) /\ k \in Nat
  BY DEF Laid
<1>2. m \in 0..k
  BY <1>1 DEF Reached
<1>3. j \in Nat
  <2>1. CASE m \in 0..(k - 1) /\ j \in 0..Len(fs[m + 1])
    <3>1. m + 1 \in 1..k
      BY <1>1, <2>1
    <3> QED BY <1>1, <2>1, <3>1, Words
  <2>2. CASE j = 0 \/ j = 1
    BY <2>2
  <2> QED BY <2>1, <2>2 DEF Reached
<1>4. Place(fs, m) \in Nat
  BY <1>1, <1>2, Places
<1> QED BY <1>3, <1>4

\* What a client has written that is in the reply.
LEMMA AtPrefix ==
  ASSUME TypeOK, SessionInv, NEW r \in Requests, r = req, r.op \in {"LIST", "SEARCH"}, At(r)
  PROVE  IsPrefix(out, Whole(r))
<1>1. PICK m, j : Reached(r.op, Fields(r), Len(Fields(r)), Whole(r), out, col, m, j)
  BY DEF At
<1>2. Laid(r, Fields(r), Len(Fields(r)), Whole(r))
  BY ListFacts
<1> QED BY <1>1, <1>2, ReachedPrefix


LEMMA OpeningType ==
  ASSUME NEW r
  PROVE  Opening(r) \in Seq(Nat) /\ Opening(r) \o << >> = Opening(r)
<1>1. Title \in Seq(Nat) /\ << >> \in Seq(Nat)
  BY Bytes DEF Title
<1>2. Opening(r) \in Seq(Nat)
  BY <1>1 DEF Opening
<1> QED BY <1>2, ConcatEmptySeq

LEMMA NothingIsPrefix ==
  ASSUME NEW w \in Seq(Nat)
  PROVE  IsPrefix(<< >>, w)
<1>1. PICK e \in Seq(Nat) : e = << >> /\ Len(e) = 0
  BY EmptySeq
<1>2. Len(e) <= Len(w) /\ \A i \in 1..Len(e) : e[i] = w[i]
  BY <1>1, LenProperties
<1> QED BY <1>1, <1>2, SameBytesPrefix

LEMMA PrefixBehind ==
  ASSUME NEW s \in Seq(Nat), NEW t \in Seq(Nat), NEW w \in Seq(Nat), IsPrefix(t, w)
  PROVE  IsPrefix(s \o t, s \o w)
<1>1. PICK l \in Nat, m \in Nat, n \in Nat : l = Len(s) /\ m = Len(t) /\ n = Len(w)
  BY LenProperties
<1>2. m <= n /\ SubSeq(t, 1, m) = SubSeq(w, 1, m)
  BY <1>1 DEF IsPrefix
<1>3. \A i \in 1..m : t[i] = w[i]
  <2>1. m \in Int /\ 1 \in Int
    OBVIOUS
  <2>2. \A i \in 1..m : t[i] \in Nat /\ w[i] \in Nat
    <3> TAKE i \in 1..m
    <3>1. i \in 1..Len(t) /\ i \in 1..Len(w)
      BY <1>1, <1>2
    <3> QED BY <3>1, ElementOfSeq
  <2>3. \A i \in 1..(m - 1 + 1) : SubSeq(t, 1, m)[i] = t[1 + i - 1]
    BY <2>1, <2>2, SubSeqProperties
  <2>4. \A i \in 1..(m - 1 + 1) : SubSeq(w, 1, m)[i] = w[1 + i - 1]
    BY <2>1, <2>2, SubSeqProperties
  <2>5. m - 1 + 1 = m /\ \A i \in 1..m : 1 + i - 1 = i
    OBVIOUS
  <2> QED BY <1>2, <2>3, <2>4, <2>5
<1>4. PICK a \in Seq(Nat) : a = s \o t /\ Len(a) = l + m
                            /\ \A i \in 1..(l + m) : a[i] = IF i <= l THEN s[i] ELSE t[i - l]
  <2>1. /\ s \o t \in Seq(Nat) /\ Len(s \o t) = Len(s) + Len(t)
        /\ \A i \in 1..(Len(s) + Len(t)) : (s \o t)[i] = IF i <= Len(s) THEN s[i] ELSE t[i - Len(s)]
    BY ConcatProperties
  <2> QED BY <1>1, <2>1
<1>5. PICK b \in Seq(Nat) : b = s \o w /\ Len(b) = l + n
                            /\ \A i \in 1..(l + n) : b[i] = IF i <= l THEN s[i] ELSE w[i - l]
  <2>1. /\ s \o w \in Seq(Nat) /\ Len(s \o w) = Len(s) + Len(w)
        /\ \A i \in 1..(Len(s) + Len(w)) : (s \o w)[i] = IF i <= Len(s) THEN s[i] ELSE w[i - Len(s)]
    BY ConcatProperties
  <2> QED BY <1>1, <2>1
<1>6. l + m <= l + n /\ \A i \in 1..(l + m) : i \in 1..(l + n) /\ (~(i <= l) => i - l \in 1..m)
  BY <1>2
<1>7. \A i \in 1..(l + m) : a[i] = b[i]
  BY <1>3, <1>4, <1>5, <1>6
<1> QED BY <1>4, <1>5, <1>6, <1>7, SameBytesPrefix

\* What stops without having printed more than the title.
LEMMA PrintedNothing ==
  ASSUME NEW r, Whole(r) \in Seq(Nat), shown' = Opening(r), result' # "0"
  PROVE  Printed(r)'
<1>1. PICK t \in Seq(Nat) : t = << >>
  BY EmptySeq
<1>2. shown' = Opening(r) \o t /\ IsPrefix(t, Whole(r))
  BY <1>1, OpeningType, NothingIsPrefix
<1> QED BY <1>2 DEF Printed

-----------------------------------------------------------------------------
\* Nothing is said or heard: neither side goes back, the connection may end, and a
\* client that gives up does not call it a success.
LEMMA ListStays ==
  ASSUME TypeOK, SessionInv, NEW r \in Requests, r = req, r.op \in {"LIST", "SEARCH"}, Listed(r),
         UNCHANGED <<s2c, heard, out, col, shown, unsaid, done>>,
         \/ spc' = spc
         \/ spc' \in {"closed", "dead"}
         \/ spc = "request" /\ spc' \in {"exec", "stuck"},
         conn' = conn \/ (conn = "up" /\ conn' = "closed" /\ spc \in {"closed", "dead"}),
         \/ UNCHANGED <<cpc, result>>
         \/ cpc' = "done" /\ result' = "killed"
         \/ cpc = "start" /\ cpc' = "waiting" /\ UNCHANGED result
  PROVE  Listed(r)'
<1>1. Still'
  BY ListFacts DEF Listed, Still
<1>2. (cpc = "waiting" /\ done => Rest(FullReply(Fields(r)), 0))'
  <2> SUFFICES ASSUME cpc' = "waiting", done' PROVE Rest(FullReply(Fields(r)), 0)'
    OBVIOUS
  <2>1. cpc = "waiting" /\ done
    BY ListFacts DEF Listed, Still
  <2>2. PICK f, z : f = FullReply(Fields(r)) /\ z = 0
    OBVIOUS
  <2>3. Rest(f, z)
    BY <2>1, <2>2 DEF Listed
  <2>4. Rest(f, z)'
    BY <2>3, RestStays
  <2> QED BY <2>2, <2>4
<1>3. ASSUME heard' = "OK", done', ~unsaid', cpc' = "reading"
      PROVE  At(r)' /\ shown' = Opening(r)
  <2>1. At(r) /\ shown = Opening(r)
    BY <1>3 DEF Listed
  <2>2. PICK m, j : /\ Reached(r.op, Fields(r), Len(Fields(r)), Whole(r), out, col, m, j)
                    /\ Rest(FullReply(Fields(r)), 1 + (Place(Fields(r), m) + j))
    BY <2>1 DEF At
  <2>3. Rest(FullReply(Fields(r)), 1 + (Place(Fields(r), m) + j))'
    BY <2>2, RestStays
  <2> QED BY <2>1, <2>2, <2>3 DEF At
<1>4. ASSUME heard' = "OK", done', ~unsaid', cpc' = "done" PROVE Printed(r)'
  <2>1. heard = "OK" /\ done /\ ~unsaid
    BY <1>4
  <2>2. CASE cpc = "reading"
    <3>1. shown' = Opening(r) /\ result' # "0"
      BY <1>4, <2>1, <2>2 DEF Listed
    <3>2. Whole(r) \in Seq(Nat)
      BY ListFacts DEF Laid
    <3> QED BY <3>1, <3>2, PrintedNothing
  <2>3. CASE cpc = "done"
    <3>1. Printed(r)
      BY <2>1, <2>3 DEF Listed
    <3>2. result' = "0" => result = "0"
      OBVIOUS
    <3>3. conn' \in {"up", "closed"} => conn \in {"up", "closed"}
      OBVIOUS
    <3> QED BY <3>1, <3>2, <3>3 DEF Printed
  <2> QED BY <2>1, <2>2, <2>3 DEF Listed, Still
<1> QED BY <1>1, <1>2, <1>3, <1>4 DEF Listed

\* Bytes under way are lost.
LEMMA ListBroken ==
  ASSUME TypeOK, SessionInv, NEW r \in Requests, r = req, r.op \in {"LIST", "SEARCH"}, Listed(r),
         NEW how \in {"reset", "silent"}, Break(how), UNCHANGED <<client, server>>
  PROVE  Listed(r)'
<1>0. /\ s2c \in Seq(Nat) /\ FullReply(Fields(r)) \in Seq(Nat)
      /\ UNCHANGED <<heard, out, col, shown, unsaid, done, spc, cpc, result>>
      /\ conn' = how
  BY ListFacts DEF client, server, Break
<1>1. PICK t \in Prefixes(s2c) : t = s2c'
  BY DEF Break
<1>2. s2c = << >> => t = << >>
  BY <1>0, PrefixProperties
<1>3. Still'
  BY <1>0, <1>1, <1>2 DEF Listed, Still
<1>4. PICK f \in Seq(Nat) : f = FullReply(Fields(r))
  BY <1>0
<1>5. (cpc = "waiting" /\ done => Rest(FullReply(Fields(r)), 0))'
  <2>1. PICK z \in Nat : z = 0
    OBVIOUS
  <2>2. cpc = "waiting" /\ done => Rest(f, z)
    BY <1>4, <2>1 DEF Listed
  <2>3. cpc = "waiting" /\ done => Rest(f, z)'
    BY <1>0, <2>2, RestLost
  <2> QED BY <1>0, <1>4, <2>1, <2>3
<1>6. ASSUME heard' = "OK", done', ~unsaid', cpc' = "reading"
      PROVE  At(r)' /\ shown' = Opening(r)
  <2>1. At(r) /\ shown = Opening(r)
    BY <1>0, <1>6 DEF Listed
  <2>2. PICK m, j : /\ Reached(r.op, Fields(r), Len(Fields(r)), Whole(r), out, col, m, j)
                    /\ Rest(FullReply(Fields(r)), 1 + (Place(Fields(r), m) + j))
    BY <2>1 DEF At
  <2>3. 1 + (Place(Fields(r), m) + j) \in Nat
    BY <2>2, ListFacts, ReachedPlace
  <2>4. Rest(FullReply(Fields(r)), 1 + (Place(Fields(r), m) + j))'
    BY <1>0, <2>2, <2>3, RestLost
  <2> QED BY <1>0, <2>1, <2>2, <2>4 DEF At
<1>7. ASSUME heard' = "OK", done', ~unsaid', cpc' = "done" PROVE Printed(r)'
  <2>1. Printed(r)
    BY <1>0, <1>7 DEF Listed
  <2> QED BY <1>0, <2>1 DEF Printed
<1> QED BY <1>3, <1>5, <1>6, <1>7 DEF Listed

LEMMA ListHearStatus ==
  ASSUME TypeOK, SessionInv, NEW r \in Requests, r = req, r.op \in {"LIST", "SEARCH"}, Listed(r),
         HearStatus
  PROVE  Listed(r)'
<1>0. /\ cpc = "waiting" /\ heard # "OK" /\ out = << >> /\ col = 0 /\ result = "none"
      /\ shown = << >>
      /\ UNCHANGED <<conn, spc, done, col>>
      /\ conn = "closed" => spc \in {"closed", "dead"}
      /\ spc # "sending"
      /\ spc \in {"request", "exec"} => s2c = << >>
      /\ spc \in {"request", "exec"} => ~done
      /\ s2c \in Seq(Nat) /\ FullReply(Fields(r)) \in Seq(Nat)
  BY ListFacts DEF HearStatus, Listed, Still, server
<1>1. CASE s2c # << >> /\ Head(s2c) = OK
  <2>1. /\ s2c' = Tail(s2c) /\ heard' = "OK" /\ cpc' = "reading" /\ result' = result
        /\ ~unsaid' => out' = out /\ shown' = Opening(r)
    <3>1. Proceed(<< >>) /\ s2c' = Tail(s2c) /\ heard' = "OK"
      BY <1>1 DEF HearStatus
    <3>2. out \o << >> = out
      BY <1>0, EmptySeq, ConcatEmptySeq
    <3>3. CASE r.op = "LIST"
      BY <1>0, <3>1, <3>2, <3>3 DEF Proceed, ReadsOn, Opening
    <3>4. CASE r.op = "SEARCH"
      BY <1>0, <3>1, <3>2, <3>4 DEF Proceed, ReadsOn, PrintTitle, Opening
    <3> QED BY <3>3, <3>4
  <2>2. Still'
    BY <1>0, <1>1, <2>1 DEF Still
  <2>3. done' /\ ~unsaid' => At(r)'
    <3> SUFFICES ASSUME done, ~unsaid' PROVE At(r)'
      BY <1>0
    <3>1. PICK z \in Nat : z = 0
      OBVIOUS
    <3>2. Rest(FullReply(Fields(r)), z)
      BY <1>0, <3>1 DEF Listed
    <3>3. Rest(FullReply(Fields(r)), z + 1)'
      BY <1>0, <1>1, <2>1, <3>2, RestHeard
    <3>4. Reached(r.op, Fields(r), Len(Fields(r)), Whole(r), << >>, 0, 0, 0) /\ Place(Fields(r), 0) = 0
      BY ListFacts, ReachedFirst
    <3>5. Reached(r.op, Fields(r), Len(Fields(r)), Whole(r), out', col', 0, 0)
      BY <1>0, <2>1, <3>4
    <3>6. z + 1 = 1 + (Place(Fields(r), 0) + 0)
      BY <3>1, <3>4
    <3>7. PICK p : p = z + 1 /\ p = 1 + (Place(Fields(r), 0) + 0)
      BY <3>6
    <3>8. Rest(FullReply(Fields(r)), p)'
      BY <3>3, <3>7
    <3>9. Rest(FullReply(Fields(r)), 1 + (Place(Fields(r), 0) + 0))'
      BY <3>7, <3>8
    <3> QED BY <3>5, <3>9 DEF At
  <2> QED BY <2>1, <2>2, <2>3 DEF Listed
<1>2. CASE ~(s2c # << >> /\ Head(s2c) = OK)
  <2>1. /\ heard' # "OK" /\ cpc' \in {"done", "complain", "reading"}
        /\ cpc' # "done" => result' = result
        /\ s2c = << >> => s2c' = s2c
    BY <1>2 DEF HearStatus, Finish, Proceed, ReadsOn
  <2>2. Still'
    BY <1>0, <2>1 DEF Still
  <2> QED BY <2>1, <2>2 DEF Listed
<1> QED BY <1>1, <1>2

LEMMA ListComplain ==
  ASSUME TypeOK, SessionInv, NEW r \in Requests, r = req, r.op \in {"LIST", "SEARCH"}, Listed(r),
         Complain
  PROVE  Listed(r)'
<1>1. /\ heard # "OK" /\ heard' = heard /\ cpc' = "done" /\ UNCHANGED <<conn, spc, done>>
      /\ s2c = << >> => s2c' = << >>
  BY DEF Complain, Finish, Listed, Still, server
<1>2. Still'
  BY <1>1 DEF Listed, Still
<1> QED BY <1>1, <1>2 DEF Listed

\* A byte is shown, or the client stops.
LEMMA ListRead ==
  ASSUME TypeOK, SessionInv, NEW r \in Requests, r = req, r.op \in {"LIST", "SEARCH"}, Listed(r),
         Read
  PROVE  Listed(r)'
<1>0. /\ cpc = "reading" /\ result = "none"
      /\ UNCHANGED <<conn, spc, done, heard>>
      /\ s2c \in Seq(Nat) /\ FullReply(Fields(r)) \in Seq(Nat)
      /\ cpc' \in {"reading", "done"}
      /\ s2c = << >> => s2c' = << >>
      /\ cpc' # "done" => result' = "none"
  BY ListFacts DEF Read, Flush, Listed, Still, server, Finish
<1>1. Still'
  BY <1>0 DEF Listed, Still
<1> SUFFICES ASSUME heard = "OK", done, ~unsaid, ~unsaid'
             PROVE  /\ cpc' = "reading" => At(r)' /\ shown' = Opening(r)
                    /\ cpc' = "done" => Printed(r)'
  <2>1. unsaid => unsaid'
    BY DEF Read, Flush
  <2> QED BY <1>0, <1>1, <2>1 DEF Listed
<1>9. ASSUME Flush,
             conn \in {"up", "closed"} /\ Ordinary(r) => out = Whole(r), IsPrefix(out, Whole(r))
      PROVE  cpc' = "done" /\ Printed(r)'
  <2>1. shown = Opening(r)
    BY <1>0 DEF Listed
  <2>2. CASE shown' = shown \o out /\ Finish("0")
    <3>1. out \in Seq(Nat) /\ shown' = Opening(r) \o out
      BY <2>1, <2>2, ListFacts
    <3> QED BY <1>0, <1>9, <2>2, <3>1 DEF Printed, Finish
  <2>3. CASE shown' = shown /\ Finish("-1")
    <3>1. Whole(r) \in Seq(Nat)
      BY ListFacts DEF Laid
    <3> QED BY <2>1, <2>3, <3>1, PrintedNothing DEF Finish
  <2> QED BY <1>9, <2>2, <2>3 DEF Flush
<1>2. PICK fs, k, w, f : fs = Fields(r) /\ k = Len(Fields(r)) /\ w = Whole(r) /\ f = FullReply(Fields(r))
  OBVIOUS
<1>3. Laid(r, fs, k, w) /\ f \in Seq(Nat)
  BY <1>2, ListFacts
<1>4. PICK m, j : Reached(r.op, fs, k, w, out, col, m, j) /\ Rest(f, 1 + (Place(fs, m) + j))
  BY <1>0, <1>2 DEF Listed, At
<1>5. PICK l \in Nat, p \in Nat : l = Place(fs, m) /\ p = 1 + (l + j) /\ j \in Nat
  BY <1>3, <1>4, ReachedPlace
<1>6. Rest(f, p) /\ IsPrefix(out, w)
  BY <1>3, <1>4, <1>5, ReachedPrefix
<1>7. CASE s2c # << >> /\ s2c' = Tail(s2c)
  <2>1. PICK ch : ch = Head(s2c)
    OBVIOUS
  <2>2. Rest(f, p + 1)' /\ ch = f[p + 1] /\ p < Len(f)
    BY <1>0, <1>3, <1>6, <1>7, <2>1, RestHeard
  <2>3. p + 1 = 1 + (l + (j + 1))
    BY <1>5
  <2>4. PICK q : q = p + 1 /\ q = 1 + (l + (j + 1))
    BY <2>3
  <2>5. PICK o, c : o = out /\ c = col
    OBVIOUS
  <2>6. /\ Stops(r.op, o, c, ch) => (Ordinary(r) => o = w)
        /\ ~Stops(r.op, o, c, ch) =>
              \E n, i : /\ Reached(r.op, fs, k, w, o \o Adds(r.op, o, c, ch), NextTurn(r.op, c, ch), n, i)
                        /\ Place(fs, n) + i = l + (j + 1)
    <3>1. 1 + (Place(fs, m) + j) < Len(FullReply(fs)) /\ ch = FullReply(fs)[1 + (Place(fs, m) + (j + 1))]
      BY <1>2, <1>5, <2>2, <2>3
    <3>2. Reached(r.op, fs, k, w, o, c, m, j)
      BY <1>4, <2>5
    <3>3. /\ Stops(r.op, o, c, ch) => (Ordinary(r) => o = w)
          /\ ~Stops(r.op, o, c, ch) =>
                \E n, i : /\ Reached(r.op, fs, k, w, o \o Adds(r.op, o, c, ch), NextTurn(r.op, c, ch), n, i)
                          /\ Place(fs, n) + i = Place(fs, m) + (j + 1)
      <4>1. Advances(r, fs, k, w, o, c, m, j, FullReply(fs)[1 + (Place(fs, m) + (j + 1))])
        BY <1>3, <3>1, <3>2, ReadOne
      <4>2. Advances(r, fs, k, w, o, c, m, j, ch)
        BY <3>1, <4>1, Zenon
      <4> QED BY <4>2 DEF Advances
    <3> QED BY <1>5, <3>3
  <2>7. Breaks(Head(s2c)) <=> Stops(r.op, o, c, ch)
    BY <2>1, <2>5 DEF Breaks, Stops
  <2>8. CASE Stops(r.op, o, c, ch)
    <3>1. Flush
      BY <1>0, <1>7, <2>7, <2>8 DEF Read
    <3>2. (conn \in {"up", "closed"} /\ Ordinary(r) => out = Whole(r)) /\ IsPrefix(out, Whole(r))
      BY <1>2, <1>6, <2>5, <2>6, <2>8
    <3> QED BY <1>9, <3>1, <3>2
  <2>9. CASE ~Stops(r.op, o, c, ch)
    <3>1. cpc' = cpc /\ shown' = shown /\ out' = out \o ShownAs(Head(s2c))
          /\ col' = IF req.op = "SEARCH" /\ Head(s2c) = OK THEN (col + 1) % 4 ELSE col
      BY <1>0, <1>7, <2>7, <2>9 DEF Read
    <3>2. ShownAs(Head(s2c)) = Adds(r.op, o, c, ch)
      BY <2>1, <2>5 DEF ShownAs, Adds
    <3>3. out' = o \o Adds(r.op, o, c, ch) /\ col' = NextTurn(r.op, c, ch)
      BY <2>1, <2>5, <3>1, <3>2 DEF NextTurn
    <3>4. PICK n, i : /\ Reached(r.op, fs, k, w, out', col', n, i)
                      /\ Place(fs, n) + i = l + (j + 1)
      BY <2>6, <2>9, <3>3
    <3>5. q = 1 + (Place(fs, n) + i)
      BY <2>4, <3>4
    <3>6. Rest(f, q)'
      BY <2>2, <2>4
    <3>7. Rest(FullReply(Fields(r)), 1 + (Place(Fields(r), n) + i))'
      BY <1>2, <3>5, <3>6
    <3>8. At(r)'
      BY <1>2, <3>4, <3>7 DEF At
    <3>9. shown' = Opening(r)
      BY <1>0, <3>1 DEF Listed
    <3> QED BY <1>0, <3>1, <3>8, <3>9
  <2> QED BY <2>8, <2>9
<1>8. CASE s2c = << >> /\ conn \in {"closed", "reset"} /\ Flush
  <2>1. conn = "closed" => out = w
    <3> SUFFICES ASSUME conn = "closed" PROVE out = w
      OBVIOUS
    <3>1. Len(s2c) = 0
      BY <1>8, EmptySeq
    <3>2. p = Len(f)
      BY <1>5, <1>6, <3>1 DEF Rest
    <3>3. 1 + (Place(fs, m) + j) = Len(FullReply(fs))
      BY <1>2, <1>5, <3>2
    <3> QED BY <1>3, <1>4, <3>3, ReadAll
  <2>2. (conn \in {"up", "closed"} /\ Ordinary(r) => out = Whole(r)) /\ IsPrefix(out, Whole(r))
    BY <1>2, <1>6, <1>8, <2>1
  <2> QED BY <1>8, <1>9, <2>2
<1> QED BY <1>7, <1>8 DEF Read


LEMMA ListClient ==
  ASSUME TypeOK, SessionInv, NEW r \in Requests, r = req, r.op \in {"LIST", "SEARCH"}, Listed(r),
         Client
  PROVE  Listed(r)'
<1>1. ~SendChunk /\ ~SendEnds /\ ~Receive
  BY ListFacts DEF SendChunk, SendEnds, Receive, Listed, Still
<1>2. CASE Start
  <2>1. /\ UNCHANGED <<s2c, heard, out, col, shown, unsaid, done, spc, conn, result>>
        /\ cpc = "start" /\ cpc' = "waiting"
    BY <1>2 DEF Start, server
  <2> QED BY <2>1, ListStays
<1> QED BY <1>1, <1>2, ListHearStatus, ListComplain, ListRead DEF Client

\* Nothing was said before, and the whole reply is on its way if somebody listens.
LEMMA ListServed ==
  ASSUME TypeOK, SessionInv, NEW r \in Requests, r = req, r.op \in {"LIST", "SEARCH"}, Listed(r),
         Refuse \/ ExecList
  PROVE  Listed(r)'
<1>0. /\ s2c = << >> /\ ~done /\ heard # "OK" /\ spc \in {"request", "exec"} /\ conn # "closed"
      /\ spc' = "closed"
      /\ UNCHANGED <<conn, cpc, heard, out, col, result, shown, unsaid>>
  BY DEF Refuse, ExecList, Leave, Listed, Still, client
<1>1. Still'
  BY <1>0 DEF Listed, Still
<1>2. CASE ~done'
  BY <1>1, <1>2 DEF Listed
<1>3. CASE done'
  <2>1. PICK f \in Seq(Nat) : f = FullReply(Fields(r))
    BY ListFacts
  <2>2. Say(f)
    <3>1. Leave(FullReply(Fields(r)))
      BY <1>0, <1>3 DEF Refuse, ExecList, FullReply, Fields
    <3> QED BY <2>1, <3>1 DEF Leave
  <2>3. PICK n \in Nat : n = Len(f)
    BY LenProperties
  <2>4. cpc' = "waiting" => Rest(f, 0)'
    <3> SUFFICES ASSUME cpc' = "waiting" PROVE Rest(f, 0)'
      OBVIOUS
    <3>1. CASE conn = "up"
      <4>1. s2c' = f
        <5>1. << >> \o f = f
          BY ConcatEmptySeq
        <5> QED BY <1>0, <2>2, <3>1, <5>1 DEF Say
      <4>2. 0 + n = n /\ \A i \in 1..n : 0 + i = i
        OBVIOUS
      <4>3. Unread(f, f, 0)
        BY <2>3, <4>2 DEF Unread
      <4>4. Rest(f, 0)'
        BY <2>3, <4>1, <4>2, <4>3 DEF Rest
      <4> QED BY <4>4
    <3>2. CASE conn # "up"
      <4>1. PICK s \in Seq(Nat) : s = << >> /\ s = s2c'
        BY <1>0, <2>2, <3>2, EmptySeq DEF Say
      <4>2. Len(s) = 0
        BY <4>1, EmptySeq
      <4>3. Unread(s, f, 0)
        BY <2>3, <4>2 DEF Unread
      <4>4. conn' \notin {"up", "closed"}
        BY <1>0, <3>2
      <4> QED BY <4>1, <4>3, <4>4 DEF Rest
    <3> QED BY <3>1, <3>2
  <2>5. cpc' = "waiting" => Rest(FullReply(Fields(r)), 0)'
    BY <2>1, <2>4
  <2> QED BY <1>0, <1>1, <2>5 DEF Listed, Still
<1> QED BY <1>2, <1>3

LEMMA ListWorker ==
  ASSUME TypeOK, SessionInv, NEW r \in Requests, r = req, r.op \in {"LIST", "SEARCH"}, Listed(r),
         Worker
  PROVE  Listed(r)'
<1>1. ~(ExecStatus \/ ExecDownload \/ ServeChunk \/ ExecUpload \/ StoreChunk \/ StoreStops \/ StoreEnds)
  BY ListFacts DEF ExecStatus, ExecDownload, ServeChunk, ExecUpload, StoreChunk, StoreStops,
                   StoreEnds, StatusOps, Listed, Still
<1>2. CASE ReadRequest
  <2>1. /\ UNCHANGED <<s2c, heard, out, col, shown, unsaid, done, conn, cpc, result>>
        /\ \/ spc' \in {"closed", "dead"}
           \/ spc = "request" /\ spc' = "exec"
    BY <1>2 DEF ReadRequest, client
  <2> QED BY <2>1, ListStays
<1> QED BY <1>1, <1>2, ListServed DEF Worker

LEMMA ListEnvironment ==
  ASSUME TypeOK, SessionInv, NEW r \in Requests, r = req, r.op \in {"LIST", "SEARCH"}, Listed(r),
         \/ Fork \/ ChildExits \/ ServerSocketCloses \/ ClientSocketCloses
         \/ Fault \/ Kill \/ Crash \/ WaitForRest
  PROVE  Listed(r)'
<1>1. CASE Fork \/ ChildExits
  BY <1>1, ListStays DEF Fork, ChildExits, client, server
<1>2. CASE ServerSocketCloses
  <2>1. CASE Break("reset")
    BY <1>2, <2>1, ListBroken DEF ServerSocketCloses
  <2>2. CASE conn' = "closed" /\ UNCHANGED <<c2s, s2c>>
    BY <1>2, <2>2, ListStays DEF ServerSocketCloses, client, server
  <2> QED BY <1>2, <2>1, <2>2 DEF ServerSocketCloses
<1>3. CASE ClientSocketCloses \/ Fault
  BY <1>3, ListBroken DEF ClientSocketCloses, Fault
<1>4. CASE Kill
  BY <1>4, ListStays DEF Kill, Finish, net, server
<1>5. CASE Crash
  BY <1>5, ListStays DEF Crash, net, client
<1>6. CASE WaitForRest
  BY <1>6, ListFacts, ListStays DEF WaitForRest, net, client
<1> QED BY <1>1, <1>2, <1>3, <1>4, <1>5, <1>6

\* ListInv is inductive, given the types and what holds of the changing requests:
\* nobody says or shows anything before a request is served (Still), what is under
\* way to a client that has heard of it is the rest of the reply (Rest), and what
\* the client has written behind the title is what the fields look like (At).
THEOREM ListInductive ==
  ASSUME TypeOK, SessionInv, ListInv, [Next]_vars
  PROVE  ListInv'
<1>1. req' = req
  BY DEF Next, vars, Client, Start, SendChunk, SendEnds, HearStatus, Complain, Receive, Read,
         Worker, Refuse, ReadRequest, ExecStatus, ExecList, ExecDownload, ServeChunk, ExecUpload,
         StoreChunk, StoreStops, StoreEnds, Fork, ChildExits, ServerSocketCloses,
         ClientSocketCloses, Fault, Kill, Crash, WaitForRest
<1> SUFFICES ASSUME NEW r \in Requests, r = req, r.op \in {"LIST", "SEARCH"}
             PROVE  Listed(r)'
  BY <1>1 DEF ListInv
<1>2. Listed(r)
  BY DEF ListInv
<1>3. CASE UNCHANGED vars
  BY <1>2, <1>3, ListStays DEF vars, net, client, server
<1>4. CASE Next
  BY <1>2, <1>4, ListClient, ListWorker, ListEnvironment DEF Next
<1> QED BY <1>3, <1>4

\* What is on the terminal of a client that was told OK is, if none of its own writes
\* was lost without a word, a beginning of what the rows make up.
LEMMA ListedIsShown ==
  ASSUME TypeOK, SessionInv, NEW r \in Requests, r = req, r.op \in {"LIST", "SEARCH"}, Listed(r),
         heard = "OK", done, ~unsaid
  PROVE  /\ IsPrefix(shown, Opening(r) \o Whole(r))
         /\ result = "0" /\ conn \in {"up", "closed"} /\ Ordinary(r) =>
              shown = Opening(r) \o Whole(r)
<1>1. PICK s \in Seq(Nat), w \in Seq(Nat) : s = Opening(r) /\ w = Whole(r)
  BY ListFacts, OpeningType DEF Laid
<1>2. CASE cpc = "done"
  <2>1. PICK t \in Seq(Nat) :
          /\ shown = s \o t /\ IsPrefix(t, w)
          /\ result = "0" /\ conn \in {"up", "closed"} /\ Ordinary(r) => t = w
    BY <1>1, <1>2 DEF Listed, Printed
  <2>2. IsPrefix(s \o t, s \o w)
    BY <2>1, PrefixBehind
  <2> QED BY <1>1, <2>1, <2>2
<1>3. CASE cpc = "reading"
  <2>1. shown = s /\ result = "none"
    BY <1>1, <1>3 DEF Listed, Still
  <2>2. IsPrefix(s, s \o w)
    BY Appendix
  <2> QED BY <1>1, <2>1, <2>2
<1> QED BY <1>2, <1>3 DEF Listed, Still

\* Unless the client lost what it wrote and said nothing (fout, list.cpp:67), what one
\* that was told OK of a list or a search that took place shows is a beginning of it,
\* and all of it when it says 0, under any other of the failures but a broken
\* connection, and names that look like the end (list.cpp:49-67, search.cpp:116-138).
THEOREM RepliesAreShownCorrect == Spec => []RepliesAreShown
<1>1. Init => ListInv
  BY DEF Init, ListInv, Listed, Still
<1>2. ListInv /\ TypeOK /\ SessionInv /\ [Next]_vars => ListInv'
  BY ListInductive
<1>3. SessionInv /\ [Next]_vars => SessionInv'
  BY SessionInductive
<1>4. Init => SessionInv
  BY InitInv
<1>5. ListInv /\ TypeOK /\ SessionInv => RepliesAreShown
  <2> SUFFICES ASSUME ListInv, TypeOK, SessionInv, heard = "OK", done, ~unsaid,
                      req.op \in {"LIST", "SEARCH"}
               PROVE  RepliesAreShown
    BY DEF RepliesAreShown
  <2>1. PICK r \in Requests : r = req
    BY DEF TypeOK
  <2>2. Listed(r)
    BY <2>1 DEF ListInv
  <2>3. /\ IsPrefix(shown, Opening(r) \o Whole(r))
        /\ result = "0" /\ conn \in {"up", "closed"} /\ Ordinary(r) =>
             shown = Opening(r) \o Whole(r)
    BY <2>1, <2>2, ListedIsShown
  <2>4. CASE req.op = "LIST"
    <3>1. Whole(r) \in Seq(Nat)
      BY <2>1, ListFacts DEF Laid
    <3>2. Opening(r) \o Whole(r) = Lines(req.names)
      BY <2>1, <2>4, <3>1, ConcatEmptySeq DEF Opening, Whole
    <3> QED BY <2>1, <2>3, <2>4, <3>2 DEF RepliesAreShown, Ordinary
  <2>5. CASE req.op = "SEARCH"
    <3>1. Opening(r) \o Whole(r) = Title \o IF req.rows = << >> THEN <<Comma>> ELSE Table(req.rows)
      BY <2>1, <2>5 DEF Opening, Whole
    <3> QED BY <2>1, <2>3, <2>5, <3>1 DEF RepliesAreShown, Ordinary
  <2> QED BY <2>4, <2>5
<1>6. Spec => []TypeOK
  BY TypeCorrect
<1> QED BY <1>1, <1>2, <1>3, <1>4, <1>5, <1>6, PTL DEF Spec
=============================================================================
