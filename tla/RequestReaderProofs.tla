------------------------- MODULE RequestReaderProofs ------------------------
(***************************************************************************)
(* Proofs about RequestReader, for every layout of the requests, every     *)
(* size of the buffer, every sequence of bytes a client may send and every *)
(* way they are cut into pieces.                                           *)
(***************************************************************************)
EXTENDS RequestReader, InductionLemmas, SequenceTheorems, FiniteSetTheorems

-----------------------------------------------------------------------------
\* The blanks before a number come to an end, be it that of the string.
LEMMA BlanksType ==
  ASSUME NEW d \in Seq(Nat)
  PROVE  Blanks(d) \in 0..Len(d)
<1> DEFINE Ends(n) == /\ \A i \in 1..n : d[i] \in Blank
                      /\ n < Len(d) => d[n + 1] \notin Blank
           T == {n \in Nat : n <= Len(d) => \A i \in 1..n : d[i] \in Blank}
<1>1. PICK m \in Nat : m = Len(d)
  OBVIOUS
<1>2. SUFFICES ASSUME \A n \in 0..m : ~Ends(n) PROVE FALSE
  <2>1. Blanks(d) = CHOOSE n \in 0..m : Ends(n)
    BY <1>1 DEF Blanks
  <2> HIDE DEF Ends
  <2> QED BY <1>1, <2>1
<1>3. 0 \in T
  OBVIOUS
<1>4. ASSUME NEW n \in T PROVE n + 1 \in T
  <2>1. CASE n + 1 <= m
    <3>1. n \in 0..m /\ n < m /\ \A i \in 1..n : d[i] \in Blank
      BY <1>1, <2>1
    <3>2. d[n + 1] \in Blank
      BY <1>1, <1>2, <3>1
    <3>3. \A i \in 1..(n + 1) : i \in 1..n \/ i = n + 1
      OBVIOUS
    <3> QED BY <3>1, <3>2, <3>3
  <2> QED BY <1>1, <2>1
<1> HIDE DEF T
<1>5. m \in T
  <2>1. T \in SUBSET Nat
    BY DEF T
  <2> QED BY <1>3, <1>4, <2>1, SetInduction
<1>6. Ends(m)
  BY <1>1, <1>5 DEF T
<1> QED BY <1>1, <1>2, <1>6

\* atol() yields a number, whatever the bytes are.
LEMMA NumberType ==
  ASSUME NEW d \in Seq(Nat)
  PROVE  Number(d) \in Int
<1> DEFINE sign == Blanks(d) + 1
           signed(s) == sign <= Len(d) /\ d[sign] = s
           first == IF signed(Plus) \/ signed(Minus) THEN sign + 1 ELSE sign
<1>1. PICK m \in Nat : m = Len(d)
  OBVIOUS
<1>2. PICK from \in Nat : from = first
  BY <1>1, BlanksType
<1> DEFINE digits(n) == \A i \in from..n : d[i] \in Digit
           Value(f) == f = [n \in 0..Len(d) |->
                              IF n < first THEN 0
                              ELSE IF \A i \in first..n : d[i] \in Digit
                                   THEN 10 * f[n - 1] + (d[n] - 48)
                                   ELSE f[n - 1]]
           v == CHOOSE f : Value(f)
           next(n, x) == IF n < from THEN 0
                         ELSE IF digits(n) THEN 10 * x + (d[n] - 48) ELSE x
           step == [n \in Nat |-> [x \in Nat |-> IF n \in 1..m THEN next(n, x) ELSE 0]]
<1>3. Number(d) = IF signed(Minus) THEN -v[Len(d)] ELSE v[Len(d)]
  BY DEF Number
<1>4. from >= 1
  BY <1>1, <1>2, BlanksType
<1>5. \A f : Value(f) <=> f = [n \in 0..m |-> IF n = 0 THEN 0 ELSE next(n, f[n - 1])]
  <2> TAKE f
  <2>1. Value(f) <=> f = [n \in 0..m |-> next(n, f[n - 1])]
    BY <1>1, <1>2
  <2>2. \A n \in 0..m : next(n, f[n - 1]) = IF n = 0 THEN 0 ELSE next(n, f[n - 1])
    BY <1>4
  <2> HIDE DEF Value, next
  <2> QED BY <2>1, <2>2
<1>6. \A n \in 1..m : \A x \in Nat : next(n, x) \in Nat
  <2> TAKE n \in 1..m
  <2> TAKE x \in Nat
  <2>1. CASE n < from
    BY <2>1
  <2>2. CASE ~(n < from) /\ digits(n)
    <3>1. n \in from..n
      BY <2>2
    <3>2. d[n] \in Digit
      BY <2>2, <3>1
    <3>3. d[n] \in 48..57
      BY <3>2 DEF Digit
    <3>4. next(n, x) = 10 * x + (d[n] - 48)
      BY <2>2
    <3>5. \A a \in 48..57 : \A y \in Nat : 10 * y + (a - 48) \in Nat
      OBVIOUS
    <3>6. 10 * x + (d[n] - 48) \in Nat
      BY <3>3, <3>5
    <3> HIDE DEF next
    <3> QED BY <3>4, <3>6
  <2>3. CASE ~(n < from) /\ ~digits(n)
    BY <2>3
  <2> QED BY <2>1, <2>2, <2>3
<1> HIDE DEF next, Value, first
<1>7. \E f : Value(f)
  <2>1. step \in Steps(Nat)
    BY <1>6 DEF Steps
  <2>2. \A n \in 1..m : \A x \in Nat : step[n][x] = next(n, x)
    OBVIOUS
  <2> HIDE DEF step
  <2>3. PICK g : Follows(g, Nat, 0, step, m)
    BY <2>1, 0 \in Nat, Recursion
  <2>4. \A n \in 1..m : g[n] = next(n, g[n - 1])
    <3> TAKE n \in 1..m
    <3>1. n - 1 \in 0..m
      OBVIOUS
    <3>2. g[n - 1] \in Nat
      BY <2>3, <3>1 DEF Follows
    <3> QED BY <2>2, <2>3, <3>2 DEF Follows
  <2>5. \A n \in 0..m : g[n] = IF n = 0 THEN 0 ELSE next(n, g[n - 1])
    <3>1. g[0] = 0
      BY <2>3 DEF Follows
    <3> QED BY <2>4, <3>1
  <2>6. g = [n \in 0..m |-> g[n]]
    BY <2>3 DEF Follows
  <2>7. g = [n \in 0..m |-> IF n = 0 THEN 0 ELSE next(n, g[n - 1])]
    BY <2>5, <2>6
  <2> QED BY <1>5, <2>7
<1>8. \A n \in 0..m : v[n] = IF n = 0 THEN 0 ELSE next(n, v[n - 1])
  <2>1. Value(v)
    BY <1>7
  <2> HIDE DEF v
  <2> QED BY <1>5, <2>1
<1> HIDE DEF v
<1> DEFINE T == {n \in Nat : n <= m => v[n] \in Nat}
<1>9. 0 \in T
  BY <1>8
<1>10. ASSUME NEW n \in T PROVE n + 1 \in T
  <2>1. CASE n + 1 <= m
    <3>1. v[n] \in Nat /\ n + 1 \in 1..m /\ n + 1 \in 0..m /\ (n + 1) - 1 = n /\ n + 1 # 0
      BY <2>1
    <3>2. v[n + 1] = next(n + 1, v[n])
      BY <1>8, <3>1
    <3>3. next(n + 1, v[n]) \in Nat
      BY <1>6, <3>1
    <3> QED BY <3>1, <3>2, <3>3
  <2> QED BY <2>1
<1> HIDE DEF T
<1>11. m \in T
  <2>1. T \in SUBSET Nat
    BY DEF T
  <2> QED BY <1>9, <1>10, <2>1, SetInduction
<1>12. v[Len(d)] \in Nat
  BY <1>1, <1>11 DEF T
<1> QED BY <1>3, <1>12

\* The n members behind the first m.
LEMMA PartOf ==
  ASSUME NEW S, NEW s \in Seq(S), NEW m \in Nat, NEW n \in Nat, m + n <= Len(s)
  PROVE  /\ SubSeq(s, m + 1, m + n) \in Seq(S)
         /\ Len(SubSeq(s, m + 1, m + n)) = n
         /\ \A i \in 1..n : SubSeq(s, m + 1, m + n)[i] = s[m + i]
<1>1. \A i \in (m + 1)..(m + n) : s[i] \in S
  BY ElementOfSeq, LenProperties
<1>2. m + 1 \in Int /\ m + n \in Int /\ (m + n) - (m + 1) + 1 = n
      /\ \A i \in 1..n : (m + 1) + i - 1 = m + i
  OBVIOUS
<1> DEFINE a == m + 1
           b == m + n
<1>3. a \in Int /\ b \in Int /\ b - a + 1 = n /\ (a <= b <=> n # 0)
  OBVIOUS
<1> HIDE DEF a, b
<1>4. /\ SubSeq(s, a, b) \in Seq(S)
      /\ Len(SubSeq(s, a, b)) = IF a <= b THEN b - a + 1 ELSE 0
      /\ \A i \in 1..(b - a + 1) : SubSeq(s, a, b)[i] = s[a + i - 1]
  <2>1. \A i \in a..b : s[i] \in S
    BY <1>1 DEF a, b
  <2> QED BY <1>3, <2>1, SubSeqProperties
<1>5. Len(SubSeq(s, a, b)) = n
  BY <1>3, <1>4
<1>6. \A i \in 1..n : SubSeq(s, a, b)[i] = s[a + i - 1]
  BY <1>3, <1>4
<1>7. \A i \in 1..n : a + i - 1 = m + i
  BY DEF a
<1> QED BY <1>4, <1>5, <1>6, <1>7 DEF a, b

\* What the layout says of the next value.
LEMMA LayoutFacts ==
  ASSUME NEW c \in DOMAIN Layout, NEW vs \in Seq(Seq(Byte))
  PROVE  /\ Len(Layout[c]) \in Nat /\ Keywords[c] \in Nat
         /\ max(c, vs) \in Nat
         /\ More(c, vs) => Len(vs) < Len(Layout[c]) + Keywords[c]
<1>1. Layout[c] \in Seq(Nat) /\ Keywords[c] \in Nat /\ MaxKeyword \in Nat
  BY LayoutAssumption
<1>2. Len(vs) \in Nat /\ Len(Layout[c]) \in Nat
  BY <1>1
<1>3. max(c, vs) \in Nat
  BY <1>1, <1>2 DEF max
<1> QED BY <1>1, <1>2, <1>3 DEF More

-----------------------------------------------------------------------------
(* Where the reader is, and what it holds there. *)

\* A null cursor is met before the first load() only; what follows a failed one
\* is the end of the request, or a crash.
BufferInv ==
  /\ cursor <= Len(cache)
  /\ fresh => delivered = 0 /\ cursor = 0 /\ ~eof
  /\ fresh /\ pc # "code" => Len(cache) = cacheSize
  /\ pc \in {"copy", "copied"} => ~fresh
  /\ pc = "code" => fresh /\ cache = << >>

\* How far the request has come.
RequestInv ==
  /\ pc = "code" => values = << >> /\ buf = << >>
  /\ pc \notin {"copy", "copied", "blocked"} => stored = << >> /\ answer = "none"
  /\ pc \notin {"code", "unknown", "blocked"} => code \in DOMAIN Layout
  /\ pc \in {"code", "unknown"} => values = << >>
  /\ pc = "value" => More(code, values) /\ Len(buf) <= max(code, values) + 1
  /\ code \in DOMAIN Layout => Len(values) <= Len(Layout[code]) + Keywords[code]
  /\ pc \in {"copy", "copied"} => code \in Uploads /\ values # << >>
  /\ pc # "failed" => req_errno = "OK"

\* The inductive invariant of the reader.
ReaderInv == TypeOK /\ BufferInv /\ RequestInv

LEMMA InitReader == Init => ReaderInv
<1> SUFFICES ASSUME Init PROVE ReaderInv
  OBVIOUS
<1>1. sent \in Seq(Byte)
  <2>1. PICK n \in 0..MaxSent : sent \in [1..n -> Byte]
    BY DEF Init
  <2> QED BY <2>1, CacheAssumption, SeqDef
<1>2. Len(sent) \in Nat
  BY <1>1
<1>3. TypeOK
  <2>1. /\ sent \in Seq(Byte) /\ delivered \in 0..Len(sent)
        /\ cache \in Seq(Byte) /\ Len(cache) <= cacheSize /\ cursor \in 0..cacheSize
        /\ code \in Byte /\ values \in Seq(Seq(Byte \ {0})) /\ buf \in Seq(Byte \ {0})
        /\ left \in Int /\ stored \in Seq(Byte)
    BY <1>1, <1>2, ByteAssumption, CacheAssumption DEF Init
  <2>2. fresh \in BOOLEAN /\ eof \in BOOLEAN /\ err_msg \in BOOLEAN
    BY DEF Init
  <2>3. /\ pc \in {"code", "value", "exec", "copy", "copied", "failed", "unknown", "crashed",
             "blocked"}
        /\ req_errno \in Error \cup {"OK", "CUSTOM_ERR"}
        /\ answer \in Error \cup {"none", "OK", "COPY_STREAM_ERR"}
    BY DEF Init
  <2> QED BY <2>1, <2>2, <2>3 DEF TypeOK
<1>4. BufferInv
  BY DEF Init, BufferInv
<1>5. RequestInv
  BY LayoutAssumption DEF Init, RequestInv
<1> QED BY <1>3, <1>4, <1>5 DEF ReaderInv

\* load(): what the buffer is afterwards.
LEMMA LoadTypes ==
  ASSUME TypeOK, UNCHANGED sent
  PROVE  /\ \A n \in 1..cacheSize : \A used \in 0..n : LoadsBytes(n, used) =>
              /\ cache' \in Seq(Byte) /\ Len(cache') = n /\ cursor' = used
              /\ \A i \in 1..n : cache'[i] = sent[delivered + i]
              /\ delivered' = delivered + n /\ delivered' \in 0..Len(sent')
              /\ cursor' \in 0..cacheSize /\ ~fresh' /\ eof' = eof
         /\ LoadsEof => /\ cache' \in Seq(Byte) /\ Len(cache') = 0 /\ cursor' = 0
                        /\ delivered' = delivered /\ delivered = Len(sent)
                        /\ delivered' \in 0..Len(sent')
                        /\ cursor' \in 0..cacheSize /\ ~fresh' /\ eof'
         /\ LoadFails => /\ cache' \in Seq(Byte) /\ Len(cache') = cacheSize
                         /\ UNCHANGED <<delivered, cursor, fresh, eof>>
<1>1. /\ sent \in Seq(Byte) /\ Len(sent) \in Nat /\ delivered \in 0..Len(sent)
      /\ cache \in Seq(Byte) /\ cacheSize \in Nat \ {0} /\ 0 \in Byte
  BY CacheAssumption, ByteAssumption DEF TypeOK
<1>2. ASSUME NEW n \in 1..cacheSize, NEW used \in 0..n, LoadsBytes(n, used)
      PROVE  /\ cache' \in Seq(Byte) /\ Len(cache') = n /\ cursor' = used
             /\ \A i \in 1..n : cache'[i] = sent[delivered + i]
             /\ delivered' = delivered + n /\ delivered' \in 0..Len(sent')
             /\ cursor' \in 0..cacheSize /\ ~fresh' /\ eof' = eof
  <2>1. n \in Nat /\ delivered + n <= Len(sent) /\ delivered \in Nat
        /\ cache' = SubSeq(sent, delivered + 1, delivered + n)
    BY <1>1, <1>2 DEF LoadsBytes
  <2>2. cache' \in Seq(Byte) /\ Len(cache') = n
        /\ \A i \in 1..n : cache'[i] = sent[delivered + i]
    BY <1>1, <2>1, PartOf
  <2>3. cursor' = used /\ delivered' = delivered + n /\ ~fresh' /\ eof' = eof /\ sent' = sent
    BY <1>2 DEF LoadsBytes
  <2>4. cursor' \in 0..cacheSize /\ delivered' \in 0..Len(sent')
    BY <1>1, <2>1, <2>3
  <2> QED BY <2>2, <2>3, <2>4
<1>3. ASSUME LoadsEof
      PROVE  /\ cache' \in Seq(Byte) /\ Len(cache') = 0 /\ cursor' = 0
             /\ delivered' = delivered /\ delivered = Len(sent)
             /\ delivered' \in 0..Len(sent')
             /\ cursor' \in 0..cacheSize /\ ~fresh' /\ eof'
  BY <1>1, <1>3 DEF LoadsEof
<1>4. ASSUME LoadFails
      PROVE  /\ cache' \in Seq(Byte) /\ Len(cache') = cacheSize
             /\ UNCHANGED <<delivered, cursor, fresh, eof>>
  <2>1. cache' \in [1..cacheSize -> Byte]
    BY <1>1, <1>4 DEF LoadFails
  <2> QED BY <1>1, <1>4, <2>1 DEF LoadFails
<1> QED BY <1>2, <1>3, <1>4


\* TypeOK, by what belongs to the buffer and what to the request.
BufferTyped ==
  /\ sent \in Seq(Byte)
  /\ delivered \in 0..Len(sent)
  /\ cache \in Seq(Byte) /\ Len(cache) <= cacheSize
  /\ cursor \in 0..cacheSize
  /\ fresh \in BOOLEAN /\ eof \in BOOLEAN

RequestTyped ==
  /\ pc \in {"code", "value", "exec", "copy", "copied", "failed", "unknown", "crashed",
             "blocked"}
  /\ code \in Byte
  /\ values \in Seq(Seq(Byte \ {0}))
  /\ buf \in Seq(Byte \ {0})
  /\ req_errno \in Error \cup {"OK", "CUSTOM_ERR"}
  /\ err_msg \in BOOLEAN

BodyTyped ==
  /\ left \in Int
  /\ stored \in Seq(Byte)
  /\ answer \in Error \cup {"none", "OK", "COPY_STREAM_ERR"}

LEMMA TypeSplit == TypeOK <=> BufferTyped /\ RequestTyped /\ BodyTyped
BY DEF TypeOK, BufferTyped, RequestTyped, BodyTyped

LEMMA TypeSplitAfter == TypeOK' <=> BufferTyped' /\ RequestTyped' /\ BodyTyped'
BY TypeSplit, PTL

\* switch(socket->next()).
LEMMA GetRequestInv ==
  ASSUME ReaderInv, GetRequest
  PROVE  ReaderInv'
<1>1. /\ pc = "code" /\ UNCHANGED <<sent, values, buf, req_errno, err_msg, left, stored, answer>>
      /\ BufferTyped /\ RequestTyped /\ BodyTyped
      /\ values = << >> /\ buf = << >> /\ stored = << >> /\ answer = "none" /\ req_errno = "OK"
      /\ fresh /\ ~eof /\ delivered = 0 /\ cursor = 0
  BY TypeSplit DEF GetRequest, body, ReaderInv, BufferInv, RequestInv
<1>2. \E c \in Byte :
        /\ Dispatch(c) /\ BufferTyped' /\ cursor' <= Len(cache')
        /\ fresh' => delivered' = 0 /\ cursor' = 0 /\ ~eof' /\ Len(cache') = cacheSize
  <2>1. ASSUME NEW n \in 1..cacheSize, LoadsBytes(n, 1), Dispatch(cache'[1])
        PROVE  /\ cache'[1] \in Byte /\ BufferTyped' /\ cursor' <= Len(cache') /\ ~fresh'
    <3>1. 1 \in 0..n /\ 1 <= n /\ n <= cacheSize /\ n \in Nat
      BY CacheAssumption
    <3>2. /\ cache' \in Seq(Byte) /\ Len(cache') = n /\ cursor' = 1
          /\ delivered' \in 0..Len(sent') /\ cursor' \in 0..cacheSize /\ ~fresh' /\ eof' = eof
      BY <1>1, <2>1, <3>1, LoadTypes DEF ReaderInv
    <3>3. cache'[1] \in Byte
      BY <3>1, <3>2, ElementOfSeq
    <3> QED BY <1>1, <2>1, <3>1, <3>2, <3>3 DEF BufferTyped, LoadsBytes
  <2>2. ASSUME LoadsEof PROVE BufferTyped' /\ cursor' <= Len(cache') /\ ~fresh'
    <3>1. /\ cache' \in Seq(Byte) /\ Len(cache') = 0 /\ cursor' = 0
          /\ delivered' \in 0..Len(sent') /\ cursor' \in 0..cacheSize /\ ~fresh' /\ eof'
      BY <1>1, <2>2, LoadTypes DEF ReaderInv
    <3>2. fresh' \in BOOLEAN /\ eof' \in BOOLEAN
      BY <2>2 DEF LoadsEof
    <3>3. sent' \in Seq(Byte) /\ Len(cache') <= cacheSize /\ cursor' <= Len(cache')
      BY <1>1, <3>1, CacheAssumption DEF BufferTyped
    <3> QED BY <3>1, <3>2, <3>3 DEF BufferTyped
  <2>3. ASSUME LoadFails
        PROVE  /\ BufferTyped' /\ cursor' <= Len(cache')
               /\ delivered' = 0 /\ cursor' = 0 /\ ~eof' /\ Len(cache') = cacheSize
    <3>1. cache' \in Seq(Byte) /\ Len(cache') = cacheSize
          /\ UNCHANGED <<delivered, cursor, fresh, eof>>
      BY <1>1, <2>3, LoadTypes DEF ReaderInv
    <3> QED BY <1>1, <3>1, CacheAssumption DEF BufferTyped
  <2> QED BY <2>1, <2>2, <2>3, ByteAssumption DEF GetRequest
<1>3. PICK c \in Byte :
        /\ Dispatch(c) /\ BufferTyped' /\ cursor' <= Len(cache')
        /\ fresh' => delivered' = 0 /\ cursor' = 0 /\ ~eof' /\ Len(cache') = cacheSize
  BY <1>2
<1>4. /\ code' = c /\ pc' \in {"unknown", "value", "exec"}
      /\ pc' # "unknown" => c \in DOMAIN Layout
      /\ pc' = "value" => More(c, << >>)
  BY <1>3 DEF Dispatch
<1>5. RequestTyped' /\ BodyTyped'
  BY <1>1, <1>4 DEF RequestTyped, BodyTyped
<1>6. BufferInv'
  BY <1>3, <1>4 DEF BufferInv
<1>7. RequestInv'
  <2>1. c \in DOMAIN Layout => /\ Len(Layout[c]) \in Nat /\ Keywords[c] \in Nat
                               /\ max(c, << >>) \in Nat
    <3>1. << >> \in Seq(Seq(Byte))
      BY EmptySeq
    <3> QED BY <3>1, LayoutFacts
  <2>2. values' = << >> /\ buf' = << >> /\ Len(buf') = 0 /\ Len(values') = 0
    BY <1>1
  <2> QED BY <1>1, <1>4, <2>1, <2>2 DEF RequestInv
<1> QED BY <1>3, <1>5, <1>6, <1>7, TypeSplitAfter DEF ReaderInv

\* eachByte at the end of the buffer: the request goes on, or fails.
LEMMA LoadMoreInv ==
  ASSUME ReaderInv, LoadMore
  PROVE  ReaderInv'
<1>1. /\ pc = "value" /\ ~eof /\ cursor = Len(cache) /\ UNCHANGED <<sent, code>>
      /\ BufferTyped /\ RequestTyped /\ BodyTyped /\ BufferInv /\ RequestInv
      /\ code \in DOMAIN Layout
  BY TypeSplit DEF LoadMore, ReaderInv, end_of_buffer, RequestInv
<1>2. CASE \/ LoadsEof /\ UNCHANGED <<pc, values, buf, req_errno, err_msg, body>>
           \/ /\ \E n \in 1..cacheSize : LoadsBytes(n, 0)
              /\ UNCHANGED <<pc, values, buf, req_errno, err_msg, body>>
  <2>1. /\ cache' \in Seq(Byte) /\ Len(cache') <= cacheSize /\ Len(cache') \in Nat /\ cursor' = 0
        /\ delivered' \in 0..Len(sent') /\ ~fresh' /\ eof' \in BOOLEAN /\ fresh' \in BOOLEAN
    <3>1. CASE LoadsEof
      <4>1. cache' \in Seq(Byte) /\ Len(cache') = 0 /\ cursor' = 0 /\ delivered' \in 0..Len(sent')
        BY <1>1, <3>1, LoadTypes DEF ReaderInv
      <4>2. ~fresh' /\ eof' \in BOOLEAN /\ fresh' \in BOOLEAN
        BY <3>1 DEF LoadsEof
      <4> QED BY <4>1, <4>2, CacheAssumption
    <3>2. ASSUME NEW n \in 1..cacheSize, LoadsBytes(n, 0)
          PROVE  /\ cache' \in Seq(Byte) /\ Len(cache') <= cacheSize /\ Len(cache') \in Nat
                 /\ cursor' = 0 /\ delivered' \in 0..Len(sent')
                 /\ ~fresh' /\ eof' \in BOOLEAN /\ fresh' \in BOOLEAN
      <4>1. 0 \in 0..n /\ n \in Nat /\ n <= cacheSize
        BY CacheAssumption
      <4>2. cache' \in Seq(Byte) /\ Len(cache') = n /\ cursor' = 0 /\ delivered' \in 0..Len(sent')
        BY <1>1, <3>2, <4>1, LoadTypes DEF ReaderInv
      <4>3. eof \in BOOLEAN
        BY <1>1 DEF BufferTyped
      <4>4. ~fresh' /\ eof' \in BOOLEAN /\ fresh' \in BOOLEAN
        BY <3>2, <4>3 DEF LoadsBytes
      <4> QED BY <4>1, <4>2, <4>4
    <3> QED BY <1>2, <3>1, <3>2
  <2>2. BufferTyped' /\ BufferInv'
    BY <1>1, <1>2, <2>1, CacheAssumption DEF BufferTyped, BufferInv
  <2>3. RequestTyped' /\ BodyTyped' /\ RequestInv'
    BY <1>1, <1>2 DEF RequestTyped, BodyTyped, RequestInv, body
  <2> QED BY <2>2, <2>3, TypeSplitAfter DEF ReaderInv
<1>3. CASE LoadFails /\ \E errno \in Error : Fail(errno, FALSE)
  <2>1. cache' \in Seq(Byte) /\ Len(cache') = cacheSize
        /\ UNCHANGED <<delivered, cursor, fresh, eof>>
    BY <1>1, <1>3, LoadTypes DEF ReaderInv
  <2>2. /\ pc' = "failed" /\ req_errno' \in Error /\ err_msg' = FALSE
        /\ UNCHANGED <<values, buf, left, stored, answer>>
    BY <1>3 DEF Fail, body
  <2>3. BufferTyped' /\ BufferInv'
    BY <1>1, <2>1, <2>2, CacheAssumption DEF BufferTyped, BufferInv
  <2>4. RequestTyped' /\ BodyTyped' /\ RequestInv'
    BY <1>1, <2>2 DEF RequestTyped, BodyTyped, RequestInv
  <2> QED BY <2>3, <2>4, TypeSplitAfter DEF ReaderInv
<1> QED BY <1>2, <1>3 DEF LoadMore

\* A value is complete.
LEMMA EndValueInv ==
  ASSUME ReaderInv, pc = "value", EndValue, UNCHANGED <<code, req_errno, err_msg, stored, answer>>
  PROVE  /\ RequestTyped' /\ BodyTyped' /\ RequestInv' /\ Len(values') = Len(values) + 1
         /\ pc' \in {"value", "copy", "exec"}
         /\ pc' = "copy" => left' = Number(buf)
<1>1. /\ RequestTyped /\ BodyTyped /\ RequestInv /\ code \in DOMAIN Layout
      /\ More(code, values) /\ values \in Seq(Seq(Byte)) /\ buf \in Seq(Nat)
  <2>1. /\ RequestTyped /\ BodyTyped /\ RequestInv /\ code \in DOMAIN Layout
        /\ More(code, values)
    BY TypeSplit DEF ReaderInv, RequestInv
  <2>2. Seq(Byte \ {0}) \subseteq Seq(Byte) /\ Byte \ {0} \subseteq Nat
    BY ByteAssumption, SeqMonotonic
  <2> QED BY <2>1, <2>2, SeqMonotonic DEF RequestTyped
<1>2. /\ Len(Layout[code]) \in Nat /\ Keywords[code] \in Nat
      /\ Len(values) < Len(Layout[code]) + Keywords[code]
  BY <1>1, LayoutFacts
<1>3. /\ values' \in Seq(Seq(Byte \ {0})) /\ values' # << >> /\ Len(values') = Len(values) + 1
      /\ buf' = << >> /\ Len(buf') = 0 /\ buf' \in Seq(Byte \ {0})
      /\ Len(values) \in Nat /\ values' \in Seq(Seq(Byte))
  <2>1. values \in Seq(Seq(Byte \ {0})) /\ buf \in Seq(Byte \ {0})
    BY <1>1 DEF RequestTyped
  <2>2. values' = Append(values, buf) /\ buf' = << >>
    BY DEF EndValue
  <2>3. /\ values' \in Seq(Seq(Byte \ {0})) /\ values' # << >>
        /\ Len(values') = Len(values) + 1 /\ Len(values) \in Nat
    BY <2>1, <2>2, AppendProperties, LenProperties
  <2>4. Seq(Byte \ {0}) \subseteq Seq(Byte)
    BY SeqMonotonic
  <2> QED BY <2>2, <2>3, <2>4, SeqMonotonic
<1>4. left' \in Int /\ (pc' = "copy" => left' = Number(buf))
  BY <1>1, NumberType DEF EndValue, BodyTyped
<1>5. /\ pc' \in {"value", "copy", "exec"}
      /\ pc' = "value" => More(code, values')
      /\ pc' = "copy" => code \in Uploads
  BY DEF EndValue
<1>6. max(code, values') \in Nat
  BY <1>1, <1>3, LayoutFacts
<1>7. RequestTyped' /\ BodyTyped'
  BY <1>1, <1>3, <1>4, <1>5 DEF RequestTyped, BodyTyped
<1>8. RequestInv'
  <2>1. Len(values') <= Len(Layout[code]) + Keywords[code]
    BY <1>2, <1>3
  <2>2. Len(buf') <= max(code, values') + 1
    BY <1>3, <1>6
  <2> QED BY <1>1, <1>3, <1>5, <2>1, <2>2 DEF RequestInv
<1> QED BY <1>3, <1>4, <1>5, <1>7, <1>8

\* eachByte hands a byte to load()'s function.
LEMMA TakeByteInv ==
  ASSUME ReaderInv, TakeByte
  PROVE  ReaderInv'
<1>1. /\ pc = "value" /\ ~eof /\ UNCHANGED <<sent, delivered, cache, fresh, eof, code>>
      /\ BufferTyped /\ RequestTyped /\ BodyTyped /\ BufferInv /\ RequestInv
      /\ code \in DOMAIN Layout
  BY TypeSplit DEF TakeByte, ReaderInv, RequestInv
<1>2. CASE fresh
  <2>1. pc' = "crashed" /\ UNCHANGED <<cursor, values, buf, req_errno, err_msg, left, stored, answer>>
    BY <1>2 DEF TakeByte, body
  <2>2. BufferTyped' /\ BufferInv'
    BY <1>1, <2>1 DEF BufferTyped, BufferInv
  <2>3. RequestTyped' /\ BodyTyped' /\ RequestInv'
    BY <1>1, <2>1 DEF RequestTyped, BodyTyped, RequestInv
  <2> QED BY <2>2, <2>3, TypeSplitAfter DEF ReaderInv
<1>3. CASE ~fresh
  <2>1. cursor' = cursor + 1 /\ cursor < Len(cache) /\ Len(cache) \in Nat /\ cursor \in Nat
        /\ cache[cursor + 1] \in Byte
    <3>1. cursor \in Nat /\ Len(cache) \in Nat /\ cursor <= Len(cache) /\ cursor # Len(cache)
      BY <1>1, CacheAssumption DEF BufferTyped, BufferInv, TakeByte, end_of_buffer
    <3>2. cursor' = cursor + 1 /\ cursor + 1 \in 1..Len(cache)
      BY <1>3, <3>1 DEF TakeByte
    <3> QED BY <1>1, <3>1, <3>2, ElementOfSeq DEF BufferTyped
  <2>2. BufferTyped'
    BY <1>1, <2>1, CacheAssumption DEF BufferTyped
  <2>3. CASE TooLong /\ Fail("CUSTOM_ERR", TRUE)
    <3>1. /\ pc' = "failed" /\ req_errno' = "CUSTOM_ERR" /\ err_msg' = TRUE
          /\ UNCHANGED <<values, buf, left, stored, answer>>
      BY <2>3 DEF Fail, body
    <3>2. BufferInv'
      BY <1>1, <1>3, <2>1, <3>1 DEF BufferInv
    <3>3. RequestTyped' /\ BodyTyped' /\ RequestInv'
      BY <1>1, <3>1 DEF RequestTyped, BodyTyped, RequestInv
    <3> QED BY <2>2, <3>2, <3>3, TypeSplitAfter DEF ReaderInv
  <2>4. CASE EndValue /\ UNCHANGED <<req_errno, err_msg>>
    <3>1. stored' = stored /\ answer' = answer
      BY <2>4 DEF EndValue
    <3>2. RequestTyped' /\ BodyTyped' /\ RequestInv' /\ pc' \in {"value", "copy", "exec"}
      BY <1>1, <2>4, <3>1, EndValueInv
    <3>3. BufferInv'
      BY <1>1, <1>3, <2>1, <3>2 DEF BufferInv
    <3> QED BY <2>2, <3>2, <3>3, TypeSplitAfter DEF ReaderInv
  <2>5. CASE /\ ~TooLong /\ cache[cursor + 1] # 0 /\ buf' = Append(buf, cache[cursor + 1])
             /\ UNCHANGED <<pc, values, req_errno, err_msg, body>>
    <3>1. /\ UNCHANGED <<pc, values, req_errno, err_msg, left, stored, answer>>
          /\ buf' = Append(buf, cache[cursor + 1])
      BY <2>5 DEF body
    <3>2. buf' \in Seq(Byte \ {0}) /\ Len(buf') = Len(buf) + 1 /\ Len(buf) \in Nat
      BY <1>1, <2>1, <2>5, <3>1, AppendProperties, LenProperties DEF RequestTyped
    <3>3. max(code, values) \in Nat
      <4>1. Seq(Byte \ {0}) \subseteq Seq(Byte)
        BY SeqMonotonic
      <4>2. values \in Seq(Seq(Byte))
        BY <1>1, <4>1, SeqMonotonic DEF RequestTyped
      <4> QED BY <1>1, <4>2, LayoutFacts
    <3>4. Len(buf) <= max(code, values)
      BY <2>5, <3>2, <3>3 DEF TooLong
    <3>5. max(code, values)' = max(code, values)
      BY <1>1, <3>1 DEF max
    <3>6. BufferInv'
      BY <1>1, <1>3, <2>1, <3>1 DEF BufferInv
    <3>7. RequestTyped' /\ BodyTyped'
      BY <1>1, <3>1, <3>2 DEF RequestTyped, BodyTyped
    <3>8. RequestInv'
      <4>1. pc' = "value" /\ values' = values /\ code' = code
            /\ Len(buf') <= max(code', values') + 1
        BY <1>1, <3>1, <3>2, <3>3, <3>4
      <4> QED BY <1>1, <3>1, <4>1 DEF RequestInv
    <3> QED BY <2>2, <3>6, <3>7, <3>8, TypeSplitAfter DEF ReaderInv
  <2> QED BY <1>3, <2>3, <2>4, <2>5 DEF TakeByte
<1> QED BY <1>2, <1>3

\* The end of the stream ends the value.
LEMMA ValueAtEofInv ==
  ASSUME ReaderInv, ValueAtEof
  PROVE  ReaderInv'
<1>1. /\ pc = "value" /\ eof /\ EndValue
      /\ UNCHANGED <<sent, delivered, cache, cursor, fresh, eof, code, req_errno, err_msg>>
      /\ BufferTyped /\ BufferInv
  BY TypeSplit DEF ValueAtEof, fd, ReaderInv
<1>2. stored' = stored /\ answer' = answer
  BY <1>1 DEF EndValue
<1>3. RequestTyped' /\ BodyTyped' /\ RequestInv' /\ pc' \in {"value", "copy", "exec"}
  BY <1>1, <1>2, EndValueInv
<1>4. BufferTyped' /\ BufferInv'
  BY <1>1, <1>3 DEF BufferTyped, BufferInv
<1> QED BY <1>3, <1>4, TypeSplitAfter DEF ReaderInv

\* The bytes one round of copy() takes are no more than there are, and one more
\* than max asks for at most.
LEMMA TakenBounds ==
  ASSUME NEW n \in Nat, left \in Int
  PROVE  Taken(n) \in 0..n /\ (left >= 0 => Taken(n) <= left + 1)
BY DEF Taken

\* What out() leaves.
LEMMA OutTypes ==
  ASSUME BodyTyped, pc = "copy", NEW bytes \in Seq(Byte), Out(bytes)
  PROVE  /\ BodyTyped' /\ pc' \in {"copy", "copied"}
         /\ pc' = "copy" => /\ stored' = stored \o bytes /\ answer' = answer
                            /\ left' = IF left < 0 \/ Len(bytes) <= left
                                       THEN left - Len(bytes) ELSE 0
         /\ pc' = "copied" => stored' = stored /\ left' = left /\ answer' = "COPY_STREAM_ERR"
<1>1. Len(bytes) \in Nat /\ stored \in Seq(Byte) /\ left \in Int
  BY DEF BodyTyped
<1>2. CASE /\ stored' = stored \o bytes
           /\ left' = IF left < 0 \/ Len(bytes) <= left THEN left - Len(bytes) ELSE 0
           /\ UNCHANGED <<pc, answer>>
  <2>1. left' \in Int
    BY <1>1, <1>2
  <2>2. stored' \in Seq(Byte)
    BY <1>1, <1>2, ConcatProperties
  <2> QED BY <1>2, <2>1, <2>2 DEF BodyTyped
<1>3. CASE pc' = "copied" /\ answer' = "COPY_STREAM_ERR" /\ UNCHANGED <<stored, left>>
  BY <1>3 DEF BodyTyped
<1> QED BY <1>2, <1>3 DEF Out


\* The buffer holds the last bytes that were read, and `consumed' is how many
\* bytes of the request the handler has taken.
Held == /\ Len(cache) <= delivered
        /\ \A i \in 1..Len(cache) : cache[i] = sent[(delivered - Len(cache)) + i]

consumed == (delivered - Len(cache)) + cursor

\* A successful load() fills the buffer with the bytes that follow.
LEMMA LoadHolds ==
  ASSUME TypeOK, UNCHANGED sent
  PROVE  /\ \A n \in 1..cacheSize : \A used \in 0..n : LoadsBytes(n, used) =>
              Held' /\ consumed' = delivered + used
         /\ LoadsEof => Held' /\ consumed' = Len(sent) /\ delivered' = Len(sent)
<1>1. delivered \in Nat /\ Len(sent) \in Nat /\ cacheSize \in Nat
  BY CacheAssumption DEF TypeOK
<1>2. ASSUME NEW n \in 1..cacheSize, NEW used \in 0..n, LoadsBytes(n, used)
      PROVE  Held' /\ consumed' = delivered + used
  <2>1. /\ Len(cache') = n /\ cursor' = used /\ delivered' = delivered + n
        /\ \A i \in 1..n : cache'[i] = sent[delivered + i]
    BY <1>2, LoadTypes
  <2>2. n \in Nat /\ used \in Nat
    OBVIOUS
  <2>3. delivered' - Len(cache') = delivered
    BY <1>1, <2>1, <2>2
  <2>4. sent' = sent
    OBVIOUS
  <2>5. Len(cache') <= delivered'
    BY <1>1, <2>1, <2>2
  <2> QED BY <2>1, <2>3, <2>4, <2>5 DEF Held, consumed
<1>3. ASSUME LoadsEof
      PROVE  Held' /\ consumed' = Len(sent) /\ delivered' = Len(sent)
  <2>1. Len(cache') = 0 /\ cursor' = 0 /\ delivered' = Len(sent)
    BY <1>3, LoadTypes
  <2>2. 1..0 = {}
    OBVIOUS
  <2> QED BY <1>1, <2>1, <2>2 DEF Held, consumed
<1> QED BY <1>2, <1>3

\* A round of copy() that is not given up hands out() the bytes that follow: as
\* many as there are in the buffer, but no more than max and one.
LEMMA CopyRoundTakes ==
  ASSUME ReaderInv, CopyRound
  PROVE  /\ BufferTyped' /\ cursor' <= Len(cache') /\ ~fresh'
         /\ \/ pc' = "copied" /\ answer' \in Error /\ UNCHANGED <<left, stored>>
            \/ \E bytes \in Seq(Byte) :
                 /\ Out(bytes)
                 /\ left >= 0 => Len(bytes) <= left + 1
                 /\ \/ eof' /\ bytes = << >> /\ consumed' = Len(sent)
                    \/ eof' = eof
                 /\ Held =>
                      /\ Held'
                      /\ consumed' = consumed + Len(bytes)
                      /\ \A i \in 1..Len(bytes) : bytes[i] = sent[consumed + i]
<1>1. /\ pc = "copy" /\ ~eof /\ left # 0 /\ ~fresh
      /\ UNCHANGED <<sent, code, values, buf, req_errno, err_msg>>
      /\ BufferTyped /\ TypeOK
  BY TypeSplit DEF CopyRound, ReaderInv, BufferInv
<1>2. /\ cursor \in Nat /\ cursor <= Len(cache) /\ Len(cache) \in Nat /\ delivered \in Nat
      /\ left \in Int /\ cache \in Seq(Byte) /\ cacheSize \in Nat \ {0} /\ sent \in Seq(Byte)
      /\ Len(sent) \in Nat /\ Len(cache) <= cacheSize
  BY CacheAssumption DEF ReaderInv, TypeOK, BufferInv
<1>3. CASE /\ ~end_of_buffer
           /\ cursor' = cursor + Taken(Len(cache) - cursor)
           /\ Out(SubSeq(cache, cursor + 1, cursor'))
           /\ UNCHANGED <<delivered, cache, fresh, eof>>
  <2> DEFINE bytes == SubSeq(cache, cursor + 1, cursor')
  <2>1. PICK t \in Nat : /\ t = Taken(Len(cache) - cursor) /\ t <= Len(cache) - cursor
                         /\ left >= 0 => t <= left + 1
    <3>1. PICK w \in Nat : w = Len(cache) - cursor
      BY <1>2
    <3>2. Taken(w) \in 0..w /\ (left >= 0 => Taken(w) <= left + 1)
      BY <1>2, <3>1, TakenBounds
    <3>3. Taken(w) \in Nat /\ Taken(w) <= w
      BY <3>1, <3>2
    <3> QED BY <3>1, <3>2, <3>3
  <2>2. cursor' = cursor + t /\ cursor + t <= Len(cache)
    BY <1>2, <1>3, <2>1
  <2>3. /\ bytes \in Seq(Byte) /\ Len(bytes) = t
        /\ \A i \in 1..t : bytes[i] = cache[cursor + i]
    BY <1>2, <2>2, PartOf
  <2>4. BufferTyped' /\ cursor' <= Len(cache') /\ ~fresh'
    BY <1>1, <1>2, <1>3, <2>2 DEF BufferTyped
  <2>5. ASSUME Held
        PROVE  /\ Held' /\ consumed' = consumed + t
               /\ \A i \in 1..t : bytes[i] = sent[consumed + i]
    <3>1. Held'
      BY <1>1, <1>3, <2>5 DEF Held
    <3>2. consumed' = consumed + t
      BY <1>2, <1>3, <2>2 DEF consumed
    <3>3. \A i \in 1..t : cursor + i \in 1..Len(cache)
                          /\ (delivered - Len(cache)) + (cursor + i) = consumed + i
      BY <1>2, <2>2 DEF consumed
    <3>4. \A i \in 1..t : bytes[i] = sent[consumed + i]
      BY <2>3, <2>5, <3>3 DEF Held
    <3> QED BY <3>1, <3>2, <3>4
  <2> HIDE DEF bytes
  <2>6. Out(bytes)
    BY <1>3 DEF bytes
  <2> QED BY <1>3, <2>1, <2>3, <2>4, <2>5, <2>6
<1>4. ASSUME end_of_buffer, NEW n \in 1..cacheSize, LoadsBytes(n, Taken(n)),
             Out(SubSeq(cache', 1, cursor'))
      PROVE  /\ BufferTyped' /\ cursor' <= Len(cache') /\ ~fresh'
             /\ \E bytes \in Seq(Byte) :
                  /\ Out(bytes) /\ (left >= 0 => Len(bytes) <= left + 1) /\ eof' = eof
                  /\ Held =>
                       /\ Held'
                       /\ consumed' = consumed + Len(bytes)
                       /\ \A i \in 1..Len(bytes) : bytes[i] = sent[consumed + i]
  <2> DEFINE bytes == SubSeq(cache', 1, cursor')
  <2>1. PICK t \in 0..n : t = Taken(n) /\ (left >= 0 => t <= left + 1)
    <3>1. n \in Nat
      OBVIOUS
    <3> QED BY <1>2, <3>1, TakenBounds
  <2>2. t \in Nat /\ n \in Nat /\ t <= n /\ n <= cacheSize
    BY <1>2
  <2>3. LoadsBytes(n, t)
    BY <1>4, <2>1
  <2>4. /\ cache' \in Seq(Byte) /\ Len(cache') = n /\ cursor' = t
        /\ \A i \in 1..n : cache'[i] = sent[delivered + i]
        /\ delivered' = delivered + n /\ delivered' \in 0..Len(sent')
        /\ cursor' \in 0..cacheSize /\ ~fresh' /\ eof' = eof
    BY <1>1, <2>1, <2>3, LoadTypes
  <2>5. bytes \in Seq(Byte) /\ Len(bytes) = t /\ \A i \in 1..t : bytes[i] = cache'[i]
    <3>1. cursor' = 0 + t /\ 0 + t <= Len(cache') /\ 0 + 1 = 1 /\ \A i \in 1..t : 0 + i = i
      BY <2>2, <2>4
    <3>2. /\ SubSeq(cache', 0 + 1, 0 + t) \in Seq(Byte) /\ Len(SubSeq(cache', 0 + 1, 0 + t)) = t
          /\ \A i \in 1..t : SubSeq(cache', 0 + 1, 0 + t)[i] = cache'[0 + i]
      BY <2>2, <2>4, <3>1, PartOf
    <3> QED BY <3>1, <3>2
  <2>6. fresh' \in BOOLEAN /\ eof' \in BOOLEAN
    <3>1. eof \in BOOLEAN
      BY <1>1 DEF BufferTyped
    <3> QED BY <1>4, <3>1 DEF LoadsBytes
  <2>7. BufferTyped' /\ cursor' <= Len(cache')
    BY <1>1, <1>2, <2>2, <2>4, <2>6 DEF BufferTyped
  <2>8. ASSUME Held
        PROVE  /\ Held' /\ consumed' = consumed + t
               /\ \A i \in 1..t : bytes[i] = sent[consumed + i]
    <3>1. Held' /\ consumed' = delivered + t
      BY <1>1, <2>1, <2>3, LoadHolds
    <3>2. consumed = delivered
      BY <1>2, <1>4 DEF consumed, end_of_buffer
    <3>3. \A i \in 1..t : i \in 1..n
      BY <2>2
    <3> QED BY <2>4, <2>5, <3>1, <3>2, <3>3
  <2> HIDE DEF bytes
  <2>9. Out(bytes)
    BY <1>4 DEF bytes
  <2> QED BY <2>1, <2>4, <2>5, <2>7, <2>8, <2>9
<1>5. ASSUME end_of_buffer, LoadsEof, Out(<< >>)
      PROVE  /\ BufferTyped' /\ cursor' <= Len(cache') /\ ~fresh'
             /\ \E bytes \in Seq(Byte) :
                  /\ Out(bytes) /\ (left >= 0 => Len(bytes) <= left + 1)
                  /\ eof' /\ bytes = << >> /\ consumed' = Len(sent)
                  /\ Held =>
                       /\ Held'
                       /\ consumed' = consumed + Len(bytes)
                       /\ \A i \in 1..Len(bytes) : bytes[i] = sent[consumed + i]
  <2>1. /\ cache' \in Seq(Byte) /\ Len(cache') = 0 /\ cursor' = 0
        /\ delivered' = Len(sent) /\ delivered = Len(sent)
        /\ delivered' \in 0..Len(sent') /\ cursor' \in 0..cacheSize /\ ~fresh' /\ eof'
    BY <1>1, <1>5, LoadTypes
  <2>2. fresh' \in BOOLEAN /\ eof' \in BOOLEAN
    BY <1>5 DEF LoadsEof
  <2>3. BufferTyped' /\ cursor' <= Len(cache')
    BY <1>1, <1>2, <2>1, <2>2 DEF BufferTyped
  <2>4. Held' /\ consumed' = Len(sent)
    BY <1>1, <1>5, LoadHolds
  <2>5. consumed = Len(sent)
    BY <1>2, <1>5, <2>1 DEF consumed, end_of_buffer
  <2>6. << >> \in Seq(Byte) /\ Len(<< >>) = 0 /\ 1..0 = {} /\ consumed' = consumed + 0
    BY <1>2, <2>4, <2>5
  <2>7. left >= 0 => Len(<< >>) <= left + 1
    BY <1>2
  <2> QED BY <1>5, <2>1, <2>3, <2>4, <2>6, <2>7
<1>6. ASSUME LoadFails
      PROVE  BufferTyped' /\ cursor' <= Len(cache') /\ ~fresh'
  <2>1. cache' \in Seq(Byte) /\ Len(cache') = cacheSize
        /\ UNCHANGED <<delivered, cursor, fresh, eof>>
    BY <1>1, <1>6, LoadTypes
  <2> QED BY <1>1, <1>2, <2>1 DEF BufferTyped
<1> QED BY <1>3, <1>4, <1>5, <1>6 DEF CopyRound


\* A round of copy().
LEMMA CopyRoundInv ==
  ASSUME ReaderInv, CopyRound
  PROVE  ReaderInv'
<1>1. /\ pc = "copy" /\ UNCHANGED <<sent, code, values, buf, req_errno, err_msg>>
      /\ RequestTyped /\ BodyTyped /\ RequestInv
  BY TypeSplit DEF CopyRound, ReaderInv
<1>2. BufferTyped' /\ cursor' <= Len(cache') /\ ~fresh'
  BY CopyRoundTakes
<1>3. BodyTyped' /\ pc' \in {"copy", "copied"}
  <2>1. CASE pc' = "copied" /\ answer' \in Error /\ UNCHANGED <<left, stored>>
    BY <1>1, <2>1 DEF BodyTyped
  <2>2. CASE \E bytes \in Seq(Byte) : Out(bytes)
    BY <1>1, <2>2, OutTypes
  <2> QED BY <2>1, <2>2, CopyRoundTakes
<1>4. BufferInv' /\ RequestTyped' /\ RequestInv'
  BY <1>1, <1>2, <1>3 DEF BufferInv, RequestTyped, RequestInv
<1> QED BY <1>2, <1>3, <1>4, TypeSplitAfter DEF ReaderInv

\* The end of copy().
LEMMA CopyEndsInv ==
  ASSUME ReaderInv, CopyEnds
  PROVE  ReaderInv'
<1>1. /\ pc = "copy" /\ pc' = "copied" /\ answer' = "OK"
      /\ UNCHANGED <<sent, delivered, cache, cursor, fresh, eof>>
      /\ UNCHANGED <<code, values, buf, req_errno, err_msg, left, stored>>
      /\ BufferTyped /\ RequestTyped /\ BodyTyped /\ BufferInv /\ RequestInv
  BY TypeSplit DEF CopyEnds, fd, ReaderInv
<1>2. BufferTyped' /\ RequestTyped' /\ BodyTyped'
  BY <1>1 DEF BufferTyped, RequestTyped, BodyTyped
<1>3. BufferInv' /\ RequestInv'
  BY <1>1 DEF BufferInv, RequestInv
<1> QED BY <1>2, <1>3, TypeSplitAfter DEF ReaderInv

\* A load() that does not return has resized the cache, and that is all.
LEMMA LoadBlocksInv ==
  ASSUME ReaderInv, LoadBlocks
  PROVE  ReaderInv'
<1>1. /\ pc \in {"code", "value", "copy"} /\ pc' = "blocked"
      /\ UNCHANGED <<sent, code, values, buf, req_errno, err_msg, left, stored, answer>>
      /\ BufferTyped /\ RequestTyped /\ BodyTyped /\ BufferInv /\ RequestInv /\ TypeOK
  BY TypeSplit DEF LoadBlocks, ReaderInv, body
<1>2. /\ cache' \in Seq(Byte) /\ Len(cache') = cacheSize
      /\ UNCHANGED <<delivered, cursor, fresh, eof>>
  BY <1>1, LoadTypes DEF LoadBlocks
<1>3. BufferTyped' /\ BufferInv'
  BY <1>1, <1>2, CacheAssumption DEF BufferTyped, BufferInv
<1>4. RequestTyped' /\ BodyTyped'
  BY <1>1 DEF RequestTyped, BodyTyped
<1>5. /\ pc' = "code" => values' = << >> /\ buf' = << >>
      /\ pc' \in {"code", "unknown"} => values' = << >>
      /\ pc' = "value" => FALSE
      /\ pc' \in {"copy", "copied"} => FALSE
  BY <1>1
<1>6. code' \in DOMAIN Layout => Len(values') <= Len(Layout[code']) + Keywords[code']
  BY <1>1 DEF RequestInv
<1>7. req_errno' = "OK"
  BY <1>1 DEF RequestInv
<1>8. RequestInv'
  BY <1>1, <1>5, <1>6, <1>7 DEF RequestInv
<1> QED BY <1>3, <1>4, <1>8, TypeSplitAfter DEF ReaderInv

\* Nothing the reader does not do changes it.
LEMMA StutterReader ==
  ASSUME ReaderInv, UNCHANGED vars
  PROVE  ReaderInv'
<1>1. /\ UNCHANGED <<sent, delivered, cache, cursor, fresh, eof>>
      /\ UNCHANGED <<pc, code, values, buf, req_errno, err_msg, left, stored, answer>>
  BY DEF vars, fd, body
<1>2. BufferTyped' /\ RequestTyped' /\ BodyTyped'
  BY <1>1, TypeSplit DEF ReaderInv, BufferTyped, RequestTyped, BodyTyped
<1>3. BufferInv' /\ RequestInv'
  BY <1>1 DEF ReaderInv, BufferInv, RequestInv
<1> QED BY <1>2, <1>3, TypeSplitAfter DEF ReaderInv

LEMMA NextReader == ReaderInv /\ [Next]_vars => ReaderInv'
BY GetRequestInv, LoadMoreInv, TakeByteInv, ValueAtEofInv, CopyRoundInv, CopyEndsInv,
   LoadBlocksInv, StutterReader DEF Next

\* In every state the reader comes to, its position is in its buffer and its
\* request is a beginning of one the layout allows (file.h:76-260,
\* proxy.h:20-128).
THEOREM ReaderInvariance == Spec => []ReaderInv
BY InitReader, NextReader, PTL DEF Spec

\* The types of the reader's state, whatever the client sends and however the
\* stream behaves.
THEOREM ReaderTypes == Spec => []TypeOK
<1>1. ReaderInv => TypeOK
  BY DEF ReaderInv
<1> QED BY <1>1, ReaderInvariance, PTL

\* A client cannot make the server collect values without end (proxy.h:20-128).
THEOREM BoundedReading == Spec => []ReadingBounded
<1>1. ReaderInv => ReadingBounded
  <2> SUFFICES ASSUME ReaderInv PROVE ReadingBounded
    OBVIOUS
  <2> QED BY DEF ReaderInv, RequestInv, ReadingBounded
<1> QED BY <1>1, ReaderInvariance, PTL

-----------------------------------------------------------------------------
(* The bound of every value. *)

\* While the stream goes on, a value is loaded only within its max, and only a
\* value beyond it ends the request with CUSTOM_ERR.
BoundInv ==
  /\ ~eof => \A k \in 1..Len(values) : Len(values[k]) <= max(code, SubSeq(values, 1, k - 1))
  /\ req_errno = "CUSTOM_ERR" => Len(buf) > max(code, values)

\* max depends on how many values there are, and on nothing else of them.
LEMMA MaxByLength ==
  ASSUME NEW c, NEW vs, NEW ws, Len(vs) = Len(ws)
  PROVE  max(c, vs) = max(c, ws)
BY DEF max

\* A value is appended behind the others, each of which keeps its max.
LEMMA AppendBound ==
  ASSUME NEW c, NEW vs \in Seq(Seq(Byte)), NEW v \in Seq(Byte),
         Len(v) <= max(c, vs),
         \A k \in 1..Len(vs) : Len(vs[k]) <= max(c, SubSeq(vs, 1, k - 1))
  PROVE  \A k \in 1..Len(Append(vs, v)) :
           Len(Append(vs, v)[k]) <= max(c, SubSeq(Append(vs, v), 1, k - 1))
<1> DEFINE ws == Append(vs, v)
<1>1. /\ Len(vs) \in Nat /\ ws \in Seq(Seq(Byte)) /\ Len(ws) = Len(vs) + 1
      /\ ws[Len(vs) + 1] = v /\ \A k \in 1..Len(vs) : ws[k] = vs[k]
  BY AppendProperties, LenProperties
<1> HIDE DEF ws
<1>2. ASSUME NEW k \in 1..Len(ws)
      PROVE  Len(ws[k]) <= max(c, SubSeq(ws, 1, k - 1))
  <2>1. k - 1 \in Nat /\ 0 + (k - 1) <= Len(ws) /\ 0 + (k - 1) = k - 1 /\ 0 + 1 = 1
    BY <1>1
  <2>2. Len(SubSeq(ws, 0 + 1, 0 + (k - 1))) = k - 1
    BY <1>1, <2>1, PartOf
  <2>3. Len(SubSeq(ws, 1, k - 1)) = k - 1
    BY <2>1, <2>2
  <2>4. CASE k \in 1..Len(vs)
    <3>1. 0 + (k - 1) <= Len(vs)
      BY <1>1, <2>4
    <3>2. Len(SubSeq(vs, 0 + 1, 0 + (k - 1))) = k - 1
      BY <2>1, <3>1, PartOf
    <3>3. Len(SubSeq(vs, 1, k - 1)) = k - 1
      BY <2>1, <3>2
    <3>4. max(c, SubSeq(ws, 1, k - 1)) = max(c, SubSeq(vs, 1, k - 1))
      BY <2>3, <3>3, MaxByLength
    <3> QED BY <1>1, <2>4, <3>4
  <2>5. CASE k = Len(vs) + 1
    <3>1. Len(SubSeq(ws, 1, k - 1)) = Len(vs)
      BY <1>1, <2>3, <2>5
    <3>2. max(c, SubSeq(ws, 1, k - 1)) = max(c, vs)
      BY <3>1, MaxByLength
    <3> QED BY <1>1, <2>5, <3>2
  <2> QED BY <1>1, <2>4, <2>5
<1> QED BY <1>2 DEF ws

LEMMA InitBound == Init => BoundInv
<1> SUFFICES ASSUME Init PROVE BoundInv
  OBVIOUS
<1>1. 1..Len(values) = {} /\ req_errno = "OK"
  BY DEF Init
<1> QED BY <1>1 DEF BoundInv

\* Only the end of a value has anything to do for the bounds.
LEMMA EndValueBound ==
  ASSUME ReaderInv, BoundInv, EndValue, pc = "value", UNCHANGED <<code, eof, req_errno, err_msg>>,
         ~eof => ~TooLong
  PROVE  BoundInv'
<1>1. /\ code \in DOMAIN Layout /\ values \in Seq(Seq(Byte)) /\ buf \in Seq(Byte)
      /\ Len(buf) \in Nat /\ req_errno = "OK"
  <2>1. Seq(Byte \ {0}) \subseteq Seq(Byte)
    BY SeqMonotonic
  <2> QED BY <2>1, SeqMonotonic DEF ReaderInv, TypeOK, RequestInv
<1>2. max(code, values) \in Nat
  BY <1>1, LayoutFacts
<1>3. ASSUME ~eof'
      PROVE  \A k \in 1..Len(values') : Len(values'[k]) <= max(code', SubSeq(values', 1, k - 1))
  <2>1. Len(buf) <= max(code, values)
    BY <1>1, <1>2, <1>3 DEF TooLong
  <2>2. values' = Append(values, buf) /\ code' = code /\ ~eof
    BY <1>3 DEF EndValue
  <2> QED BY <1>1, <2>1, <2>2, AppendBound DEF BoundInv
<1> QED BY <1>1, <1>3 DEF BoundInv

\* A step that leaves the values, and takes no value for too long.
LEMMA SameBound ==
  ASSUME BoundInv, UNCHANGED values,
         Len(values) = 0 \/ code' = code,
         eof => eof',
         req_errno' # "CUSTOM_ERR" \/ UNCHANGED <<code, buf, req_errno, err_msg>>
  PROVE  BoundInv'
<1>1. ASSUME ~eof'
      PROVE  \A k \in 1..Len(values') : Len(values'[k]) <= max(code', SubSeq(values', 1, k - 1))
  <2>1. CASE Len(values) = 0
    BY <2>1
  <2>2. CASE code' = code
    BY <1>1, <2>2 DEF BoundInv
  <2> QED BY <2>1, <2>2
<1>2. req_errno' = "CUSTOM_ERR" => Len(buf') > max(code', values')
  BY DEF BoundInv
<1> QED BY <1>1, <1>2 DEF BoundInv

LEMMA NextBound == ReaderInv /\ BoundInv /\ [Next]_vars => BoundInv'
<1> SUFFICES ASSUME ReaderInv, BoundInv, [Next]_vars PROVE BoundInv'
  OBVIOUS
<1>1. CASE GetRequest
  <2>1. values = << >> /\ Len(values) = 0 /\ req_errno = "OK" /\ ~eof
    BY <1>1 DEF GetRequest, ReaderInv, RequestInv, BufferInv
  <2>2. UNCHANGED <<values, req_errno>>
    BY <1>1 DEF GetRequest
  <2> QED BY <2>1, <2>2, SameBound
<1>2. CASE LoadMore
  <2>1. req_errno = "OK" /\ ~eof /\ code' = code
    BY <1>2 DEF LoadMore, ReaderInv, RequestInv
  <2>2. values' = values /\ req_errno' # "CUSTOM_ERR"
    BY <1>2, <2>1 DEF LoadMore, Fail, Error
  <2> QED BY <2>1, <2>2, SameBound
<1>3. CASE TakeByte
  <2>1. pc = "value" /\ req_errno = "OK" /\ UNCHANGED <<eof, code>>
    BY <1>3 DEF TakeByte, ReaderInv, RequestInv
  <2>2. CASE UNCHANGED <<values, req_errno>>
    BY <2>1, <2>2, SameBound
  <2>3. CASE TooLong /\ Fail("CUSTOM_ERR", TRUE)
    <3>1. UNCHANGED <<values, buf, code>>
      BY <2>1, <2>3 DEF Fail
    <3>2. Len(buf') > max(code', values')
      BY <2>3, <3>1 DEF TooLong
    <3>3. ~eof' => \A k \in 1..Len(values') : Len(values'[k]) <= max(code', SubSeq(values', 1, k - 1))
      BY <2>1, <3>1 DEF BoundInv
    <3> QED BY <3>1, <3>2, <3>3 DEF BoundInv
  <2>4. CASE ~TooLong /\ EndValue /\ UNCHANGED <<req_errno, err_msg>>
    BY <2>1, <2>4, EndValueBound
  <2> QED BY <1>3, <2>2, <2>3, <2>4 DEF TakeByte
<1>4. CASE ValueAtEof
  <2>1. pc = "value" /\ eof /\ EndValue /\ UNCHANGED <<code, eof, req_errno, err_msg>>
    BY <1>4 DEF ValueAtEof, fd
  <2> QED BY <2>1, EndValueBound
<1>5. CASE CopyRound
  <2>1. pc = "copy" /\ ~eof /\ UNCHANGED <<code, values, buf, req_errno, err_msg>>
    BY <1>5 DEF CopyRound
  <2> QED BY <2>1, SameBound
<1>6. CASE CopyEnds
  <2>1. UNCHANGED <<code, values, buf, req_errno, err_msg, eof>>
    BY <1>6 DEF CopyEnds, fd
  <2> QED BY <2>1, SameBound
<1>7. CASE UNCHANGED vars
  <2>1. UNCHANGED <<code, values, buf, req_errno, err_msg, eof>>
    BY <1>7 DEF vars, fd
  <2> QED BY <2>1, SameBound
<1>8. CASE LoadBlocks
  <2>1. UNCHANGED <<code, values, buf, req_errno, err_msg, eof>>
    BY <1>8 DEF LoadBlocks, LoadFails
  <2> QED BY <2>1, SameBound
<1> QED BY <1>1, <1>2, <1>3, <1>4, <1>5, <1>6, <1>7, <1>8 DEF Next

\* A value its client ended is within its max, and only a value beyond it is refused
\* with CUSTOM_ERR (proxy.h:61-84).
THEOREM BoundedValues == Spec => []ValueBounded
<1>1. BoundInv => ValueBounded
  BY DEF BoundInv, ValueBounded
<1>2. ReaderInv /\ BoundInv /\ [Next]_vars /\ ReaderInv' => BoundInv'
  BY NextBound
<1> QED BY <1>1, <1>2, InitBound, ReaderInvariance, PTL DEF Spec


-----------------------------------------------------------------------------
(* Where the values of a request end. *)

\* The k-th value ends within s, and EndOf says where.
AtEnd(s, k) ==
  /\ EndOf(s, k) \in 1..Len(s)
  /\ k <= Ended(s)
  /\ Cardinality(ZerosTo(s, EndOf(s, k))) = k

\* There are finitely many zero bytes.
LEMMA ZerosFinite ==
  ASSUME NEW s, NEW n \in Nat
  PROVE  IsFiniteSet(ZerosTo(s, n)) /\ Cardinality(ZerosTo(s, n)) \in Nat
<1>1. IsFiniteSet(2..n) /\ ZerosTo(s, n) \subseteq 2..n
  BY FS_Interval DEF ZerosTo
<1>2. IsFiniteSet(ZerosTo(s, n))
  BY <1>1, FS_Subset
<1> QED BY <1>2, FS_CardinalityType

\* A longer beginning has no fewer.
LEMMA ZerosMonotonic ==
  ASSUME NEW s, NEW m \in Nat, NEW n \in Nat, m <= n
  PROVE  Cardinality(ZerosTo(s, m)) <= Cardinality(ZerosTo(s, n))
<1>1. ZerosTo(s, m) \subseteq ZerosTo(s, n)
  BY DEF ZerosTo
<1> QED BY <1>1, ZerosFinite, FS_Subset

\* One more zero byte counts one more.
LEMMA NextZero ==
  ASSUME NEW s, NEW a \in Nat, NEW z \in Nat, 1 <= a, a < z, s[z] = 0,
         \A j \in (a + 1)..(z - 1) : s[j] # 0
  PROVE  Cardinality(ZerosTo(s, z)) = Cardinality(ZerosTo(s, a)) + 1
<1>1. ZerosTo(s, z) = ZerosTo(s, a) \cup {z}
  <2>1. ASSUME NEW j \in 2..z, s[j] = 0 PROVE j \in 2..a \/ j = z
    <3>1. j \notin (a + 1)..(z - 1)
      BY <2>1
    <3> QED BY <3>1
  <2>2. 2..a \subseteq 2..z /\ z \in 2..z
    OBVIOUS
  <2> QED BY <2>1, <2>2 DEF ZerosTo
<1>2. z \notin ZerosTo(s, a)
  BY DEF ZerosTo
<1>3. IsFiniteSet(ZerosTo(s, a))
  BY ZerosFinite
<1> QED BY <1>1, <1>2, <1>3, FS_AddElement

\* No zero byte counts none.
LEMMA NoZero ==
  ASSUME NEW s, NEW a \in Nat, NEW z \in Nat, 1 <= a, a <= z,
         \A j \in (a + 1)..z : s[j] # 0
  PROVE  Cardinality(ZerosTo(s, z)) = Cardinality(ZerosTo(s, a))
<1>1. ASSUME NEW j \in 2..z, s[j] = 0 PROVE j \in 2..a
  <2>1. j \notin (a + 1)..z
    BY <1>1
  <2> QED BY <2>1
<1>2. 2..a \subseteq 2..z
  OBVIOUS
<1>3. ZerosTo(s, z) = ZerosTo(s, a)
  BY <1>1, <1>2 DEF ZerosTo
<1> QED BY <1>3

LEMMA EndedType == ASSUME NEW s \in Seq(Nat) PROVE Ended(s) \in Nat
<1>1. Len(s) \in Nat
  OBVIOUS
<1> QED BY <1>1, ZerosFinite DEF Ended

\* Of two places that count alike, neither lies before the other.
LEMMA ZeroUnique ==
  ASSUME NEW s, NEW i \in Nat, NEW j \in Nat, 2 <= i, i < j, s[j] = 0
  PROVE  Cardinality(ZerosTo(s, i)) < Cardinality(ZerosTo(s, j))
<1>1. Cardinality(ZerosTo(s, i) \cup {j}) = Cardinality(ZerosTo(s, i)) + 1
  <2>1. j \notin ZerosTo(s, i)
    BY DEF ZerosTo
  <2>2. IsFiniteSet(ZerosTo(s, i))
    BY ZerosFinite
  <2> QED BY <2>1, <2>2, FS_AddElement
<1>2. ZerosTo(s, i) \cup {j} \subseteq ZerosTo(s, j)
  BY DEF ZerosTo
<1>3. IsFiniteSet(ZerosTo(s, j)) /\ Cardinality(ZerosTo(s, j)) \in Nat
      /\ Cardinality(ZerosTo(s, i)) \in Nat
  BY ZerosFinite
<1>4. Cardinality(ZerosTo(s, i) \cup {j}) <= Cardinality(ZerosTo(s, j))
  BY <1>2, <1>3, FS_Subset
<1> QED BY <1>1, <1>3, <1>4

\* The zero byte that has k - 1 before it ends the k-th value.
LEMMA EndOfIs ==
  ASSUME NEW s \in Seq(Nat), NEW i \in 2..Len(s), s[i] = 0, NEW k \in Nat \ {0},
         Cardinality(ZerosTo(s, i)) = k
  PROVE  EndOf(s, k) = i /\ AtEnd(s, k)
<1>1. Len(s) \in Nat /\ i \in Nat /\ 2 <= i /\ i <= Len(s)
  OBVIOUS
<1>2. k <= Ended(s)
  BY <1>1, ZerosMonotonic DEF Ended
<1>3. EndOf(s, k) = CHOOSE n \in 2..Len(s) : s[n] = 0 /\ Cardinality(ZerosTo(s, n)) = k
  <2>1. k # 0 /\ ~(k > Ended(s))
    BY <1>2, EndedType
  <2> QED BY <2>1 DEF EndOf
<1>4. ASSUME NEW n \in 2..Len(s), s[n] = 0, Cardinality(ZerosTo(s, n)) = k
      PROVE  n = i
  <2>1. n \in Nat /\ 2 <= n
    BY <1>1
  <2>2. ~(i < n) /\ ~(n < i)
    BY <1>1, <1>4, <2>1, ZeroUnique
  <2> QED BY <1>1, <2>1, <2>2
<1>5. EndOf(s, k) = i
  BY <1>3, <1>4
<1> QED BY <1>1, <1>2, <1>5 DEF AtEnd

\* The next zero byte behind the end of a value ends the next one.
LEMMA NextEnd ==
  ASSUME NEW s \in Seq(Nat), NEW k \in Nat, AtEnd(s, k), NEW z \in Nat,
         EndOf(s, k) < z, z <= Len(s), s[z] = 0,
         \A j \in (EndOf(s, k) + 1)..(z - 1) : s[j] # 0
  PROVE  EndOf(s, k + 1) = z /\ AtEnd(s, k + 1)
<1>1. EndOf(s, k) \in Nat /\ 1 <= EndOf(s, k) /\ z \in 2..Len(s)
  BY DEF AtEnd
<1>2. Cardinality(ZerosTo(s, z)) = k + 1
  <2>1. PICK a \in Nat : a = EndOf(s, k)
    BY <1>1
  <2>2. Cardinality(ZerosTo(s, z)) = Cardinality(ZerosTo(s, a)) + 1
    BY <1>1, <2>1, NextZero
  <2> QED BY <2>1, <2>2 DEF AtEnd
<1> QED BY <1>1, <1>2, EndOfIs

\* Without a zero byte behind the end of a value, it was the last one ended.
LEMMA NoFurtherEnd ==
  ASSUME NEW s \in Seq(Nat), NEW k \in Nat, AtEnd(s, k),
         \A j \in (EndOf(s, k) + 1)..Len(s) : s[j] # 0
  PROVE  Ended(s) = k
<1>1. EndOf(s, k) \in Nat /\ 1 <= EndOf(s, k) /\ EndOf(s, k) <= Len(s) /\ Len(s) \in Nat
  BY DEF AtEnd
<1>2. Cardinality(ZerosTo(s, Len(s))) = k
  BY <1>1, NoZero DEF AtEnd
<1> QED BY <1>2 DEF Ended

\* The first value begins behind the code.
LEMMA FirstEnd ==
  ASSUME NEW s \in Seq(Nat), Len(s) # 0
  PROVE  EndOf(s, 0) = 1 /\ AtEnd(s, 0)
<1>1. ZerosTo(s, 1) = {}
  BY DEF ZerosTo
<1>2. Cardinality(ZerosTo(s, 1)) = 0
  BY <1>1, FS_EmptySet
<1>3. Ended(s) \in Nat /\ EndOf(s, 0) = 1
  BY EndedType DEF EndOf
<1> QED BY <1>2, <1>3 DEF AtEnd

\* What lies behind the first a bytes of s.
LEMMA RestOf ==
  ASSUME NEW S, NEW s \in Seq(S), NEW a \in Nat, a <= Len(s)
  PROVE  /\ SubSeq(s, a + 1, Len(s)) \in Seq(S) /\ Len(SubSeq(s, a + 1, Len(s))) = Len(s) - a
         /\ \A i \in 1..(Len(s) - a) : SubSeq(s, a + 1, Len(s))[i] = s[a + i]
<1>1. PICK n \in Nat : n = Len(s) - a /\ a + n = Len(s)
  OBVIOUS
<1>2. /\ SubSeq(s, a + 1, a + n) \in Seq(S) /\ Len(SubSeq(s, a + 1, a + n)) = n
      /\ \A i \in 1..n : SubSeq(s, a + 1, a + n)[i] = s[a + i]
  BY <1>1, PartOf
<1> QED BY <1>1, <1>2

LEMMA RestEmpty ==
  ASSUME NEW S, NEW s \in Seq(S), NEW a \in Nat, a >= Len(s)
  PROVE  SubSeq(s, a + 1, Len(s)) = << >>
BY SubSeqEmpty

\* Bytes that agree with those behind the first a of s are a beginning of them,
\* and are all of them when they are as many.
LEMMA PrefixOfRest ==
  ASSUME NEW S, NEW s \in Seq(S), NEW a \in Nat, NEW t \in Seq(S), a + Len(t) <= Len(s),
         \A i \in 1..Len(t) : t[i] = s[a + i]
  PROVE  /\ IsPrefix(t, SubSeq(s, a + 1, Len(s)))
         /\ a + Len(t) = Len(s) => t = SubSeq(s, a + 1, Len(s))
<1> DEFINE r == SubSeq(s, a + 1, Len(s))
           n == Len(t)
<1>1. n \in Nat /\ Len(s) \in Nat /\ a <= Len(s)
  OBVIOUS
<1>2. r \in Seq(S) /\ Len(r) = Len(s) - a /\ \A i \in 1..(Len(s) - a) : r[i] = s[a + i]
  BY <1>1, RestOf
<1> HIDE DEF r
<1>3. n \in Nat /\ a + n <= Len(s) /\ t \in Seq(S)
  OBVIOUS
<1>4. \A x, y, z \in Nat : x + y <= z =>
         z - x \in Nat /\ y <= z - x /\ (x + y = z => y = z - x)
  OBVIOUS
<1> HIDE DEF n
<1>5. n <= Len(r) /\ \A i \in 1..n : t[i] = r[i]
  <2>1. Len(s) - a \in Nat /\ n <= Len(s) - a
    BY <1>3, <1>1, <1>4
  <2>2. \A i \in 1..n : i \in 1..(Len(s) - a)
    BY <1>3, <2>1
  <2>3. \A i \in 1..n : t[i] = s[a + i]
    BY DEF n
  <2> QED BY <1>2, <2>1, <2>2, <2>3
<1>6. /\ SubSeq(r, 0 + 1, 0 + n) \in Seq(S) /\ Len(SubSeq(r, 0 + 1, 0 + n)) = n
      /\ \A i \in 1..n : SubSeq(r, 0 + 1, 0 + n)[i] = r[0 + i]
  BY <1>1, <1>2, <1>5, PartOf
<1>7. SubSeq(r, 1, n) = t
  <2>1. /\ SubSeq(r, 1, n) \in Seq(S) /\ Len(SubSeq(r, 1, n)) = n
        /\ \A i \in 1..n : SubSeq(r, 1, n)[i] = r[i]
    BY <1>3, <1>6
  <2>2. Len(SubSeq(r, 1, n)) = Len(t) /\ \A i \in 1..Len(t) : SubSeq(r, 1, n)[i] = t[i]
    BY <1>5, <2>1 DEF n
  <2> QED BY <1>3, <2>1, <2>2, SeqEqual
<1>8. SubSeq(t, 1, n) = t
  BY SubSeqFull DEF n
<1>9. IsPrefix(t, r)
  BY <1>5, <1>7, <1>8 DEF IsPrefix, n
<1>10. ASSUME a + Len(t) = Len(s) PROVE t = r
  <2>1. a + n = Len(s)
    BY <1>10 DEF n
  <2>2. n = Len(s) - a
    BY <1>3, <1>1, <1>4, <2>1
  <2>3. Len(t) = Len(r) /\ r \in Seq(S) /\ \A i \in 1..Len(t) : t[i] = r[i]
    BY <1>2, <1>5, <2>2 DEF n
  <2> QED BY <1>3, <2>3, SeqEqual
<1> QED BY <1>9, <1>10 DEF r


-----------------------------------------------------------------------------
(* What was loaded, against what was sent. *)

\* The end of the values loaded so far, and the bytes behind it.
start == EndOf(sent, Len(values))
rest  == SubSeq(sent, start + 1, Len(sent))

ValuesInv ==
  /\ \A k \in 1..Len(values) : values[k] = ValueOf(sent, k)
  /\ ~eof => Len(values) <= Ended(sent)

\* The value being loaded is what was taken behind the last one; at the end of
\* the stream, it is all there is.
PlaceInv ==
  /\ pc = "value" /\ ~fresh /\ ~eof =>
       /\ Held
       /\ AtEnd(sent, Len(values))
       /\ consumed = start + Len(buf)
       /\ \A i \in 1..Len(buf) : buf[i] = sent[start + i]
  /\ pc = "value" /\ ~fresh /\ eof =>
       /\ Ended(sent) <= Len(values)
       /\ buf = rest

size == Number(Last(values))

\* What copy() wrote is what it took behind the last value, and max is what is
\* missing of the size.
BodyPlaceInv ==
  /\ pc = "copy" /\ ~eof =>
       /\ Held
       /\ start \in 1..Len(sent)
       /\ consumed = start + Len(stored)
       /\ \A i \in 1..Len(stored) : stored[i] = sent[start + i]
  /\ pc = "copy" /\ eof => stored = rest
  /\ pc = "copy" => left = IF size < 0 \/ Len(stored) <= size THEN size - Len(stored) ELSE 0

StoredInv ==
  /\ pc \in {"copy", "copied"} \/ stored # << >> =>
       /\ IsPrefix(stored, rest)
       /\ size >= 0 => Len(stored) <= size + 1
  /\ pc \in {"copy", "blocked"} => answer # "OK"
  /\ answer = "OK" =>
       stored = rest \/ (Len(values) <= Ended(sent) /\ 0 <= size /\ size <= Len(stored))

ParsedInv == ValuesInv /\ PlaceInv /\ BodyPlaceInv /\ StoredInv

LEMMA SameRequest ==
  ASSUME UNCHANGED <<sent, values>>
  PROVE  start' = start /\ rest' = rest /\ size' = size
BY DEF start, rest, size

LEMMA NoBytes == Len(<< >>) = 0 /\ 1..0 = {}
OBVIOUS

\* What ReaderInv says of the bytes.
LEMMA ByteFacts ==
  ASSUME ReaderInv
  PROVE  /\ sent \in Seq(Nat) /\ sent \in Seq(Byte) /\ Len(sent) \in Nat
         /\ delivered \in Nat /\ delivered <= Len(sent)
         /\ cursor \in Nat /\ cursor <= Len(cache) /\ Len(cache) \in Nat
         /\ values \in Seq(Seq(Byte \ {0})) /\ values \in Seq(Seq(Byte)) /\ Len(values) \in Nat
         /\ buf \in Seq(Byte \ {0}) /\ buf \in Seq(Byte) /\ buf \in Seq(Nat) /\ Len(buf) \in Nat
         /\ \A i \in 1..Len(buf) : buf[i] # 0
         /\ Ended(sent) \in Nat
<1>1. Byte \subseteq Nat /\ Byte \ {0} \subseteq Byte /\ Byte \ {0} \subseteq Nat
  BY ByteAssumption
<1>2. /\ Seq(Byte) \subseteq Seq(Nat) /\ Seq(Byte \ {0}) \subseteq Seq(Byte)
      /\ Seq(Byte \ {0}) \subseteq Seq(Nat)
  BY <1>1, SeqMonotonic
<1>3. /\ sent \in Seq(Byte) /\ cache \in Seq(Byte) /\ values \in Seq(Seq(Byte \ {0}))
      /\ buf \in Seq(Byte \ {0}) /\ delivered \in 0..Len(sent) /\ cursor \in 0..cacheSize
      /\ cursor <= Len(cache)
  BY DEF ReaderInv, TypeOK, BufferInv
<1>4. sent \in Seq(Nat) /\ values \in Seq(Seq(Byte)) /\ buf \in Seq(Byte) /\ buf \in Seq(Nat)
  BY <1>2, <1>3, SeqMonotonic
<1>5. \A i \in 1..Len(buf) : buf[i] # 0
  <2>1. \A i \in 1..Len(buf) : buf[i] \in Byte \ {0}
    BY <1>3, ElementOfSeq
  <2> QED BY <2>1
<1>6. Len(sent) \in Nat /\ Len(cache) \in Nat /\ Len(values) \in Nat /\ Len(buf) \in Nat
  BY <1>3, LenProperties
<1>7. Ended(sent) \in Nat
  BY <1>4, EndedType
<1>8. delivered \in Nat /\ delivered <= Len(sent) /\ cursor \in Nat
  BY <1>3, <1>6, CacheAssumption
<1> QED BY <1>3, <1>4, <1>5, <1>6, <1>7, <1>8

LEMMA InitParsed == Init => ParsedInv
<1> SUFFICES ASSUME Init PROVE ParsedInv
  OBVIOUS
<1>1. /\ ReaderInv /\ pc = "code" /\ values = << >> /\ answer = "none" /\ Len(values) = 0
      /\ stored = << >>
  BY InitReader DEF Init
<1>2. Ended(sent) \in Nat
  BY <1>1, ByteFacts
<1> QED BY <1>1, <1>2, NoBytes DEF ParsedInv, ValuesInv, PlaceInv, BodyPlaceInv, StoredInv

\* The code is the first byte, and the first value begins behind it.
LEMMA GetRequestParsed ==
  ASSUME ReaderInv, ParsedInv, GetRequest, ReaderInv'
  PROVE  ParsedInv'
<1>1. /\ pc = "code" /\ values = << >> /\ buf = << >> /\ answer = "none" /\ delivered = 0
      /\ stored = << >> /\ UNCHANGED <<sent, values, buf, stored, answer>> /\ TypeOK
  BY DEF ReaderInv, GetRequest, RequestInv, BufferInv, body
<1>2. pc' \in {"unknown", "value", "exec"}
  BY DEF GetRequest, Dispatch
<1>3. values' = << >> /\ Len(values') = 0 /\ Len(buf') = 0 /\ buf' = << >>
  BY <1>1
<1>4. ValuesInv'
  BY <1>1, <1>3, ByteFacts, NoBytes DEF ValuesInv
<1>5. BodyPlaceInv' /\ StoredInv'
  BY <1>1, <1>2 DEF BodyPlaceInv, StoredInv
<1>6. PlaceInv'
  <2>1. ASSUME NEW n \in 1..cacheSize, LoadsBytes(n, 1)
        PROVE  /\ ~eof' /\ Held' /\ AtEnd(sent', Len(values'))
               /\ consumed' = start' + Len(buf')
    <3>1. 1 \in 0..n /\ n \in Nat /\ 1 <= n
      BY CacheAssumption
    <3>2. Held' /\ consumed' = 0 + 1
      BY <1>1, <2>1, <3>1, LoadHolds
    <3>3. ~eof /\ eof' = eof /\ 0 + n <= Len(sent)
      BY <1>1, <2>1 DEF LoadsBytes, ReaderInv, BufferInv
    <3>4. Len(sent) # 0
      BY <3>1, <3>3, ByteFacts
    <3>5. EndOf(sent, 0) = 1 /\ AtEnd(sent, 0)
      BY <3>4, ByteFacts, FirstEnd
    <3> QED BY <1>1, <1>3, <3>2, <3>3, <3>5 DEF start
  <2>2. ASSUME LoadsEof
        PROVE  eof' /\ Ended(sent') <= Len(values') /\ buf' = rest'
    <3>1. Len(sent) = 0 /\ eof'
      BY <1>1, <2>2 DEF LoadsEof
    <3>2. Ended(sent) = 0
      <4>1. ZerosTo(sent, 0) = {}
        BY DEF ZerosTo
      <4> QED BY <3>1, <4>1, FS_EmptySet DEF Ended
    <3>3. start' = 1
      BY <1>3 DEF start, EndOf
    <3>4. SubSeq(sent, 1 + 1, Len(sent)) = << >>
      <4>1. 1 \in Nat /\ 1 >= Len(sent)
        BY <3>1
      <4> QED BY <4>1, ByteFacts, RestEmpty
    <3> QED BY <1>1, <1>3, <3>1, <3>2, <3>3, <3>4 DEF rest
  <2>3. ASSUME LoadFails PROVE fresh'
    BY <1>1, <2>3 DEF LoadFails, ReaderInv, BufferInv
  <2>4. CASE \E n \in 1..cacheSize : LoadsBytes(n, 1)
    BY <1>3, <2>1, <2>4, NoBytes DEF PlaceInv
  <2>5. CASE LoadsEof
    BY <2>2, <2>5 DEF PlaceInv
  <2>6. CASE LoadFails
    BY <2>3, <2>6 DEF PlaceInv
  <2> QED BY <2>4, <2>5, <2>6 DEF GetRequest
<1> QED BY <1>4, <1>5, <1>6 DEF ParsedInv


\* The byte under the cursor is the one behind those that were taken.
LEMMA NextByte ==
  ASSUME ReaderInv, Held, ~end_of_buffer
  PROVE  /\ cursor + 1 \in 1..Len(cache)
         /\ consumed \in Nat /\ consumed + 1 <= Len(sent)
         /\ (delivered - Len(cache)) + (cursor + 1) = consumed + 1
         /\ cache[cursor + 1] = sent[consumed + 1]
<1>1. \A d, l, c, e \in Nat : c <= l /\ c # l /\ l <= d /\ d <= e =>
        /\ c + 1 \in 1..l /\ (d - l) + c \in Nat /\ ((d - l) + c) + 1 <= e
        /\ (d - l) + (c + 1) = ((d - l) + c) + 1
  OBVIOUS
<1>2. /\ cursor \in Nat /\ Len(cache) \in Nat /\ delivered \in Nat /\ Len(sent) \in Nat
      /\ cursor <= Len(cache) /\ cursor # Len(cache) /\ delivered <= Len(sent)
      /\ Len(cache) <= delivered
  BY ByteFacts DEF end_of_buffer, Held
<1>3. /\ cursor + 1 \in 1..Len(cache)
      /\ consumed \in Nat /\ consumed + 1 <= Len(sent)
      /\ (delivered - Len(cache)) + (cursor + 1) = consumed + 1
  BY <1>1, <1>2 DEF consumed
<1>4. cache[cursor + 1] = sent[(delivered - Len(cache)) + (cursor + 1)]
  BY <1>3 DEF Held
<1> QED BY <1>3, <1>4

\* The end of a value, when the byte behind it is zero: it is the value the
\* client meant, and the next one begins behind that byte.
LEMMA EndedValueParsed ==
  ASSUME ReaderInv, ParsedInv, ReaderInv',
         pc = "value", ~fresh, ~eof, ~end_of_buffer, cache[cursor + 1] = 0,
         cursor' = cursor + 1, EndValue, UNCHANGED <<sent, delivered, cache, fresh, eof>>
  PROVE  ParsedInv'
<1> DEFINE z == consumed + 1
           k == Len(values)
<1>1. /\ Held /\ AtEnd(sent, k) /\ consumed = start + Len(buf)
      /\ \A i \in 1..Len(buf) : buf[i] = sent[start + i]
      /\ stored = << >> /\ answer = "none"
  BY DEF ParsedInv, PlaceInv, ReaderInv, RequestInv
<1>2. start \in Nat /\ 1 <= start /\ start = EndOf(sent, k)
  BY <1>1 DEF AtEnd, start
<1>3. z \in Nat /\ start < z /\ z <= Len(sent) /\ sent[z] = 0 /\ z - 1 = start + Len(buf)
  <2>1. consumed \in Nat /\ consumed + 1 <= Len(sent) /\ sent[consumed + 1] = 0
    BY <1>1, NextByte
  <2>2. \A x, y, w \in Nat : w = x + y => x < w + 1 /\ (w + 1) - 1 = x + y /\ w + 1 \in Nat
    OBVIOUS
  <2>3. Len(buf) \in Nat
    BY ByteFacts
  <2> QED BY <1>1, <1>2, <2>1, <2>2, <2>3
<1> HIDE DEF z
<1>4. \A j \in (start + 1)..(z - 1) : sent[j] # 0
  <2>1. \A x, y \in Nat : \A j \in (x + 1)..(x + y) : j - x \in 1..y /\ x + (j - x) = j
    OBVIOUS
  <2>2. Len(buf) \in Nat /\ \A i \in 1..Len(buf) : buf[i] # 0
    BY ByteFacts
  <2>3. \A j \in (start + 1)..(start + Len(buf)) :
          j - start \in 1..Len(buf) /\ start + (j - start) = j
    BY <1>2, <2>1, <2>2
  <2>4. \A j \in (start + 1)..(start + Len(buf)) : sent[j] # 0
    <3> TAKE j \in (start + 1)..(start + Len(buf))
    <3>1. buf[j - start] = sent[start + (j - start)]
      BY <1>1, <2>3
    <3> QED BY <2>2, <2>3, <3>1
  <2> QED BY <1>3, <2>4
<1>5. k \in Nat /\ sent \in Seq(Nat) /\ buf \in Seq(Nat)
  BY ByteFacts
<1>6. EndOf(sent, k + 1) = z /\ AtEnd(sent, k + 1)
  BY <1>1, <1>2, <1>3, <1>4, <1>5, NextEnd
<1>7. ValueOf(sent, k + 1) = buf
  <2>1. PICK n \in Nat : n = Len(buf) /\ start + n <= Len(sent) /\ z - 1 = start + n
    BY <1>2, <1>3, ByteFacts
  <2>2. ValueOf(sent, k + 1) = SubSeq(sent, start + 1, start + n)
    <3>1. (k + 1) - 1 = k
      BY <1>5
    <3> QED BY <1>2, <1>6, <2>1, <3>1 DEF ValueOf
  <2>3. /\ SubSeq(sent, start + 1, start + n) \in Seq(Nat)
        /\ Len(SubSeq(sent, start + 1, start + n)) = n
        /\ \A i \in 1..n : SubSeq(sent, start + 1, start + n)[i] = sent[start + i]
    <3> HIDE DEF k
    <3>1. start + n <= Len(sent) /\ start \in Nat /\ n \in Nat /\ sent \in Seq(Nat)
      BY <1>2, <1>5, <2>1
    <3> QED BY <3>1, PartOf
  <2> QED BY <1>1, <1>5, <2>1, <2>2, <2>3, SeqEqual
<1>8. /\ Len(values') = k + 1 /\ values'[k + 1] = buf /\ \A i \in 1..k : values'[i] = values[i]
      /\ Last(values') = buf /\ buf' = << >> /\ stored' = << >> /\ answer' = "none"
  <2>1. values' = Append(values, buf) /\ buf' = << >> /\ UNCHANGED <<stored, answer>>
    BY DEF EndValue
  <2>2. /\ Len(values') = k + 1 /\ values'[k + 1] = buf
        /\ \A i \in 1..k : values'[i] = values[i]
    BY <2>1, ByteFacts, AppendProperties
  <2> QED BY <1>1, <2>1, <2>2 DEF Last
<1>9. ValuesInv'
  <2>1. ASSUME NEW i \in 1..(k + 1) PROVE values'[i] = ValueOf(sent, i)
    <3>1. CASE i \in 1..k
      BY <1>8, <3>1 DEF ParsedInv, ValuesInv
    <3>2. CASE i = k + 1
      BY <1>7, <1>8, <3>2
    <3> QED BY <1>5, <3>1, <3>2
  <2> QED BY <1>6, <1>8, <2>1 DEF ValuesInv, AtEnd
<1>10. start' = z /\ consumed' = z /\ Held'
  <2>1. consumed' = z
    <3>1. consumed' = (delivered - Len(cache)) + (cursor + 1)
      BY DEF consumed
    <3> QED BY <3>1, ByteFacts DEF consumed, z
  <2> QED BY <1>1, <1>6, <1>8, <2>1 DEF start, Held
<1>11. pc' \in {"value", "copy", "exec"} /\ (pc' = "copy" => left' = Number(buf))
  BY DEF EndValue
<1>12. PlaceInv'
  BY <1>3, <1>6, <1>8, <1>10, NoBytes DEF PlaceInv
<1>13. size' = Number(buf) /\ size' \in Int
  BY <1>5, <1>8, NumberType DEF size
<1>14. BodyPlaceInv'
  <2>1. start' \in 1..Len(sent')
    BY <1>2, <1>3, <1>10
  <2>2. pc' = "copy" => left' = IF size' < 0 \/ Len(stored') <= size'
                                THEN size' - Len(stored') ELSE 0
    BY <1>8, <1>11, <1>13, NoBytes
  <2> QED BY <1>3, <1>8, <1>10, <2>1, <2>2, NoBytes DEF BodyPlaceInv
<1>15. StoredInv'
  <2>1. IsPrefix(<< >>, SubSeq(sent, z + 1, Len(sent)))
    <3>1. << >> \in Seq(Nat) /\ z + Len(<< >>) <= Len(sent)
      BY <1>3, NoBytes
    <3> QED BY <1>3, <1>5, <3>1, NoBytes, PrefixOfRest
  <2>2. rest' = SubSeq(sent, z + 1, Len(sent))
    BY <1>10 DEF rest
  <2> QED BY <1>8, <1>13, <2>1, <2>2, NoBytes DEF StoredInv
<1> QED BY <1>9, <1>12, <1>14, <1>15 DEF ParsedInv

\* The end of the stream makes a value of what is left.
LEMMA ValueAtEofParsed ==
  ASSUME ReaderInv, ParsedInv, ReaderInv', ValueAtEof
  PROVE  ParsedInv'
<1> DEFINE k == Len(values)
           e == Len(sent)
<1>1. /\ pc = "value" /\ eof /\ EndValue /\ UNCHANGED <<sent, fresh, eof>> /\ ~fresh
      /\ Ended(sent) <= k /\ buf = rest /\ stored = << >> /\ answer = "none"
  BY DEF ValueAtEof, fd, ReaderInv, BufferInv, RequestInv, ParsedInv, PlaceInv
<1>2. k \in Nat /\ e \in Nat /\ Ended(sent) \in Nat /\ sent \in Seq(Nat) /\ buf \in Seq(Nat)
  BY ByteFacts
<1>3. EndOf(sent, k + 1) = e + 1
  BY <1>1, <1>2 DEF EndOf
<1>4. ValueOf(sent, k + 1) = buf
  <2>1. (k + 1) - 1 = k /\ (e + 1) - 1 = e
    BY <1>2
  <2> QED BY <1>1, <1>3, <2>1 DEF ValueOf, rest, start
<1>5. /\ Len(values') = k + 1 /\ values'[k + 1] = buf /\ \A i \in 1..k : values'[i] = values[i]
      /\ Last(values') = buf /\ buf' = << >> /\ stored' = << >> /\ answer' = "none"
  <2>1. values' = Append(values, buf) /\ buf' = << >> /\ UNCHANGED <<stored, answer>>
    BY <1>1 DEF EndValue
  <2>2. /\ Len(values') = k + 1 /\ values'[k + 1] = buf
        /\ \A i \in 1..k : values'[i] = values[i]
    BY <2>1, ByteFacts, AppendProperties
  <2> QED BY <1>1, <2>1, <2>2 DEF Last
<1>6. ValuesInv'
  <2>1. ASSUME NEW i \in 1..(k + 1) PROVE values'[i] = ValueOf(sent, i)
    <3>1. CASE i \in 1..k
      BY <1>5, <3>1 DEF ParsedInv, ValuesInv
    <3>2. CASE i = k + 1
      BY <1>4, <1>5, <3>2
    <3> QED BY <1>2, <3>1, <3>2
  <2> QED BY <1>1, <1>5, <2>1 DEF ValuesInv
<1>7. rest' = << >>
  <2>1. e + 1 >= e /\ e + 1 \in Nat
    BY <1>2
  <2>2. start' = e + 1
    BY <1>1, <1>3, <1>5 DEF start
  <2>3. SubSeq(sent, (e + 1) + 1, Len(sent)) = << >>
    BY <1>2, <2>1, RestEmpty
  <2> QED BY <1>1, <2>2, <2>3 DEF rest
<1>8. PlaceInv'
  <2>1. Ended(sent) <= k + 1
    BY <1>1, <1>2
  <2> QED BY <1>1, <1>5, <1>7, <2>1 DEF PlaceInv
<1>9. size' = Number(buf) /\ size' \in Int
  BY <1>2, <1>5, NumberType DEF size
<1>10. pc' = "copy" => left' = Number(buf)
  BY <1>1 DEF EndValue
<1>11. BodyPlaceInv'
  BY <1>1, <1>5, <1>7, <1>9, <1>10, NoBytes DEF BodyPlaceInv
<1>12. StoredInv'
  <2>1. IsPrefix(<< >>, << >>)
    BY DEF IsPrefix
  <2> QED BY <1>5, <1>7, <1>9, <2>1, NoBytes DEF StoredInv
<1> QED BY <1>6, <1>8, <1>11, <1>12 DEF ParsedInv

\* More bytes come, or the stream ends and the value is what was taken of it.
LEMMA LoadMoreParsed ==
  ASSUME ReaderInv, ParsedInv, ReaderInv', LoadMore
  PROVE  ParsedInv'
<1>1. /\ pc = "value" /\ ~eof /\ cursor = Len(cache) /\ sent' = sent /\ TypeOK
      /\ stored = << >> /\ answer = "none" /\ ~fresh
  <2>1. /\ pc = "value" /\ ~eof /\ cursor = Len(cache) /\ sent' = sent /\ TypeOK
        /\ stored = << >> /\ answer = "none"
    BY DEF LoadMore, end_of_buffer, ReaderInv, RequestInv
  <2>2. fresh => Len(cache) = cacheSize /\ cursor = 0
    BY <2>1 DEF ReaderInv, BufferInv
  <2> QED BY <2>1, <2>2, CacheAssumption
<1>2. /\ Held /\ AtEnd(sent, Len(values)) /\ consumed = start + Len(buf)
      /\ \A i \in 1..Len(buf) : buf[i] = sent[start + i]
  BY <1>1 DEF ParsedInv, PlaceInv
<1>3. consumed = delivered
  BY <1>1, ByteFacts DEF consumed
<1>4. start \in Nat /\ start <= Len(sent)
  BY <1>2 DEF AtEnd, start
<1>5. values' = values /\ stored' = << >> /\ answer' = "none" /\ pc' \in {"value", "failed"}
  BY <1>1 DEF LoadMore, Fail, body
<1>6. start' = start /\ rest' = rest /\ size' = size
  BY <1>1, <1>5, SameRequest
<1>7. ValuesInv'
  <2>1. eof => eof'
    BY <1>1
  <2> QED BY <1>1, <1>5, <2>1 DEF ParsedInv, ValuesInv
<1>8. BodyPlaceInv' /\ StoredInv'
  BY <1>5 DEF BodyPlaceInv, StoredInv
<1>9. PlaceInv'
  <2>1. ASSUME NEW n \in 1..cacheSize, LoadsBytes(n, 0), UNCHANGED <<pc, values, buf>>
        PROVE  PlaceInv'
    <3>1. 0 \in 0..n
      BY CacheAssumption
    <3>2. Held' /\ consumed' = delivered + 0
      BY <1>1, <2>1, <3>1, LoadHolds
    <3>3. consumed' = consumed /\ ~eof'
      BY <1>1, <1>3, <2>1, <3>2, ByteFacts DEF LoadsBytes
    <3> QED BY <1>1, <1>2, <1>6, <2>1, <3>2, <3>3 DEF PlaceInv
  <2>2. ASSUME LoadsEof, UNCHANGED <<pc, values, buf>>
        PROVE  PlaceInv'
    <3>1. delivered = Len(sent) /\ eof'
      BY <2>2 DEF LoadsEof
    <3>2. start + Len(buf) = Len(sent)
      BY <1>2, <1>3, <3>1
    <3>3. buf = rest
      <4>1. start + Len(buf) <= Len(sent)
        BY <3>2, ByteFacts
      <4> QED BY <1>2, <1>4, <3>2, <4>1, ByteFacts, PrefixOfRest DEF rest
    <3>4. Ended(sent) = Len(values)
      <4>1. \A j \in (start + 1)..Len(sent) : sent[j] # 0
        <5> TAKE j \in (start + 1)..Len(sent)
        <5>1. j - start \in 1..Len(buf) /\ start + (j - start) = j
          BY <1>4, <3>2, ByteFacts
        <5> QED BY <1>2, <5>1, ByteFacts
      <4> QED BY <1>2, <4>1, ByteFacts, NoFurtherEnd DEF start
    <3>5. Ended(sent') <= Len(values')
      BY <1>1, <1>5, <3>4, ByteFacts
    <3> QED BY <1>6, <2>2, <3>1, <3>3, <3>5 DEF PlaceInv
  <2>3. CASE pc' = "failed"
    BY <2>3 DEF PlaceInv
  <2> QED BY <1>1, <2>1, <2>2, <2>3 DEF LoadMore, Fail
<1> QED BY <1>7, <1>8, <1>9 DEF ParsedInv

\* A byte becomes part of the value, ends it, or is one too many.
LEMMA TakeByteParsed ==
  ASSUME ReaderInv, ParsedInv, ReaderInv', TakeByte
  PROVE  ParsedInv'
<1>1. /\ pc = "value" /\ ~eof /\ ~end_of_buffer
      /\ UNCHANGED <<sent, delivered, cache, fresh, eof, code>>
      /\ stored = << >> /\ answer = "none"
  BY DEF TakeByte, ReaderInv, RequestInv
<1>2. ASSUME UNCHANGED <<values, stored, answer>>, pc' \in {"crashed", "failed"}
      PROVE  ParsedInv'
  BY <1>1, <1>2 DEF ParsedInv, ValuesInv, PlaceInv, BodyPlaceInv, StoredInv
<1>3. CASE fresh
  <2>1. UNCHANGED <<values, stored, answer>> /\ pc' = "crashed"
    BY <1>3 DEF TakeByte, body
  <2> QED BY <1>2, <2>1
<1>4. CASE ~fresh /\ TooLong /\ Fail("CUSTOM_ERR", TRUE)
  <2>1. UNCHANGED <<values, stored, answer>> /\ pc' = "failed"
    BY <1>4 DEF Fail, body
  <2> QED BY <1>2, <2>1
<1>5. CASE ~fresh /\ cursor' = cursor + 1 /\ cache[cursor + 1] = 0 /\ EndValue
  BY <1>1, <1>5, EndedValueParsed
<1>6. CASE /\ ~fresh /\ cursor' = cursor + 1 /\ cache[cursor + 1] # 0
           /\ buf' = Append(buf, cache[cursor + 1])
           /\ UNCHANGED <<pc, values, body>>
  <2>1. UNCHANGED <<pc, values, stored, answer>>
    BY <1>6 DEF body
  <2>2. /\ Held /\ AtEnd(sent, Len(values)) /\ consumed = start + Len(buf)
        /\ \A i \in 1..Len(buf) : buf[i] = sent[start + i]
    BY <1>1, <1>6 DEF ParsedInv, PlaceInv
  <2>3. start' = start /\ rest' = rest /\ size' = size
    BY <1>1, <2>1, SameRequest
  <2>4. start \in Nat
    BY <2>2 DEF AtEnd, start
  <2>5. /\ Len(buf') = Len(buf) + 1 /\ buf'[Len(buf) + 1] = cache[cursor + 1]
        /\ \A i \in 1..Len(buf) : buf'[i] = buf[i]
    <3>1. cache[cursor + 1] \in Byte
      <4>1. cursor + 1 \in 1..Len(cache)
        BY <1>1, ByteFacts DEF end_of_buffer
      <4> QED BY <4>1, ElementOfSeq DEF ReaderInv, TypeOK
    <3> QED BY <1>6, <3>1, ByteFacts, AppendProperties
  <2>6. /\ consumed \in Nat /\ cache[cursor + 1] = sent[consumed + 1]
        /\ (delivered - Len(cache)) + (cursor + 1) = consumed + 1
    BY <1>1, <2>2, NextByte
  <2>7. consumed + 1 = start + (Len(buf) + 1)
    <3>1. \A x, y, w \in Nat : w = x + y => w + 1 = x + (y + 1)
      OBVIOUS
    <3> QED BY <2>2, <2>4, <2>6, <3>1, ByteFacts
  <2>8. cache[cursor + 1] = sent[start + (Len(buf) + 1)]
    BY <2>6, <2>7
  <2>9. consumed' = start + Len(buf')
    <3>1. consumed' = (delivered - Len(cache)) + (cursor + 1)
      BY <1>1, <1>6 DEF consumed
    <3> QED BY <2>5, <2>6, <2>7, <3>1
  <2>10. \A i \in 1..Len(buf') : buf'[i] = sent[start + i]
    <3>1. \A n \in Nat : \A i \in 1..(n + 1) : i \in 1..n \/ i = n + 1
      OBVIOUS
    <3>2. Len(buf) \in Nat
      BY ByteFacts
    <3> QED BY <2>2, <2>5, <2>8, <3>1, <3>2
  <2>11. Held'
    BY <1>1, <2>2 DEF Held
  <2>12. PlaceInv'
    BY <1>1, <1>6, <2>1, <2>2, <2>3, <2>9, <2>10, <2>11 DEF PlaceInv
  <2>13. ValuesInv' /\ BodyPlaceInv' /\ StoredInv'
    BY <1>1, <2>1 DEF ParsedInv, ValuesInv, BodyPlaceInv, StoredInv
  <2> QED BY <2>12, <2>13 DEF ParsedInv
<1> QED BY <1>3, <1>4, <1>5, <1>6 DEF TakeByte


\* The size of an upload is a number.
LEMMA SizeType ==
  ASSUME ReaderInv, pc \in {"copy", "copied"}
  PROVE  size \in Int
<1>1. values # << >> /\ values \in Seq(Seq(Byte \ {0}))
  BY ByteFacts DEF ReaderInv, RequestInv
<1>2. Len(values) \in 1..Len(values)
  BY <1>1
<1>3. values[Len(values)] \in Seq(Byte \ {0})
  BY <1>1, <1>2, ElementOfSeq
<1>4. Seq(Byte \ {0}) \subseteq Seq(Nat)
  <2>1. Byte \ {0} \subseteq Nat
    BY ByteAssumption
  <2> QED BY <2>1, SeqMonotonic
<1> QED BY <1>3, <1>4, NumberType DEF size, Last

\* What out() does not write leaves the spool file as it is; what it writes goes
\* behind what is there, and one byte beyond the size at most.
LEMMA CopyRoundParsed ==
  ASSUME ReaderInv, ParsedInv, ReaderInv', CopyRound
  PROVE  ParsedInv'
<1>1. /\ pc = "copy" /\ ~eof /\ left # 0 /\ UNCHANGED <<sent, values, buf>>
      /\ BodyTyped
  BY TypeSplit DEF CopyRound, ReaderInv
<1>2. /\ Held /\ start \in 1..Len(sent) /\ consumed = start + Len(stored)
      /\ \A i \in 1..Len(stored) : stored[i] = sent[start + i]
      /\ left = IF size < 0 \/ Len(stored) <= size THEN size - Len(stored) ELSE 0
      /\ IsPrefix(stored, rest) /\ (size >= 0 => Len(stored) <= size + 1)
  BY <1>1 DEF ParsedInv, BodyPlaceInv, StoredInv
<1>3. start' = start /\ rest' = rest /\ size' = size
  BY <1>1, SameRequest
<1>4. /\ start \in Nat /\ stored \in Seq(Byte) /\ Len(stored) \in Nat /\ left \in Int
      /\ Len(sent) \in Nat /\ sent \in Seq(Byte)
  BY <1>1, <1>2, ByteFacts DEF BodyTyped
<1>6. size \in Int
  BY <1>1, SizeType
<1>7. ValuesInv /\ Len(values) <= Ended(sent)
  BY <1>1 DEF ParsedInv, ValuesInv
<1>8. ValuesInv'
  BY <1>1, <1>7 DEF ValuesInv
<1>9. ASSUME pc' = "copied", answer' # "OK", UNCHANGED stored
      PROVE  ParsedInv'
  <2>1. PlaceInv' /\ BodyPlaceInv'
    BY <1>9 DEF PlaceInv, BodyPlaceInv
  <2>2. StoredInv'
    BY <1>2, <1>3, <1>9 DEF StoredInv
  <2> QED BY <1>8, <2>1, <2>2 DEF ParsedInv
<1>10. CASE pc' = "copied" /\ answer' \in Error /\ UNCHANGED <<left, stored>>
  BY <1>9, <1>10 DEF Error
<1>11. ASSUME NEW bytes \in Seq(Byte), Out(bytes), left >= 0 => Len(bytes) <= left + 1,
              (eof' /\ bytes = << >> /\ consumed' = Len(sent)) \/ eof' = eof,
              Held', consumed' = consumed + Len(bytes),
              \A i \in 1..Len(bytes) : bytes[i] = sent[consumed + i]
       PROVE  ParsedInv'
  <2>1. /\ pc' \in {"copy", "copied"}
        /\ pc' = "copy" => /\ stored' = stored \o bytes /\ answer' = answer
                           /\ left' = IF left < 0 \/ Len(bytes) <= left
                                      THEN left - Len(bytes) ELSE 0
        /\ pc' = "copied" => stored' = stored /\ answer' = "COPY_STREAM_ERR"
    BY <1>1, <1>11, OutTypes
  <2>2. CASE pc' = "copied"
    BY <1>9, <2>1, <2>2
  <2>3. CASE pc' = "copy"
    <3>1. /\ stored' \in Seq(Byte) /\ Len(stored') = Len(stored) + Len(bytes)
          /\ \A i \in 1..Len(stored) : stored'[i] = stored[i]
          /\ \A i \in 1..Len(bytes) : stored'[Len(stored) + i] = bytes[i]
      <4>1. stored' = stored \o bytes
        BY <2>1, <2>3
      <4>2. /\ stored \o bytes \in Seq(Byte) /\ Len(stored \o bytes) = Len(stored) + Len(bytes)
            /\ \A i \in 1..(Len(stored) + Len(bytes)) :
                 (stored \o bytes)[i] = IF i <= Len(stored) THEN stored[i]
                                        ELSE bytes[i - Len(stored)]
        BY <1>4, ConcatProperties
      <4>3. \A m, n \in Nat :
              /\ \A i \in 1..m : i \in 1..(m + n) /\ i <= m
              /\ \A i \in 1..n : m + i \in 1..(m + n) /\ ~(m + i <= m) /\ (m + i) - m = i
        OBVIOUS
      <4>4. Len(stored) \in Nat /\ Len(bytes) \in Nat
        BY <1>4
      <4> QED BY <4>1, <4>2, <4>3, <4>4
    <3>2. consumed' = start + Len(stored')
      <4>1. \A x, y, z \in Nat : (x + y) + z = x + (y + z)
        OBVIOUS
      <4>2. Len(bytes) \in Nat
        OBVIOUS
      <4> QED BY <1>2, <1>4, <1>11, <3>1, <4>1, <4>2
    <3>3. \A i \in 1..Len(stored') : stored'[i] = sent[start + i]
      <4>1. \A m, n \in Nat : \A i \in 1..(m + n) :
              i \in 1..m \/ \E j \in 1..n : i = m + j
        <5> TAKE m, n \in Nat
        <5> TAKE i \in 1..(m + n)
        <5>1. CASE i <= m
          BY <5>1
        <5>2. CASE i > m
          <6>1. i - m \in 1..n /\ i = m + (i - m)
            BY <5>2
          <6> QED BY <6>1
        <5> QED BY <5>1, <5>2
      <4>2. Len(bytes) \in Nat /\ Len(stored) \in Nat
        BY <1>4
      <4>3. ASSUME NEW j \in 1..Len(bytes)
            PROVE  stored'[Len(stored) + j] = sent[start + (Len(stored) + j)]
        <5>1. bytes[j] = sent[(start + Len(stored)) + j]
          BY <1>2, <1>11
        <5>2. (start + Len(stored)) + j = start + (Len(stored) + j)
          BY <1>4, <4>2
        <5> QED BY <3>1, <5>1, <5>2
      <4>4. \A i \in 1..Len(stored) : stored'[i] = sent[start + i]
        BY <1>2, <3>1
      <4>5. \A i \in 1..(Len(stored) + Len(bytes)) : stored'[i] = sent[start + i]
        <5> TAKE i \in 1..(Len(stored) + Len(bytes))
        <5>1. i \in 1..Len(stored) \/ \E j \in 1..Len(bytes) : i = Len(stored) + j
          BY <4>1, <4>2
        <5> QED BY <4>3, <4>4, <5>1
      <4> QED BY <3>1, <4>5
    <3>4. start + Len(stored') <= Len(sent)
      <4>1. /\ cursor' \in Nat /\ Len(cache') \in Nat /\ cursor' <= Len(cache')
            /\ delivered' \in Nat /\ delivered' <= Len(sent') /\ Len(cache') <= delivered'
        <5>1. /\ cursor' \in Nat /\ Len(cache') \in Nat /\ cursor' <= Len(cache')
              /\ delivered' \in Nat /\ delivered' <= Len(sent')
          <6>1. /\ sent' \in Seq(Byte) /\ cache' \in Seq(Byte) /\ delivered' \in 0..Len(sent')
                /\ cursor' \in 0..cacheSize /\ cursor' <= Len(cache')
            BY DEF ReaderInv, TypeOK, BufferInv
          <6>2. Len(sent') \in Nat /\ Len(cache') \in Nat
            BY <6>1, LenProperties
          <6> QED BY <6>1, <6>2, CacheAssumption
        <5> QED BY <1>11, <5>1 DEF Held
      <4>2. \A d, l, c \in Nat : c <= l /\ l <= d => (d - l) + c <= d /\ (d - l) + c \in Nat
        OBVIOUS
      <4>3. consumed' <= delivered' /\ consumed' \in Nat
        BY <4>1, <4>2 DEF consumed
      <4>4. \A x, y, w \in Nat : x <= y /\ y <= w => x <= w
        OBVIOUS
      <4> QED BY <1>1, <1>4, <3>2, <4>1, <4>3, <4>4
    <3>5. IsPrefix(stored', rest)
      BY <1>4, <3>1, <3>3, <3>4, PrefixOfRest DEF rest
    <3>6. /\ left' = IF size < 0 \/ Len(stored') <= size THEN size - Len(stored') ELSE 0
          /\ size >= 0 => Len(stored') <= size + 1
      <4>1. \A s, b \in Nat : \A n, l \in Int :
              /\ l = (IF n < 0 \/ s <= n THEN n - s ELSE 0) /\ l # 0
              /\ l >= 0 => b <= l + 1
              => /\ (IF l < 0 \/ b <= l THEN l - b ELSE 0)
                      = (IF n < 0 \/ s + b <= n THEN n - (s + b) ELSE 0)
                 /\ n >= 0 => s + b <= n + 1
        OBVIOUS
      <4>2. Len(bytes) \in Nat
        OBVIOUS
      <4>3. /\ (IF left < 0 \/ Len(bytes) <= left THEN left - Len(bytes) ELSE 0)
                 = (IF size < 0 \/ Len(stored) + Len(bytes) <= size
                    THEN size - (Len(stored) + Len(bytes)) ELSE 0)
            /\ size >= 0 => Len(stored) + Len(bytes) <= size + 1
        BY <1>1, <1>2, <1>4, <1>6, <1>11, <4>1, <4>2
      <4> QED BY <2>1, <2>3, <3>1, <4>3
    <3>7. answer' # "OK"
      BY <1>1, <2>1, <2>3 DEF ParsedInv, StoredInv
    <3>8. ASSUME eof' PROVE stored' = rest
      <4>1. consumed' = Len(sent)
        BY <1>1, <1>11, <3>8
      <4>2. start + Len(stored') = Len(sent)
        BY <3>2, <4>1
      <4> QED BY <1>4, <3>1, <3>3, <3>4, <4>2, PrefixOfRest DEF rest
    <3>9. PlaceInv' /\ StoredInv'
      BY <1>3, <2>3, <3>5, <3>6, <3>7 DEF PlaceInv, StoredInv
    <3>10. start' \in 1..Len(sent')
      BY <1>1, <1>2, <1>3
    <3>11. BodyPlaceInv'
      BY <1>1, <1>3, <1>11, <3>2, <3>3, <3>6, <3>8, <3>10 DEF BodyPlaceInv
    <3> QED BY <1>8, <3>9, <3>11 DEF ParsedInv
  <2> QED BY <2>1, <2>2, <2>3
<1> QED BY <1>2, <1>10, <1>11, CopyRoundTakes


\* copy() ends at the end of the stream, with all that came, or when max is zero,
\* with as much as the size said.
LEMMA CopyEndsParsed ==
  ASSUME ReaderInv, ParsedInv, CopyEnds
  PROVE  ParsedInv'
<1>1. /\ pc = "copy" /\ pc' = "copied"
      /\ eof \/ left = 0
      /\ UNCHANGED <<sent, values, stored, eof>>
  BY DEF CopyEnds, fd
<1>2. start' = start /\ rest' = rest /\ size' = size
  BY <1>1, SameRequest
<1>3. ValuesInv' /\ PlaceInv' /\ BodyPlaceInv'
  BY <1>1 DEF ParsedInv, ValuesInv, PlaceInv, BodyPlaceInv
<1>4. IsPrefix(stored, rest) /\ (size >= 0 => Len(stored) <= size + 1)
  BY <1>1 DEF ParsedInv, StoredInv
<1>5. stored = rest \/ (Len(values) <= Ended(sent) /\ 0 <= size /\ size <= Len(stored))
  <2>1. CASE eof
    BY <1>1, <2>1 DEF ParsedInv, BodyPlaceInv
  <2>2. CASE ~eof
    <3>1. Len(values) <= Ended(sent)
      BY <2>2 DEF ParsedInv, ValuesInv
    <3>2. left = IF size < 0 \/ Len(stored) <= size THEN size - Len(stored) ELSE 0
      BY <1>1 DEF ParsedInv, BodyPlaceInv
    <3>3. \A n \in Nat : \A m \in Int :
            0 = (IF m < 0 \/ n <= m THEN m - n ELSE 0) => 0 <= m /\ m <= n
      OBVIOUS
    <3>4. Len(stored) \in Nat /\ size \in Int
      BY <1>1, SizeType DEF ReaderInv, TypeOK
    <3> QED BY <1>1, <2>2, <3>1, <3>2, <3>3, <3>4
  <2> QED BY <1>1, <2>1, <2>2
<1>6. StoredInv'
  BY <1>1, <1>2, <1>4, <1>5 DEF StoredInv
<1> QED BY <1>3, <1>6 DEF ParsedInv

\* A load() that does not return leaves all that was taken as it is.
LEMMA LoadBlocksParsed ==
  ASSUME ReaderInv, ParsedInv, LoadBlocks
  PROVE  ParsedInv'
<1>1. /\ pc \in {"code", "value", "copy"} /\ pc' = "blocked"
      /\ UNCHANGED <<sent, values, stored, answer, eof>>
  BY DEF LoadBlocks, LoadFails, body
<1>2. answer' # "OK"
  BY <1>1 DEF ReaderInv, RequestInv, ParsedInv, StoredInv
<1>3. ValuesInv'
  BY <1>1 DEF ParsedInv, ValuesInv
<1>4. start' = start /\ rest' = rest /\ size' = size
  BY <1>1, SameRequest
<1>5. StoredInv'
  BY <1>1, <1>2, <1>4 DEF ParsedInv, StoredInv
<1>6. PlaceInv' /\ BodyPlaceInv'
  BY <1>1 DEF PlaceInv, BodyPlaceInv
<1> QED BY <1>3, <1>5, <1>6 DEF ParsedInv

LEMMA StutterParsed ==
  ASSUME ParsedInv, UNCHANGED vars
  PROVE  ParsedInv'
<1>1. /\ UNCHANGED <<sent, delivered, cache, cursor, fresh, eof>>
      /\ UNCHANGED <<pc, values, buf, left, stored, answer>>
  BY DEF vars, fd, body
<1>2. start' = start /\ rest' = rest /\ size' = size
  BY <1>1, SameRequest
<1>3. consumed' = consumed /\ (Held => Held')
  BY <1>1 DEF consumed, Held
<1> QED BY <1>1, <1>2, <1>3 DEF ParsedInv, ValuesInv, PlaceInv, BodyPlaceInv, StoredInv

LEMMA NextParsed == ReaderInv /\ ReaderInv' /\ ParsedInv /\ [Next]_vars => ParsedInv'
BY GetRequestParsed, LoadMoreParsed, TakeByteParsed, ValueAtEofParsed, CopyRoundParsed,
   CopyEndsParsed, LoadBlocksParsed, StutterParsed DEF Next

\* At every moment the reader has taken a beginning of what the client sent, and
\* taken it apart where its zero bytes are (file.h:114-131, proxy.h:61-128).
THEOREM ParsedInvariance == Spec => []ParsedInv
BY InitParsed, NextParsed, ReaderInvariance, PTL DEF Spec

\* The values a request loads are those the client sent, into whatever pieces the
\* stream cuts them (file.h:76-131, proxy.h:61-128).
THEOREM ParsesWhatWasSent == Spec => []ParsedAsSent
<1>1. ReaderInv /\ ParsedInv => ParsedAsSent
  <2> SUFFICES ASSUME ReaderInv, ParsedInv, NEW k \in 1..Len(values)
               PROVE  values[k] = ValueOf(sent, k) /\ (k > Ended(sent) => eof)
    BY DEF ParsedAsSent
  <2>1. values[k] = ValueOf(sent, k) /\ (~eof => Len(values) <= Ended(sent))
    BY DEF ParsedInv, ValuesInv
  <2>2. Len(values) \in Nat /\ Ended(sent) \in Nat /\ k \in Nat /\ k <= Len(values)
    BY ByteFacts
  <2>3. Len(values) <= Ended(sent) => ~(k > Ended(sent))
    BY <2>2
  <2> QED BY <2>1, <2>3
<1> QED BY <1>1, ReaderInvariance, ParsedInvariance, PTL

\* What copy() stores is the body, from its first byte on, and all of it when it
\* answers OK to a client that kept to its size (file.h:224-239).
THEOREM StoresTheBody == Spec => []StoredIsBody
<1>1. ReaderInv /\ ParsedInv => StoredIsBody
  <2> SUFFICES ASSUME ReaderInv, ParsedInv, stored # << >> \/ answer = "OK"
               PROVE  /\ IsPrefix(stored, rest)
                      /\ size >= 0 => Len(stored) <= size + 1
                      /\ answer = "OK" =>
                           \/ stored = rest
                           \/ Len(values) <= Ended(sent) /\ 0 <= size /\ size <= Len(stored)
    BY DEF StoredIsBody, rest, start, size
  <2>1. pc \in {"copy", "copied"} \/ stored # << >>
    BY DEF ReaderInv, RequestInv, ParsedInv, StoredInv
  <2> QED BY <2>1 DEF ParsedInv, StoredInv
<1> QED BY <1>1, ReaderInvariance, ParsedInvariance, PTL
=============================================================================
