-------------------------- MODULE ThreadPoolProofs --------------------------
(***************************************************************************)
(* Proofs about ThreadPool for any set of tasks and any number of threads. *)
(* IInv is inductive; JoinDrains and QuietAfterJoin follow from it.        *)
(***************************************************************************)
EXTENDS ThreadPool, TLAPS, SequenceTheorems

\* What the deque operations of push() and _pop() do, index by index.
LEMMA AppendIndex ==
  ASSUME NEW S, NEW s \in Seq(S), NEW e \in S
  PROVE  /\ Append(s, e) \in Seq(S)
         /\ Len(Append(s, e)) = Len(s) + 1
         /\ \A i \in 1..Len(s) : Append(s, e)[i] = s[i]
         /\ Append(s, e)[Len(s) + 1] = e
BY AppendProperties

LEMMA TailIndex ==
  ASSUME NEW S, NEW s \in Seq(S), s # << >>
  PROVE  /\ Head(s) = s[1]
         /\ Head(s) \in S
         /\ Tail(s) \in Seq(S)
         /\ Len(s) \in Nat \ {0}
         /\ Len(Tail(s)) = Len(s) - 1
         /\ \A i \in 1..Len(Tail(s)) : Tail(s)[i] = s[i + 1]
<1>1. Len(s) \in Nat \ {0}
  BY EmptySeq, LenProperties
<1> QED BY <1>1, HeadTailProperties

-----------------------------------------------------------------------------
\* The constructor establishes the inductive invariant.
THEOREM InitIInv == Init => IInv
<1> SUFFICES ASSUME Init PROVE IInv
  OBVIOUS
<1> USE DEF Init
<1>1. TypeOK
  BY ThreadsAssumption DEF TypeOK, PC
<1>2. FifoOrder
  BY DEF FifoOrder
<1>3. FlagOrder
  BY DEF FlagOrder
<1>4. HoldsWhileCalling
  BY DEF HoldsWhileCalling
<1>5. TakenIsRunOrHeld
  BY DEF TakenIsRunOrHeld
<1>6. ExitMeansTaken
  BY DEF ExitMeansTaken
<1>7. JoinedHaveExited
  BY ThreadsAssumption DEF JoinedHaveExited
<1> QED BY <1>1, <1>2, <1>3, <1>4, <1>5, <1>6, <1>7 DEF IInv

-----------------------------------------------------------------------------
\* One lemma for each operation of the pool.

LEMMA PushIInv ==
  ASSUME IInv, NEW t \in Task, Push(t)
  PROVE  IInv'
<1> USE DEF Push
<1>1. /\ task' \in Seq(Task)
      /\ Len(task') = Len(task) + 1
      /\ \A i \in 1..Len(task) : task'[i] = task[i]
      /\ task'[Len(task) + 1] = t
  BY AppendIndex DEF IInv, TypeOK
<1>2. /\ pushed' \in Seq(Task)
      /\ Len(pushed') = Len(pushed) + 1
      /\ \A i \in 1..Len(pushed) : pushed'[i] = pushed[i]
      /\ pushed'[Len(pushed) + 1] = t
  BY AppendIndex DEF IInv, TypeOK
<1>3. /\ Len(task) \in Nat
      /\ Len(pushed) \in Nat
      /\ taken \in Nat
      /\ early \in Nat
      /\ Len(pushed) = taken + Len(task)
  BY LenProperties DEF IInv, TypeOK, FifoOrder
<1>4. TypeOK'
  BY <1>1, <1>2 DEF IInv, TypeOK
<1>5. FifoOrder'
  <2>1. Len(pushed') = taken' + Len(task')
    BY <1>1, <1>2, <1>3
  <2>2. ASSUME NEW i \in 1..Len(task')
        PROVE  task'[i] = pushed'[taken' + i]
    <3>1. CASE i = Len(task) + 1
      BY <3>1, <1>1, <1>2, <1>3
    <3>2. CASE i \in 1..Len(task)
      <4>1. task[i] = pushed[taken + i] /\ taken + i \in 1..Len(pushed)
        BY <3>2, <1>3 DEF IInv, FifoOrder
      <4> QED BY <4>1, <3>2, <1>1, <1>2
    <3> QED BY <3>1, <3>2, <1>1, <1>3
  <2> QED BY <2>1, <2>2 DEF FifoOrder
<1>6. FlagOrder'
  BY DEF IInv, FlagOrder
<1>7. HoldsWhileCalling'
  BY DEF IInv, HoldsWhileCalling
<1>8. TakenIsRunOrHeld'
  <2>1. \A i \in 1..taken : pushed'[i] = pushed[i]
    BY <1>2, <1>3
  <2> QED BY <2>1 DEF IInv, TakenIsRunOrHeld
<1>9. ExitMeansTaken'
  BY <1>2, <1>3 DEF IInv, ExitMeansTaken, FlagOrder
<1>10. JoinedHaveExited'
  BY DEF IInv, JoinedHaveExited
<1> QED BY <1>4, <1>5, <1>6, <1>7, <1>8, <1>9, <1>10 DEF IInv

LEMMA PopIInv ==
  ASSUME IInv, NEW w \in Worker, NEW from \in PC, NEW found \in PC, NEW none \in PC,
         _pop(w, from, found, none),
         from \in {"pop", "drain"},
         found = IF from = "pop" THEN "call" ELSE "rest",
         none = IF from = "pop" THEN "sleep" ELSE "exited"
  PROVE  IInv'
<1>1. /\ task \in Seq(Task)
      /\ Len(task) \in Nat
      /\ Len(pushed) \in Nat
      /\ taken \in Nat
      /\ early \in Nat
      /\ Len(pushed) = taken + Len(task)
      /\ pc \in [Worker -> PC]
      /\ mine \in [Worker -> Task \cup {NoTask}]
  BY LenProperties DEF IInv, TypeOK, FifoOrder
<1>2. /\ pc[w] = from
      /\ mine[w] = NoTask
      /\ UNCHANGED <<continue, sees, joiner, joined, pushed, early, ran>>
  BY DEF IInv, HoldsWhileCalling, _pop
<1>3. CASE task = << >>
  <2>1. UNCHANGED <<task, mine, taken>> /\ pc' = [pc EXCEPT ![w] = none]
    BY <1>3 DEF _pop, Goto
  <2>2. Len(task) = 0
    BY <1>3
  <2>3. TypeOK'
    BY <2>1, <1>1, <1>2 DEF IInv, TypeOK
  <2>4. FifoOrder'
    BY <2>1, <1>2 DEF IInv, FifoOrder
  <2>5. FlagOrder'
    BY <2>1, <1>1, <1>2 DEF IInv, FlagOrder
  <2>6. HoldsWhileCalling'
    BY <2>1, <1>1, <1>2 DEF IInv, HoldsWhileCalling
  <2>7. TakenIsRunOrHeld'
    BY <2>1, <1>2 DEF IInv, TakenIsRunOrHeld
  <2>8. ExitMeansTaken'
    BY <2>1, <2>2, <1>1, <1>2 DEF IInv, ExitMeansTaken
  <2>9. JoinedHaveExited'
    BY <2>1, <1>1, <1>2, ThreadsAssumption DEF IInv, JoinedHaveExited, TypeOK, Worker
  <2> QED BY <2>3, <2>4, <2>5, <2>6, <2>7, <2>8, <2>9 DEF IInv
<1>4. CASE task # << >>
  <2>1. /\ mine' = [mine EXCEPT ![w] = Head(task)]
        /\ task' = Tail(task)
        /\ taken' = taken + 1
        /\ pc' = [pc EXCEPT ![w] = found]
    BY <1>4 DEF _pop, Goto
  <2>2. /\ Head(task) = task[1]
        /\ Head(task) \in Task
        /\ task' \in Seq(Task)
        /\ Len(task) \in Nat \ {0}
        /\ Len(task') = Len(task) - 1
        /\ \A i \in 1..Len(task') : task'[i] = task[i + 1]
    BY <1>1, <1>4, <2>1, TailIndex
  <2>3. Head(task) = pushed[taken + 1]
    BY <2>2, <1>1 DEF IInv, FifoOrder
  <2>4. TypeOK'
    BY <2>1, <2>2, <1>1, <1>2 DEF IInv, TypeOK
  <2>5. FifoOrder'
    <3>1. \A i \in 1..Len(task') : i + 1 \in 1..Len(task)
      BY <2>2
    <3>2. \A i \in 1..Len(task') : task'[i] = pushed[taken + (i + 1)]
      BY <3>1, <2>2 DEF IInv, FifoOrder
    <3>3. \A i \in 1..Len(task') : taken + (i + 1) = taken' + i
      BY <2>1, <1>1
    <3>4. Len(pushed') = taken' + Len(task')
      BY <2>1, <2>2, <1>1, <1>2
    <3>5. \A i \in 1..Len(task') : task'[i] = pushed'[taken' + i]
      BY <3>2, <3>3, <1>2
    <3> QED BY <3>4, <3>5 DEF FifoOrder
  <2>6. FlagOrder'
    BY <2>1, <1>1, <1>2 DEF IInv, FlagOrder
  <2>7. HoldsWhileCalling'
    BY <2>1, <2>2, <1>1, <1>2, NoTaskAssumption DEF IInv, HoldsWhileCalling
  <2>8. TakenIsRunOrHeld'
    <3> SUFFICES ASSUME NEW i \in 1..taken'
                 PROVE  pushed'[i] \in ran' \/ \E v \in Worker : mine'[v] = pushed'[i]
      BY DEF TakenIsRunOrHeld
    <3>1. CASE i = taken + 1
      BY <3>1, <2>1, <2>3, <1>1, <1>2
    <3>2. CASE i \in 1..taken
      <4>1. CASE pushed[i] \in ran
        BY <4>1, <1>2
      <4>2. CASE pushed[i] \notin ran
        <5>1. PICK v \in Worker : mine[v] = pushed[i]
          BY <3>2, <4>2 DEF IInv, TakenIsRunOrHeld
        <5>2. CASE v = w
          <6>1. pushed[i] = NoTask
            BY <5>1, <5>2, <1>2
          <6>2. pushed[i] \in Task
            BY <3>2, <1>1, ElementOfSeq DEF IInv, TypeOK
          <6> QED BY <6>1, <6>2, NoTaskAssumption
        <5>3. CASE v # w
          BY <5>1, <5>3, <2>1, <1>1, <1>2
        <5> QED BY <5>2, <5>3
      <4> QED BY <4>1, <4>2
    <3> QED BY <3>1, <3>2, <2>1, <1>1
  <2>9. ExitMeansTaken'
    BY <2>1, <1>1, <1>2 DEF IInv, ExitMeansTaken
  <2>10. JoinedHaveExited'
    BY <2>1, <1>1, <1>2, ThreadsAssumption DEF IInv, JoinedHaveExited, TypeOK, Worker
  <2> QED BY <2>4, <2>5, <2>6, <2>7, <2>8, <2>9, <2>10 DEF IInv
<1> QED BY <1>3, <1>4

LEMMA CallIInv ==
  ASSUME IInv, NEW w \in Worker, NEW from \in PC, NEW next \in PC,
         _call(w, from, next),
         \/ from = "call" /\ next = "while"
         \/ from = "rest" /\ next = "drain"
  PROVE  IInv'
<1> USE DEF _call, Goto
<1>1. /\ pc \in [Worker -> PC]
      /\ mine \in [Worker -> Task \cup {NoTask}]
      /\ pc' = [pc EXCEPT ![w] = next]
      /\ mine' = [mine EXCEPT ![w] = NoTask]
      /\ mine[w] # NoTask
  BY DEF IInv, TypeOK, HoldsWhileCalling
<1>2. TypeOK'
  BY <1>1 DEF IInv, TypeOK
<1>3. FifoOrder'
  BY DEF IInv, FifoOrder
<1>4. FlagOrder'
  BY <1>1 DEF IInv, FlagOrder
<1>5. HoldsWhileCalling'
  BY <1>1 DEF IInv, HoldsWhileCalling
<1>6. TakenIsRunOrHeld'
  <2> SUFFICES ASSUME NEW i \in 1..taken, pushed[i] \notin ran'
               PROVE  \E v \in Worker : mine'[v] = pushed[i]
    BY DEF TakenIsRunOrHeld
  <2>1. PICK v \in Worker : mine[v] = pushed[i]
    BY DEF IInv, TakenIsRunOrHeld
  <2>2. v # w
    BY <2>1
  <2> QED BY <2>1, <2>2, <1>1
<1>7. ExitMeansTaken'
  BY <1>1 DEF IInv, ExitMeansTaken
<1>8. JoinedHaveExited'
  BY <1>1, ThreadsAssumption DEF IInv, JoinedHaveExited, TypeOK, Worker
<1> QED BY <1>2, <1>3, <1>4, <1>5, <1>6, <1>7, <1>8 DEF IInv

\* Reading the flag and sleeping move one worker and nothing else.
LEMMA MoveIInv ==
  ASSUME IInv, NEW w \in Worker, ReadContinue(w) \/ Sleep(w)
  PROVE  IInv'
<1>1. PICK next \in {"while", "pop", "drain"} :
        /\ pc' = [pc EXCEPT ![w] = next]
        /\ pc[w] \in {"while", "sleep"}
        /\ next = "drain" => ~sees[w]
        /\ UNCHANGED <<task, continue, sees, mine, joiner, joined, history>>
  BY DEF ReadContinue, Sleep, Goto
<1>2. pc \in [Worker -> PC]
  BY DEF IInv, TypeOK
<1> USE DEF history
<1>3. TypeOK'
  BY <1>1, <1>2 DEF IInv, TypeOK, PC
<1>4. FifoOrder'
  BY <1>1 DEF IInv, FifoOrder
<1>5. FlagOrder'
  BY <1>1, <1>2 DEF IInv, FlagOrder
<1>6. HoldsWhileCalling'
  BY <1>1, <1>2 DEF IInv, HoldsWhileCalling
<1>7. TakenIsRunOrHeld'
  BY <1>1 DEF IInv, TakenIsRunOrHeld
<1>8. ExitMeansTaken'
  BY <1>1, <1>2 DEF IInv, ExitMeansTaken
<1>9. JoinedHaveExited'
  BY <1>1, <1>2, ThreadsAssumption DEF IInv, JoinedHaveExited, TypeOK, Worker
<1> QED BY <1>3, <1>4, <1>5, <1>6, <1>7, <1>8, <1>9 DEF IInv

LEMMA PropagateIInv ==
  ASSUME IInv, NEW w \in Worker, Propagate(w)
  PROVE  IInv'
<1> USE DEF Propagate, history
<1>1. TypeOK'
  BY DEF IInv, TypeOK
<1>2. FifoOrder'
  BY DEF IInv, FifoOrder
<1>3. FlagOrder'
  BY DEF IInv, FlagOrder, TypeOK
<1>4. HoldsWhileCalling'
  BY DEF IInv, HoldsWhileCalling
<1>5. TakenIsRunOrHeld'
  BY DEF IInv, TakenIsRunOrHeld
<1>6. ExitMeansTaken'
  BY DEF IInv, ExitMeansTaken
<1>7. JoinedHaveExited'
  BY DEF IInv, JoinedHaveExited
<1> QED BY <1>1, <1>2, <1>3, <1>4, <1>5, <1>6, <1>7 DEF IInv

LEMMA JoinIInv ==
  ASSUME IInv, Join \/ JoinThread
  PROVE  IInv'
<1> USE DEF Join, JoinThread, history
<1>1. TypeOK'
  <2>1. joined' \in 0..Threads
    BY ThreadsAssumption DEF IInv, TypeOK, JoinedHaveExited
  <2>2. joiner' \in {"none", "joining", "done"} /\ continue' \in BOOLEAN
    BY DEF IInv, TypeOK
  <2> QED BY <2>1, <2>2 DEF IInv, TypeOK
<1>2. FifoOrder'
  BY DEF IInv, FifoOrder
<1>3. FlagOrder'
  BY DEF IInv, FlagOrder
<1>4. HoldsWhileCalling'
  BY DEF IInv, HoldsWhileCalling
<1>5. TakenIsRunOrHeld'
  BY DEF IInv, TakenIsRunOrHeld
<1>6. ExitMeansTaken'
  BY DEF IInv, ExitMeansTaken
<1>7. JoinedHaveExited'
  BY ThreadsAssumption DEF IInv, JoinedHaveExited, TypeOK
<1> QED BY <1>1, <1>2, <1>3, <1>4, <1>5, <1>6, <1>7 DEF IInv

\* Every step of the pool preserves the inductive invariant.
THEOREM NextIInv == IInv /\ [Next]_vars => IInv'
<1> SUFFICES ASSUME IInv, [Next]_vars PROVE IInv'
  OBVIOUS
<1>1. CASE \E t \in Task : Push(t)
  BY <1>1, PushIInv
<1>2. CASE \E w \in Worker : Step(w)
  <2> PICK w \in Worker : Step(w)
    BY <1>2
  <2>1. CASE ReadContinue(w) \/ Sleep(w)
    BY <2>1, MoveIInv
  <2>2. CASE Pop(w)
    BY <2>2, PopIInv DEF Pop, PC
  <2>3. CASE DrainPop(w)
    BY <2>3, PopIInv DEF DrainPop, PC
  <2>4. CASE Call(w)
    BY <2>4, CallIInv DEF Call, PC
  <2>5. CASE DrainCall(w)
    BY <2>5, CallIInv DEF DrainCall, PC
  <2> QED BY <2>1, <2>2, <2>3, <2>4, <2>5 DEF Step
<1>3. CASE \E w \in Worker : Propagate(w)
  BY <1>3, PropagateIInv
<1>4. CASE Join \/ JoinThread
  BY <1>4, JoinIInv
<1>5. CASE UNCHANGED vars
  BY <1>5 DEF vars, poolVars, history, IInv, TypeOK, FifoOrder, FlagOrder,
              HoldsWhileCalling, TakenIsRunOrHeld, ExitMeansTaken, JoinedHaveExited
<1> QED BY <1>1, <1>2, <1>3, <1>4, <1>5 DEF Next

\* The inductive invariant, and with it the type invariant, always holds.
THEOREM Invariance == Spec => []IInv
<1>1. Init => IInv
  BY InitIInv
<1>2. IInv /\ [Next]_vars => IInv'
  BY NextIInv
<1> QED BY <1>1, <1>2, PTL DEF Spec

\* The deque, the threads' positions and the counters keep their types.
THEOREM TypeCorrect == Spec => []TypeOK
<1>1. IInv => TypeOK
  BY DEF IInv
<1> QED BY <1>1, Invariance, PTL

\* Tasks leave the deque in the order of the pushes.
THEOREM Fifo == Spec => []FifoOrder
<1>1. IInv => FifoOrder
  BY DEF IInv
<1> QED BY <1>1, Invariance, PTL

-----------------------------------------------------------------------------
\* When join() has returned every thread has, so no task is held and all the
\* early ones had been taken: they have run.
THEOREM DrainsWhenDone == IInv => JoinDrains
<1> SUFFICES ASSUME IInv, joiner = "done", NEW i \in 1..early
             PROVE  pushed[i] \in ran
  BY DEF JoinDrains
<1>1. \A w \in Worker : pc[w] = "exited"
  BY DEF IInv, JoinedHaveExited, Worker
<1>2. \A w \in Worker : mine[w] = NoTask
  BY <1>1 DEF IInv, HoldsWhileCalling
<1>3. 1 \in Worker
  BY ThreadsAssumption DEF Worker
<1>4. early <= taken
  BY <1>1, <1>3 DEF IInv, ExitMeansTaken
<1>5. i \in 1..taken /\ i \in 1..Len(pushed)
  BY <1>4, LenProperties DEF IInv, TypeOK, ExitMeansTaken
<1>6. pushed[i] \in Task
  BY <1>5, ElementOfSeq DEF IInv, TypeOK
<1> QED BY <1>2, <1>5, <1>6, NoTaskAssumption DEF IInv, TakenIsRunOrHeld

\* No task pushed before join() was called is lost (thread_pool.h:78).
THEOREM JoinDrainsCorrect == Spec => []JoinDrains
BY DrainsWhenDone, Invariance, PTL

\* After join() the pool is quiet, so the destructor may free its members.
THEOREM QuietAfterJoinCorrect == Spec => QuietAfterJoin
<1>1. IInv /\ [Next]_vars =>
        [joiner = "done" => UNCHANGED <<pc, mine, task, ran>>]_vars
  <2> SUFFICES ASSUME IInv, Next, joiner = "done"
               PROVE  UNCHANGED <<pc, mine, task, ran>>
    BY DEF vars
  <2>1. \A w \in Worker : pc[w] = "exited"
    BY DEF IInv, JoinedHaveExited, Worker
  <2>2. ASSUME NEW t \in Task, Push(t) PROVE FALSE
    BY <2>2 DEF Push
  <2>3. ASSUME NEW w \in Worker, Step(w) PROVE FALSE
    BY <2>1, <2>3 DEF Step, ReadContinue, Pop, Sleep, Call, DrainPop, DrainCall, _pop, _call
  <2>4. ASSUME NEW w \in Worker, Propagate(w) PROVE UNCHANGED <<pc, mine, task, ran>>
    BY <2>4 DEF Propagate, history
  <2>5. ASSUME Join \/ JoinThread PROVE FALSE
    BY <2>5 DEF Join, JoinThread
  <2> QED BY <2>2, <2>3, <2>4, <2>5 DEF Next
<1> QED BY <1>1, Invariance, PTL DEF Spec, QuietAfterJoin

-----------------------------------------------------------------------------
(* A task is called once. *)

\* Range of the community module, for a sequence.
LEMMA RangeIndex ==
  ASSUME NEW S, NEW s \in Seq(S), NEW t
  PROVE  t \in Range(s) <=> \E i \in 1..Len(s) : s[i] = t
BY LenProperties DEF Range

LEMMA InitOnce == Init => OnceInv
BY DEF Init, OnceInv, PushedOnce, HolderUnique

LEMMA PushOnce ==
  ASSUME IInv, OnceInv, NEW t \in Task, Push(t)
  PROVE  OnceInv'
<1> USE DEF Push
<1>1. /\ pushed' \in Seq(Task)
      /\ Len(pushed') = Len(pushed) + 1
      /\ \A i \in 1..Len(pushed) : pushed'[i] = pushed[i]
      /\ pushed'[Len(pushed) + 1] = t
  BY AppendIndex DEF IInv, TypeOK
<1>2. \A i \in 1..Len(pushed) : pushed[i] # t
  BY RangeIndex DEF IInv, TypeOK
<1>3. /\ taken \in Nat
      /\ taken <= Len(pushed)
      /\ Len(pushed) \in Nat
  BY LenProperties DEF IInv, TypeOK, FifoOrder
<1>4. PushedOnce'
  BY <1>1, <1>2, <1>3 DEF OnceInv, PushedOnce
<1>5. ASSUME NEW u, Taken(u) PROVE Taken(u)'
  BY <1>1, <1>3, <1>5 DEF Taken
<1> QED BY <1>4, <1>5 DEF OnceInv, HolderUnique

LEMMA PopOnce ==
  ASSUME IInv, OnceInv, NEW w \in Worker, NEW from, NEW found, NEW none,
         _pop(w, from, found, none), mine[w] = NoTask
  PROVE  OnceInv'
<1>1. CASE task = << >>
  BY <1>1 DEF _pop, OnceInv, PushedOnce, HolderUnique, Taken
<1>2. CASE task # << >>
  <2>1. /\ mine' = [mine EXCEPT ![w] = Head(task)]
        /\ taken' = taken + 1
        /\ UNCHANGED <<pushed, ran>>
        /\ mine \in [Worker -> Task \cup {NoTask}]
    BY <1>2 DEF _pop, IInv, TypeOK
  <2>2. Head(task) = task[1] /\ Len(task) \in Nat \ {0}
    BY <1>2, TailIndex DEF IInv, TypeOK
  <2>3. /\ taken \in Nat
        /\ Len(pushed) = taken + Len(task)
        /\ Head(task) = pushed[taken + 1]
    BY <2>2 DEF IInv, FifoOrder, TypeOK
  <2>4. taken + 1 \in 1..Len(pushed) /\ 1..taken \subseteq 1..Len(pushed)
    BY <2>2, <2>3
  <2>5. ~Taken(Head(task))
    <3> SUFFICES ASSUME NEW i \in 1..taken, pushed[i] = pushed[taken + 1]
                 PROVE  FALSE
      BY <2>3 DEF Taken
    <3>1. i = taken + 1
      BY <2>4 DEF OnceInv, PushedOnce
    <3> QED BY <3>1, <2>3
  <2> DEFINE After(u) == \E i \in 1..taken' : pushed'[i] = u
  <2>6. ASSUME NEW u, Taken(u) PROVE After(u)
    BY <2>1, <2>3, <2>6 DEF Taken
  <2>7. After(Head(task))
    BY <2>1, <2>3
  <2>8. PushedOnce'
    BY <2>1 DEF OnceInv, PushedOnce
  <2>9. \A t \in ran' : After(t)
    BY <2>1, <2>6 DEF OnceInv
  <2>10. ASSUME NEW v \in Worker, mine'[v] # NoTask PROVE After(mine'[v])
    <3>1. mine'[v] = IF v = w THEN Head(task) ELSE mine[v]
      BY <2>1
    <3> HIDE DEF After
    <3>2. CASE v = w
      BY <2>7, <3>1, <3>2
    <3>3. CASE v # w
      BY <2>6, <2>10, <3>1, <3>3 DEF OnceInv
    <3> QED BY <3>2, <3>3
  <2>11. HolderUnique'
    <3> SUFFICES ASSUME NEW v \in Worker, mine'[v] # NoTask
                 PROVE  /\ mine'[v] \notin ran
                        /\ \A x \in Worker : mine'[x] = mine'[v] => x = v
      BY <2>1 DEF HolderUnique
    <3>1. \A x \in Worker : mine[x] # NoTask => mine[x] # Head(task)
      BY <2>5 DEF OnceInv
    <3>2. Head(task) \notin ran
      BY <2>5 DEF OnceInv
    <3>3. Head(task) \in Task
      BY <1>2, TailIndex DEF IInv, TypeOK
    <3>4. \A x \in Worker : mine'[x] = IF x = w THEN Head(task) ELSE mine[x]
      BY <2>1
    <3>5. CASE v = w
      BY <3>1, <3>2, <3>3, <3>4, <3>5, NoTaskAssumption
    <3>6. CASE v # w
      BY <3>1, <3>4, <3>6 DEF OnceInv, HolderUnique
    <3> QED BY <3>5, <3>6
  <2> QED BY <2>8, <2>9, <2>10, <2>11 DEF OnceInv, Taken
<1> QED BY <1>1, <1>2

LEMMA CallOnce ==
  ASSUME IInv, OnceInv, NEW w \in Worker, NEW from, NEW next,
         _call(w, from, next), mine[w] # NoTask
  PROVE  OnceInv'
<1>1. /\ mine' = [mine EXCEPT ![w] = NoTask]
      /\ ran' = ran \cup {mine[w]}
      /\ UNCHANGED <<pushed, taken>>
      /\ mine \in [Worker -> Task \cup {NoTask}]
  BY DEF _call, IInv, TypeOK
<1>2. PushedOnce'
  BY <1>1 DEF OnceInv, PushedOnce
<1>3. ASSUME NEW u PROVE Taken(u)' <=> Taken(u)
  BY <1>1 DEF Taken
<1>4. \A t \in ran' : Taken(t)
  BY <1>1 DEF OnceInv
<1>5. \A v \in Worker : mine'[v] # NoTask => v # w /\ mine'[v] = mine[v]
  BY <1>1
<1>6. \A v \in Worker : mine'[v] # NoTask => Taken(mine'[v])
  BY <1>5 DEF OnceInv
<1>7. HolderUnique'
  BY <1>1, <1>5 DEF OnceInv, HolderUnique
<1> QED BY <1>1, <1>2, <1>4, <1>6, <1>7 DEF OnceInv, Taken

\* Every step of the pool keeps Inductive.
THEOREM NextInductive == Inductive /\ [Next]_vars => Inductive'
<1> SUFFICES ASSUME IInv, OnceInv, [Next]_vars PROVE Inductive'
  BY DEF Inductive
<1>1. IInv'
  BY NextIInv
<1>2. OnceInv'
  <2>1. ASSUME UNCHANGED <<pushed, taken, ran, mine>> PROVE OnceInv'
    BY <2>1 DEF OnceInv, PushedOnce, HolderUnique, Taken
  <2>2. CASE \E t \in Task : Push(t)
    BY <2>2, PushOnce
  <2>3. CASE \E w \in Worker : Step(w)
    <3> PICK w \in Worker : Step(w)
      BY <2>3
    <3>1. CASE ReadContinue(w) \/ Sleep(w)
      BY <3>1, <2>1 DEF ReadContinue, Sleep, history
    <3>2. CASE Pop(w)
      <4>1. mine[w] = NoTask
        BY <3>2 DEF Pop, _pop, IInv, HoldsWhileCalling
      <4> QED BY <4>1, <3>2, PopOnce DEF Pop
    <3>3. CASE DrainPop(w)
      <4>1. mine[w] = NoTask
        BY <3>3 DEF DrainPop, _pop, IInv, HoldsWhileCalling
      <4> QED BY <4>1, <3>3, PopOnce DEF DrainPop
    <3>4. CASE Call(w)
      <4>1. mine[w] # NoTask
        BY <3>4 DEF Call, _call, IInv, HoldsWhileCalling
      <4> QED BY <4>1, <3>4, CallOnce DEF Call
    <3>5. CASE DrainCall(w)
      <4>1. mine[w] # NoTask
        BY <3>5 DEF DrainCall, _call, IInv, HoldsWhileCalling
      <4> QED BY <4>1, <3>5, CallOnce DEF DrainCall
    <3> QED BY <3>1, <3>2, <3>3, <3>4, <3>5 DEF Step
  <2>4. CASE \E w \in Worker : Propagate(w)
    BY <2>4, <2>1 DEF Propagate, history
  <2>5. CASE Join \/ JoinThread
    BY <2>5, <2>1 DEF Join, JoinThread, history
  <2>6. CASE UNCHANGED vars
    BY <2>6, <2>1 DEF vars, poolVars, history
  <2> QED BY <2>2, <2>3, <2>4, <2>5, <2>6 DEF Next
<1> QED BY <1>1, <1>2 DEF Inductive

\* The constructor establishes Inductive.
THEOREM InitInductive == Init => Inductive
BY InitIInv, InitOnce DEF Inductive

\* Both parts of the inductive invariant always hold: the flag, the threads and
\* the deque as join() finds them, and every task pushed once with one holder.
THEOREM InductiveInvariance == Spec => []Inductive
BY InitInductive, NextInductive, PTL DEF Spec

\* No task is called twice or by two threads.
THEOREM RunsOnceCorrect == Spec => []RunsOnce
<1>1. Inductive => RunsOnce
  <2> SUFFICES ASSUME IInv, OnceInv, NEW w \in Worker, mine[w] # NoTask
               PROVE  mine[w] \notin Range(task)
    BY DEF Inductive, RunsOnce, OnceInv, HolderUnique
  <2>1. PICK i \in 1..taken : pushed[i] = mine[w]
    BY DEF OnceInv, Taken
  <2>2. ASSUME NEW k \in 1..Len(task), task[k] = mine[w] PROVE FALSE
    <3>1. /\ taken \in Nat
          /\ Len(task) \in Nat
          /\ Len(pushed) = taken + Len(task)
          /\ task[k] = pushed[taken + k]
      BY LenProperties DEF IInv, TypeOK, FifoOrder
    <3>2. i \in 1..Len(pushed) /\ taken + k \in 1..Len(pushed)
      BY <3>1
    <3>3. i = taken + k
      BY <2>1, <2>2, <3>1, <3>2 DEF OnceInv, PushedOnce
    <3> QED BY <3>1, <3>3
  <2> QED BY <2>2, RangeIndex DEF IInv, TypeOK
<1> QED BY <1>1, InductiveInvariance, PTL
=============================================================================
