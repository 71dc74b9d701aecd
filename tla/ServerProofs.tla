---------------------------- MODULE ServerProofs -----------------------------
(***************************************************************************)
(* Proofs about Server, for any number of clients and of pool threads.     *)
(* What the pool itself guarantees is cited from ThreadPoolProofs.         *)
(***************************************************************************)
EXTENDS Server, TLAPS

PP == INSTANCE ThreadPoolProofs WITH Task <- Client, NoTask <- NoClient

-----------------------------------------------------------------------------
\* The pool of Server is the pool of ThreadPoolProofs.

LEMMA PoolInit == Pool!Init => PP!Inductive
<1>1. Pool!Init => PP!Init
  BY DEF Pool!Init, PP!Init, Pool!Worker, PP!Worker
<1> QED BY <1>1, PP!InitInductive, NoClientAssumption, PoolAssumption

LEMMA PoolPush ==
  ASSUME PP!Inductive, NEW c \in Client, Pool!Push(c)
  PROVE  PP!Inductive'
<1>1. PP!Push(c)
  BY DEF Pool!Push, PP!Push, Pool!Range, PP!Range
<1>2. PP!Next
  BY <1>1 DEF PP!Next
<1> QED BY <1>2, PP!NextInductive, NoClientAssumption, PoolAssumption

LEMMA PoolJoin ==
  ASSUME PP!Inductive, Pool!Join \/ Pool!JoinThread
  PROVE  PP!Inductive'
<1>1. PP!Join \/ PP!JoinThread
  BY DEF Pool!Join, PP!Join, Pool!JoinThread, PP!JoinThread, Pool!history, PP!history
<1>2. PP!Next
  BY <1>1 DEF PP!Next
<1> QED BY <1>2, PP!NextInductive, NoClientAssumption, PoolAssumption

LEMMA PoolWorker ==
  ASSUME PP!Inductive, NEW w \in Pool!Worker, Pool!Step(w) \/ Pool!Propagate(w)
  PROVE  PP!Inductive'
<1>1. w \in PP!Worker
  BY DEF Pool!Worker, PP!Worker
<1>2. CASE Pool!Propagate(w)
  <2>1. PP!Propagate(w)
    BY <1>2 DEF Pool!Propagate, PP!Propagate, Pool!history, PP!history
  <2>2. PP!Next
    BY <1>1, <2>1 DEF PP!Next
  <2> QED BY <2>2, PP!NextInductive, NoClientAssumption, PoolAssumption
<1>3. CASE Pool!Step(w)
  <2>1. PP!Step(w)
    BY <1>3 DEF Pool!Step, PP!Step, Pool!ReadContinue, PP!ReadContinue,
         Pool!Pop, PP!Pop, Pool!DrainPop, PP!DrainPop, Pool!_pop, PP!_pop,
         Pool!Sleep, PP!Sleep, Pool!Call, PP!Call, Pool!DrainCall, PP!DrainCall,
         Pool!_call, PP!_call, Pool!Goto, PP!Goto, Pool!history, PP!history
  <2>2. PP!Next
    BY <1>1, <2>1 DEF PP!Next
  <2> QED BY <2>2, PP!NextInductive, NoClientAssumption, PoolAssumption
<1> QED BY <1>2, <1>3

LEMMA PoolStutter ==
  ASSUME PP!Inductive, UNCHANGED pool
  PROVE  PP!Inductive'
<1>1. UNCHANGED PP!vars
  BY DEF pool, PP!vars, PP!poolVars, PP!history
<1> QED BY <1>1, PP!NextInductive, NoClientAssumption, PoolAssumption

\* What a worker's step leaves alone.
LEMMA WorkerFrame ==
  ASSUME NEW w \in Pool!Worker, Pool!Step(w) \/ Pool!Propagate(w)
  PROVE  UNCHANGED <<joiner, pushed, early>>
BY DEF Pool!Step, Pool!ReadContinue, Pool!Pop, Pool!DrainPop, Pool!_pop, Pool!Sleep,
       Pool!Call, Pool!DrainCall, Pool!_call, Pool!Propagate, Pool!history

\* The pool's part of the invariant, as far as Server needs it.
LEMMA PoolTypes ==
  ASSUME PP!Inductive
  PROVE  /\ pushed \in Seq(Client)
         /\ early \in Nat
         /\ continue <=> joiner = "none"
         /\ joiner \in {"none", "joining", "done"}
BY DEF PP!Inductive, PP!IInv, PP!TypeOK, PP!FlagOrder

-----------------------------------------------------------------------------
LEMMA InitServer == Init => PP!Inductive /\ ServerInv
<1> SUFFICES ASSUME Init PROVE PP!Inductive /\ ServerInv
  OBVIOUS
<1>1. PP!Inductive
  BY PoolInit DEF Init
<1>2. ServerInv
  BY DEF Init, Pool!Init, ServerInv, LoopLocked, StoppedAfterRun, JoinedLast, ClientInHand
<1> QED BY <1>1, <1>2

\* The steps of the listener that leave the pool alone.
LEMMA ListenerInv ==
  ASSUME PP!Inductive, ServerInv, Start \/ Lock \/ While \/ Poll \/ Accept \/ Handshake \/ Cleanup
  PROVE  PP!Inductive' /\ ServerInv'
<1>1. UNCHANGED pool
  BY DEF Start, Lock, While, Poll, Accept, Handshake, Cleanup
<1>2. PP!Inductive'
  BY <1>1, PoolStutter
<1>3. UNCHANGED <<joiner, pushed, early, owner>>
  BY DEF Start, Lock, While, Poll, Accept, Handshake, Cleanup, threads, pool
<1> USE DEF ServerInv, threads, net
<1>4. LoopLocked'
  BY DEF Start, Lock, While, Poll, Accept, Handshake, Cleanup, LoopLocked
<1>5. StoppedAfterRun'
  BY <1>3 DEF Start, Lock, While, Poll, Accept, Handshake, Cleanup, StoppedAfterRun
<1>6. JoinedLast'
  BY <1>3 DEF Start, Lock, While, Poll, Accept, Handshake, Cleanup, JoinedLast
<1>7. ClientInHand'
  BY NoClientAssumption
  DEF Start, Lock, While, Poll, Accept, Handshake, Cleanup, ClientInHand
<1> QED BY <1>2, <1>4, <1>5, <1>6, <1>7

\* A push is early: the owner does not join the pool while the listener runs.
LEMMA PushInv ==
  ASSUME PP!Inductive, ServerInv, Push
  PROVE  PP!Inductive' /\ ServerInv'
<1>1. client \in Client /\ Pool!Push(client)
  BY DEF Push, ServerInv, ClientInHand
<1>2. PP!Inductive'
  BY <1>1, PoolPush
<1>3. joiner = "none" /\ continue
  BY PoolTypes DEF Push, ServerInv, JoinedLast
<1>4. /\ joiner' = joiner
      /\ early' = early + 1
      /\ pushed' # << >>
      /\ Len(pushed') = Len(pushed) + 1
  BY <1>1, <1>3, PoolTypes DEF Pool!Push
<1> USE DEF ServerInv, Push
<1>5. LoopLocked'
  BY DEF LoopLocked
<1>6. StoppedAfterRun'
  BY <1>4 DEF StoppedAfterRun
<1>7. JoinedLast'
  BY <1>3, <1>4 DEF JoinedLast
<1>8. ClientInHand'
  BY DEF ClientInHand
<1> QED BY <1>2, <1>5, <1>6, <1>7, <1>8

\* The steps of the owner, and a client that connects, leave the pool alone.
LEMMA OwnerInv ==
  ASSUME PP!Inductive, ServerInv, Stop \/ Stopped \/ Destroy \/ Gone \/ \E c \in Client : Connect(c)
  PROVE  PP!Inductive' /\ ServerInv'
<1>1. UNCHANGED <<pool, listener, lock, client>>
  BY DEF Stop, Stopped, Destroy, Gone, Connect, threads, net
<1>2. PP!Inductive'
  BY <1>1, PoolStutter
<1>3. UNCHANGED <<joiner, pushed, early>>
  BY <1>1 DEF pool
<1> USE DEF ServerInv
<1>4. LoopLocked'
  BY <1>1 DEF LoopLocked
<1>5. StoppedAfterRun'
  BY <1>1, <1>3 DEF Stop, Stopped, Destroy, Gone, Connect, threads, StoppedAfterRun
<1>6. JoinedLast'
  BY <1>1, <1>3 DEF Stop, Stopped, Destroy, Gone, Connect, threads, JoinedLast
<1>7. ClientInHand'
  BY <1>1 DEF Stop, Stopped, Destroy, Gone, Connect, net, ClientInHand
<1> QED BY <1>2, <1>4, <1>5, <1>6, <1>7

\* The pool is joined: the owner holds that the lock is free, so the listener,
\* which has run, has left its loop.
LEMMA JoinPoolInv ==
  ASSUME PP!Inductive, ServerInv, JoinPool
  PROVE  PP!Inductive' /\ ServerInv'
<1>1. PP!Inductive'
  BY PoolJoin DEF JoinPool
<1>2. listener = "returned"
  BY DEF JoinPool, ServerInv, LoopLocked, StoppedAfterRun
<1>3. UNCHANGED <<pushed, early, listener, lock, net>> /\ joiner' = "joining"
  BY DEF JoinPool, Pool!Join, Pool!history
<1>4. LoopLocked' /\ StoppedAfterRun' /\ ClientInHand'
  BY <1>3 DEF ServerInv, JoinPool, LoopLocked, StoppedAfterRun, ClientInHand, net
<1>5. JoinedLast'
  BY <1>2, <1>3 DEF ServerInv, JoinPool, JoinedLast
<1> QED BY <1>1, <1>4, <1>5 DEF ServerInv

\* The threads of the pool, while it is used and while it is joined.
LEMMA PoolInv ==
  ASSUME PP!Inductive, ServerInv,
         PoolJoinThread \/ \E w \in Pool!Worker : PoolStep(w) \/ PoolPropagate(w)
  PROVE  PP!Inductive' /\ ServerInv'
<1>1. PP!Inductive'
  BY PoolJoin, PoolWorker DEF PoolJoinThread, PoolStep, PoolPropagate
<1>2. UNCHANGED <<threads, net>>
  BY DEF PoolJoinThread, PoolStep, PoolPropagate
<1>3. UNCHANGED <<pushed, early>>
  BY WorkerFrame DEF PoolJoinThread, PoolStep, PoolPropagate, Pool!JoinThread, Pool!history
<1>4. LoopLocked' /\ StoppedAfterRun' /\ ClientInHand'
  BY <1>2, <1>3 DEF ServerInv, threads, net, LoopLocked, StoppedAfterRun, ClientInHand
<1>5. JoinedLast'
  <2>1. CASE \E w \in Pool!Worker : PoolStep(w) \/ PoolPropagate(w)
    BY <1>2, <2>1, WorkerFrame DEF PoolStep, PoolPropagate, ServerInv, JoinedLast, threads
  <2>2. CASE PoolJoinThread
    <3>1. joiner = "joining" /\ joiner' \in {"joining", "done"}
      BY <2>2 DEF PoolJoinThread, Pool!JoinThread
    <3> QED BY <1>2, <1>3, <3>1 DEF ServerInv, JoinedLast, threads
  <2> QED BY <2>1, <2>2
<1> QED BY <1>1, <1>4, <1>5 DEF ServerInv

LEMMA NextServer == PP!Inductive /\ ServerInv /\ [Next]_vars => PP!Inductive' /\ ServerInv'
<1> SUFFICES ASSUME PP!Inductive, ServerInv, [Next]_vars PROVE PP!Inductive' /\ ServerInv'
  OBVIOUS
<1>1. CASE UNCHANGED vars
  <2>1. PP!Inductive'
    BY <1>1, PoolStutter DEF vars
  <2>2. ServerInv'
    BY <1>1 DEF vars, threads, net, pool, ServerInv, LoopLocked, StoppedAfterRun,
                JoinedLast, ClientInHand
  <2> QED BY <2>1, <2>2
<1>2. CASE Next
  BY <1>2, ListenerInv, PushInv, OwnerInv, JoinPoolInv, PoolInv DEF Next
<1> QED BY <1>1, <1>2

\* The two invariants hold in every reachable state.
THEOREM ServerInvariance == Spec => [](PP!Inductive /\ ServerInv)
BY InitServer, NextServer, PTL DEF Spec

\* The lock is held exactly while the listener is in its loop, and the owner joins
\* the pool only behind it (server.cpp:14-66, 83).
THEOREM LockInvariance == Spec => []ServerInv
<1>1. PP!Inductive /\ ServerInv => ServerInv
  OBVIOUS
<1> QED BY <1>1, ServerInvariance, PTL

\* However long the listener is busy when stop() is called, and however late the
\* owner destroys the Server: no client is pushed into a pool that is joined
\* (server.cpp:63-66, 83).
THEOREM PushesReachLivePool == Spec => []NoPushIntoDeadPool
<1>1. ServerInv => NoPushIntoDeadPool
  BY DEF ServerInv, JoinedLast, NoPushIntoDeadPool
<1> QED BY <1>1, ServerInvariance, PTL

\* Every client that was accepted has been served when the Server is gone.
THEOREM AcceptedAreServed == Spec => []EveryPushedServed
<1>1. PP!Inductive /\ ServerInv => EveryPushedServed
  <2> SUFFICES ASSUME PP!Inductive, ServerInv, owner = "gone"
               PROVE  client = NoClient /\ Range(pushed) \subseteq ran
    BY DEF EveryPushedServed
  <2>1. joiner = "done" /\ listener = "returned" /\ early = Len(pushed)
    BY DEF ServerInv, JoinedLast
  <2>2. client = NoClient
    BY <2>1 DEF ServerInv, ClientInHand
  <2>3. PP!JoinDrains
    BY PP!DrainsWhenDone, NoClientAssumption, PoolAssumption DEF PP!Inductive
  <2>4. \A i \in 1..Len(pushed) : pushed[i] \in ran
    BY <2>1, <2>3 DEF PP!JoinDrains
  <2>5. DOMAIN pushed = 1..Len(pushed)
    BY PoolTypes
  <2> QED BY <2>2, <2>4, <2>5 DEF Range
<1> QED BY <1>1, ServerInvariance, PTL

-----------------------------------------------------------------------------
\* The types of what the listener and the owner keep; the pool's follow from
\* its own invariant.
ThreadsTyped ==
  /\ _continue \in BOOLEAN
  /\ lock \in {"none", "listener"}
  /\ listener \in {"created", "locking", "while", "poll", "accept",
                   "handshake", "push", "cleanup", "returned"}
  /\ owner \in {"owns", "stopping", "stopped", "destroying", "joining", "gone"}

ClientsTyped ==
  /\ backlog \in SUBSET Client
  /\ client \in Client \cup {NoClient}
  /\ refused \in SUBSET Client

\* A handshake is about a client: none is refused that did not connect.
LEMMA NextTyped ==
  ASSUME ThreadsTyped, ClientsTyped, ServerInv, [Next]_vars
  PROVE  ThreadsTyped' /\ ClientsTyped'
<1>1. CASE UNCHANGED <<threads, net>>
  BY <1>1 DEF threads, net, ThreadsTyped, ClientsTyped
<1>2. CASE Start \/ Lock \/ While \/ Poll \/ Push \/ Cleanup
  BY <1>2 DEF Start, Lock, While, Poll, Push, Cleanup, threads, net, ThreadsTyped, ClientsTyped
<1>3. CASE Accept
  BY <1>3 DEF Accept, ThreadsTyped, ClientsTyped
<1>4. CASE Handshake
  <2>1. client \in Client
    BY <1>4 DEF Handshake, ClientsTyped, ServerInv, ClientInHand
  <2> QED BY <1>4, <2>1 DEF Handshake, ThreadsTyped, ClientsTyped
<1>5. CASE Stop \/ Stopped \/ Destroy \/ JoinPool \/ Gone
  BY <1>5 DEF Stop, Stopped, Destroy, JoinPool, Gone, threads, net, ThreadsTyped, ClientsTyped
<1>6. CASE \E c \in Client : Connect(c)
  BY <1>6 DEF Connect, threads, ThreadsTyped, ClientsTyped
<1>7. CASE PoolJoinThread \/ \E w \in Pool!Worker : PoolStep(w) \/ PoolPropagate(w)
  BY <1>1, <1>7 DEF PoolJoinThread, PoolStep, PoolPropagate
<1> QED BY <1>1, <1>2, <1>3, <1>4, <1>5, <1>6, <1>7 DEF Next, vars

\* Both threads, the clients at hand and the pool behind them stay well typed.
THEOREM TypeCorrect == Spec => []TypeOK
<1>1. Init => ThreadsTyped /\ ClientsTyped
  BY DEF Init, ThreadsTyped, ClientsTyped
<1>2. ThreadsTyped /\ ClientsTyped /\ ServerInv /\ [Next]_vars
        => ThreadsTyped' /\ ClientsTyped'
  BY NextTyped
<1>3. PP!Inductive /\ ThreadsTyped /\ ClientsTyped => TypeOK
  BY DEF PP!Inductive, PP!IInv, PP!TypeOK, Pool!TypeOK, PP!PC, Pool!PC, PP!Worker,
         Pool!Worker, ThreadsTyped, ClientsTyped, TypeOK
<1> QED BY <1>1, <1>2, <1>3, ServerInvariance, LockInvariance, PTL DEF Spec
=============================================================================
