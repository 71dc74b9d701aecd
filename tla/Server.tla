------------------------------- MODULE Server --------------------------------
(***************************************************************************)
(* The life of a Server (src/server/server.cpp): the thread that called    *)
(* operator() accepts clients and pushes them to the pool, the owner calls *)
(* stop() and destroys it.  The pool is ThreadPool, with clients for tasks.*)
(*                                                                         *)
(* _continue and _server_stop_lock are all that the two threads share.     *)
(* Every access of the flag is next to a system call or a lock, so each is *)
(* one step that sees the last write.                                      *)
(***************************************************************************)
EXTENDS Naturals, Sequences, Functions

CONSTANTS Client,    \* connections, each made at most once
          NoClient,
          Threads    \* the pool's threads: 5 (server.cpp:68)

ASSUME NoClientAssumption == NoClient \notin Client
ASSUME PoolAssumption     == Threads \in Nat \ {0}

VARIABLES
  _continue,   \* Server::_continue
  lock,        \* who holds _server_stop_lock
  listener,    \* where the thread that runs operator() is
  owner,       \* where the thread that owns the Server is
  backlog,     \* connections the kernel holds for accept()
  client,      \* the connection ssl_accept is about
  refused,     \* history: connections whose handshake failed
  \* the pool's
  task, continue, sees, pc, mine, joiner, joined, pushed, early, taken, ran

Pool == INSTANCE ThreadPool WITH Task <- Client, NoTask <- NoClient

pool    == <<task, continue, sees, pc, mine, joiner, joined, pushed, early, taken, ran>>
threads == <<_continue, lock, listener, owner>>
net     == <<backlog, client, refused>>
vars    == <<threads, net, pool>>

TypeOK ==
  /\ _continue \in BOOLEAN
  /\ lock \in {"none", "listener"}
  /\ listener \in {"created", "locking", "while", "poll", "accept",
                   "handshake", "push", "cleanup", "returned"}
  /\ owner \in {"owns", "stopping", "stopped", "destroying", "joining", "gone"}
  /\ backlog \in SUBSET Client
  /\ client \in Client \cup {NoClient}
  /\ refused \in SUBSET Client
  /\ Pool!TypeOK

Init ==
  /\ _continue = FALSE
  /\ lock = "none"
  /\ listener = "created"
  /\ owner = "owns"
  /\ backlog = {}
  /\ client = NoClient
  /\ refused = {}
  /\ Pool!Init

-----------------------------------------------------------------------------
(* The listener *)

\* operator(): not running yet, so _continue becomes true and _listen is called.
Start ==
  /\ listener = "created"
  /\ IF _continue
     THEN listener' = "returned" /\ UNCHANGED _continue
     ELSE listener' = "locking" /\ _continue' = TRUE
  /\ UNCHANGED <<lock, owner, net, pool>>

\* A slip NoPushIntoDeadPool rules out: the lock is given back before the loop
\* is over (a scope too small for the lock_guard).
LockBriefly ==
  /\ listener = "locking"
  /\ lock = "none"
  /\ listener' = "while"
  /\ UNCHANGED <<_continue, lock, owner, net, pool>>

Lock ==
  /\ listener = "locking"
  /\ lock = "none"
  /\ lock' = "listener"
  /\ listener' = "while"
  /\ UNCHANGED <<_continue, owner, net, pool>>

While ==
  /\ listener = "while"
  /\ listener' = IF _continue THEN "poll" ELSE "cleanup"
  /\ UNCHANGED <<_continue, lock, owner, net, pool>>

\* poll() reports the listening socket, or nothing came within poll_timeout.
Poll ==
  /\ listener = "poll"
  /\ listener' = IF backlog # {} THEN "accept" ELSE "while"
  /\ UNCHANGED <<_continue, lock, owner, net, pool>>

\* A slip TypeOK rules out: ssl_accept hands out an empty client.
AcceptNothing ==
  /\ listener = "accept"
  /\ backlog' = backlog \cup {client}
  /\ listener' = "handshake"
  /\ UNCHANGED <<_continue, lock, owner, client, refused, pool>>

\* ssl_accept: accept(), then the handshake on a blocking socket.
Accept ==
  /\ listener = "accept"
  /\ \E c \in backlog :
       /\ backlog' = backlog \ {c}
       /\ client' = c
  /\ listener' = "handshake"
  /\ UNCHANGED <<_continue, lock, owner, refused, pool>>

\* The peer finishes the handshake or breaks it off; it need do neither.  On
\* failure ssl_accept clears Client::ssl but not Client::socket, which is what
\* _listen looks at: the client is pushed in either case.
Handshake ==
  /\ listener = "handshake"
  /\ refused' \in {refused, refused \cup {client}}
  /\ listener' = "push"
  /\ UNCHANGED <<_continue, lock, owner, backlog, client, pool>>

\* A slip AcceptedIsServed rules out: a stopped server drops the client at hand.
PushUnlessStopped ==
  /\ listener = "push"
  /\ IF _continue THEN Pool!Push(client) ELSE UNCHANGED pool
  /\ client' = NoClient
  /\ listener' = "while"
  /\ UNCHANGED <<_continue, lock, owner, backlog, refused>>

Push ==
  /\ listener = "push"
  /\ Pool!Push(client)
  /\ client' = NoClient
  /\ listener' = "while"
  /\ UNCHANGED <<_continue, lock, owner, backlog, refused>>

\* The listening socket is closed (the kernel resets who waits) and the
\* lock_guard of _listen ends.
Cleanup ==
  /\ listener = "cleanup"
  /\ backlog' = {}
  /\ lock' = "none"
  /\ listener' = "returned"
  /\ UNCHANGED <<_continue, owner, client, refused, pool>>

-----------------------------------------------------------------------------
(* The owner *)

\* A slip StopWaitsForHandshakeOnly rules out: stop() without its first line.
StopOnlyLocks ==
  /\ owner = "owns"
  /\ pushed # << >>
  /\ owner' = "stopping"
  /\ UNCHANGED <<_continue, lock, listener, net, pool>>

\* stop() writes the flag ... The owner has seen the server run before: it was
\* served by it (test.cpp:119-148).
Stop ==
  /\ owner = "owns"
  /\ pushed # << >>
  /\ _continue' = FALSE
  /\ owner' = "stopping"
  /\ UNCHANGED <<lock, listener, net, pool>>

\* ... and takes the lock, to give it back at once.
Stopped ==
  /\ owner = "stopping"
  /\ lock = "none"
  /\ owner' = "stopped"
  /\ UNCHANGED <<_continue, lock, listener, net, pool>>

\* ~Server calls stop() again,
Destroy ==
  /\ owner = "stopped"
  /\ _continue' = FALSE
  /\ owner' = "destroying"
  /\ UNCHANGED <<lock, listener, net, pool>>

\* and destroys the members, the pool among them: ~ThreadPool calls join().
JoinPool ==
  /\ owner = "destroying"
  /\ lock = "none"
  /\ Pool!Join
  /\ owner' = "joining"
  /\ UNCHANGED <<_continue, lock, listener, net>>

\* A slip EveryPushedServed rules out: the members are freed before the threads
\* are joined.
GoneEarly ==
  /\ owner = "joining"
  /\ owner' = "gone"
  /\ UNCHANGED <<_continue, lock, listener, net, pool>>

Gone ==
  /\ owner = "joining"
  /\ joiner = "done"
  /\ owner' = "gone"
  /\ UNCHANGED <<_continue, lock, listener, net, pool>>

-----------------------------------------------------------------------------
\* addListener came before operator(): clients may connect until Cleanup.
Connect(c) ==
  /\ listener # "returned"
  /\ c \notin backlog \cup {client} \cup Range(pushed)
  /\ backlog' = backlog \cup {c}
  /\ UNCHANGED <<threads, client, refused, pool>>

PoolStep(w)      == Pool!Step(w) /\ UNCHANGED <<threads, net>>
PoolPropagate(w) == Pool!Propagate(w) /\ UNCHANGED <<threads, net>>
PoolJoinThread   == Pool!JoinThread /\ UNCHANGED <<threads, net>>

Listener == Start \/ Lock \/ While \/ Poll \/ Accept \/ Push \/ Cleanup
Owner    == Stopped \/ Destroy \/ JoinPool \/ Gone

Next ==
  \/ Start \/ Lock \/ While \/ Poll \/ Accept \/ Handshake \/ Push \/ Cleanup
  \/ Stop \/ Stopped \/ Destroy \/ JoinPool \/ Gone
  \/ \E c \in Client : Connect(c)
  \/ \E w \in Pool!Worker : PoolStep(w) \/ PoolPropagate(w)
  \/ PoolJoinThread

\* The threads of the process go on.  Nobody has to connect or to call stop(),
\* and a peer may leave its handshake unfinished for ever: SSL_accept blocks,
\* as the time limit of sslFile holds for its own reads and writes only.
Fairness ==
  /\ WF_vars(Listener)
  /\ WF_vars(Owner)
  /\ \A w \in Pool!Worker : WF_vars(PoolStep(w)) /\ WF_vars(PoolPropagate(w))
  /\ WF_vars(PoolJoinThread)

Spec == Init /\ [][Next]_vars /\ Fairness

-----------------------------------------------------------------------------
\* The pool is joined only when the listener has left its loop: no client is
\* pushed into a pool whose threads return, or into freed memory.  This is what
\* stop() takes the lock for (server.cpp:63-66, 83).
NoPushIntoDeadPool == joiner # "none" => listener = "returned"

\* When the Server is gone every client it accepted has been served.
EveryPushedServed ==
  owner = "gone" => client = NoClient /\ Range(pushed) \subseteq ran

\* Why both hold, as an inductive invariant beside the pool's own: the listener
\* holds the lock while it is in its loop, the owner goes on only when it is out
\* again, and the pool is joined, with every push early, after that.
LoopLocked ==
  lock = "listener" <=> listener \notin {"created", "locking", "returned"}

StoppedAfterRun ==
  /\ pushed # << >> => listener \notin {"created", "locking"}
  /\ owner # "owns" => pushed # << >>

JoinedLast ==
  /\ joiner = "none" <=> owner \in {"owns", "stopping", "stopped", "destroying"}
  /\ joiner # "none" => listener = "returned"
  /\ owner = "gone" => joiner = "done"
  /\ early = Len(pushed)

ClientInHand ==
  /\ backlog \subseteq Client
  /\ client # NoClient <=> listener \in {"handshake", "push"}
  /\ client # NoClient => client \in Client

ServerInv == LoopLocked /\ StoppedAfterRun /\ JoinedLast /\ ClientInHand

\* A client past its handshake is served, also when stop() comes in between.
AcceptedIsServed ==
  \A c \in Client : (listener = "push" /\ client = c) ~> (c \in ran)

\* Only an unfinished handshake keeps stop() from returning: not clients that
\* keep coming, nor handlers that are still at work.
StopWaitsForHandshakeOnly ==
  (owner = "stopping") ~> (owner # "stopping" \/ listener = "handshake")

\* What poll_timeout is for ("Time in milliseconds before timeout", config.h:14):
\* the listener comes back to look at _continue, so stop() returns.
StopReturns == (owner = "stopping") ~> (owner # "stopping")
=============================================================================
