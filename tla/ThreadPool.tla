----------------------------- MODULE ThreadPool -----------------------------
(***************************************************************************)
(* The worker pool of include/thread_pool.h.                               *)
(*                                                                         *)
(* A fixed vector of threads runs _main: while _continue holds they take   *)
(* the front of the deque and call it, sleeping 10 ms when it is empty;    *)
(* once _continue is false they call what is left and return.  push() and  *)
(* _pop() hold _task_mutex, so each is one step.  _continue is a plain     *)
(* bool written by join() and read by every worker: a data race.  A worker *)
(* reads it again on every round (the locked _pop() lies between two       *)
(* reads), but may go on reading true for a while after join() wrote       *)
(* false.  sees[w] is the value worker w reads at present.                 *)
(***************************************************************************)
EXTENDS Naturals, Sequences, Functions

CONSTANTS Task,     \* the packaged_task objects that callers push, each at most once
          NoTask,   \* an empty task_type
          Threads   \* the argument of the constructor (5 in server.cpp:68)

ASSUME ThreadsAssumption == Threads \in Nat \ {0}
ASSUME NoTaskAssumption  == NoTask \notin Task

Worker == 1..Threads

VARIABLES task,      \* _task, front first
          continue,  \* _continue, as join() last wrote it
          sees,      \* sees[w]: _continue, as worker w reads it
          pc,        \* pc[w]: where worker w is in _main
          mine,      \* mine[w]: the local variable task of _main
          joiner,    \* "none", "joining" or "done": the call of join()
          joined,    \* how many threads join() has joined
          pushed,    \* history: every task pushed, in the order of push()
          early,     \* history: how many of them before join() was called
          taken,     \* history: how many of them left the deque
          ran        \* history: the tasks whose call has returned

poolVars == <<task, continue, sees, pc, mine, joiner, joined>>
history  == <<pushed, early, taken, ran>>
vars     == <<poolVars, history>>

PC == {"while", "pop", "sleep", "call", "drain", "rest", "exited"}

TypeOK ==
  /\ task \in Seq(Task)
  /\ continue \in BOOLEAN
  /\ sees \in [Worker -> BOOLEAN]
  /\ pc \in [Worker -> PC]
  /\ mine \in [Worker -> Task \cup {NoTask}]
  /\ joiner \in {"none", "joining", "done"}
  /\ joined \in 0..Threads
  /\ pushed \in Seq(Task)
  /\ early \in Nat
  /\ taken \in Nat
  /\ ran \in SUBSET Task

Init ==
  /\ task = << >>
  /\ continue = TRUE
  /\ sees = [w \in Worker |-> TRUE]
  /\ pc = [w \in Worker |-> "while"]
  /\ mine = [w \in Worker |-> NoTask]
  /\ joiner = "none"
  /\ joined = 0
  /\ pushed = << >>
  /\ early = 0
  /\ taken = 0
  /\ ran = {}

-----------------------------------------------------------------------------
Goto(w, label) == pc' = [pc EXCEPT ![w] = label]

\* A slip FifoOrder rules out: emplace_front.
PushFront(t) ==
  /\ joiner # "done"
  /\ t \notin Range(pushed)
  /\ task' = <<t>> \o task
  /\ pushed' = Append(pushed, t)
  /\ early' = IF continue THEN early + 1 ELSE early
  /\ UNCHANGED <<continue, sees, pc, mine, joiner, joined, taken, ran>>

\* push() does not look at _continue: it also accepts while join() waits.
Push(t) ==
  /\ joiner # "done"
  /\ t \notin Range(pushed)
  /\ task' = Append(task, t)
  /\ pushed' = Append(pushed, t)
  /\ early' = IF continue THEN early + 1 ELSE early
  /\ UNCHANGED <<continue, sees, pc, mine, joiner, joined, taken, ran>>

\* The write of join() reaches worker w.
Propagate(w) ==
  /\ sees[w] # continue
  /\ sees' = [sees EXCEPT ![w] = continue]
  /\ UNCHANGED <<task, continue, pc, mine, joiner, joined, history>>

\* Slips JoinDrains, EarlyTaskRuns and JoinReturns rule out: the second loop of
\* _main forgotten, and the flag never looked at.
ReadContinueNoDrain(w) ==
  /\ pc[w] = "while"
  /\ Goto(w, IF sees[w] THEN "pop" ELSE "exited")
  /\ UNCHANGED <<task, continue, sees, mine, joiner, joined, history>>

ReadContinueNever(w) ==
  /\ pc[w] = "while"
  /\ Goto(w, "pop")
  /\ UNCHANGED <<task, continue, sees, mine, joiner, joined, history>>

ReadContinue(w) ==
  /\ pc[w] = "while"
  /\ Goto(w, IF sees[w] THEN "pop" ELSE "drain")
  /\ UNCHANGED <<task, continue, sees, mine, joiner, joined, history>>

\* A slip RunsOnce rules out: pop_front forgotten.
_popKeepsFront(w, from, found, none) ==
  /\ pc[w] = from
  /\ \/ task = << >> /\ Goto(w, none) /\ UNCHANGED <<mine, taken>>
     \/ /\ task # << >>
        /\ mine' = [mine EXCEPT ![w] = Head(task)]
        /\ taken' = taken + 1
        /\ Goto(w, found)
  /\ UNCHANGED <<task, continue, sees, joiner, joined, pushed, early, ran>>

\* _pop() called at label `from': the front is moved into the local variable
\* and worker w goes to `found', or the deque is empty and it goes to `none'.
_pop(w, from, found, none) ==
  /\ pc[w] = from
  /\ \/ /\ task = << >>
        /\ Goto(w, none)
        /\ UNCHANGED <<task, mine, taken>>
     \/ /\ task # << >>
        /\ mine' = [mine EXCEPT ![w] = Head(task)]
        /\ task' = Tail(task)
        /\ taken' = taken + 1
        /\ Goto(w, found)
  /\ UNCHANGED <<continue, sees, joiner, joined, pushed, early, ran>>

Pop(w)      == _pop(w, "pop", "call", "sleep")
DrainPop(w) == _pop(w, "drain", "rest", "exited")

Sleep(w) ==
  /\ pc[w] = "sleep"
  /\ Goto(w, "while")
  /\ UNCHANGED <<task, continue, sees, mine, joiner, joined, history>>

\* task() returns.  A packaged_task stores an exception of the callable in the
\* future, so the thread goes on either way.
_call(w, from, next) ==
  /\ pc[w] = from
  /\ ran' = ran \cup {mine[w]}
  /\ mine' = [mine EXCEPT ![w] = NoTask]
  /\ Goto(w, next)
  /\ UNCHANGED <<task, continue, sees, joiner, joined, pushed, early, taken>>

Call(w)      == _call(w, "call", "while")
DrainCall(w) == _call(w, "rest", "drain")

\* A second call finds _continue false and returns at once: it changes nothing.
Join ==
  /\ joiner = "none"
  /\ continue
  /\ continue' = FALSE
  /\ joiner' = "joining"
  /\ UNCHANGED <<task, sees, pc, mine, joined, history>>

\* Slips QuietAfterJoin and TypeOK rule out: join() does not wait for the thread,
\* or goes on behind the last one.
JoinThreadDetached ==
  /\ joiner = "joining"
  /\ joined' = joined + 1
  /\ joiner' = IF joined + 1 = Threads THEN "done" ELSE "joining"
  /\ UNCHANGED <<task, continue, sees, pc, mine, history>>

JoinThreadPastEnd ==
  /\ joiner = "joining"
  /\ \A w \in Worker : w = joined + 1 => pc[w] = "exited"
  /\ joined' = joined + 1
  /\ joiner' = IF joined = Threads THEN "done" ELSE "joining"
  /\ UNCHANGED <<task, continue, sees, pc, mine, history>>

\* t.join() of the next thread of the vector returns.
JoinThread ==
  /\ joiner = "joining"
  /\ pc[joined + 1] = "exited"
  /\ joined' = joined + 1
  /\ joiner' = IF joined + 1 = Threads THEN "done" ELSE "joining"
  /\ UNCHANGED <<task, continue, sees, pc, mine, history>>

Step(w) ==
  \/ ReadContinue(w)
  \/ Pop(w)
  \/ Sleep(w)
  \/ Call(w)
  \/ DrainPop(w)
  \/ DrainCall(w)

Next ==
  \/ \E t \in Task : Push(t)
  \/ \E w \in Worker : Step(w)
  \/ \E w \in Worker : Propagate(w)
  \/ Join
  \/ JoinThread

\* Every thread is scheduled, a write becomes visible, every task returns, and
\* a join() that was called goes on.  Nobody has to push or to call join().
Fairness ==
  /\ \A w \in Worker : WF_vars(Step(w)) /\ WF_vars(Propagate(w))
  /\ WF_vars(JoinThread)

Spec == Init /\ [][Next]_vars /\ Fairness

-----------------------------------------------------------------------------
(* Safety *)

\* The deque is the part of what was pushed that no thread took, in the order
\* of the pushes: tasks start in the order they were pushed, none is dropped
\* by the two locked sections and none is invented (thread_pool.h:36-43, 54-64).
FifoOrder ==
  /\ Len(pushed) = taken + Len(task)
  /\ \A i \in 1..Len(task) : task[i] = pushed[taken + i]

\* A task is called by one thread only and only once: what a worker holds has
\* not run, is not in the deque and is held by no other worker.
RunsOnce ==
  \A w \in Worker : mine[w] # NoTask =>
    /\ mine[w] \notin ran
    /\ mine[w] \notin Range(task)
    /\ \A v \in Worker : mine[v] = mine[w] => v = w

\* The tasks pushed before join() was called have all run when it returns
\* (thread_pool.h:78 "Execute remaining tasks").
JoinDrains ==
  joiner = "done" => \A i \in 1..early : pushed[i] \in ran

\* Once join() has returned (the destructor then frees the deque and the
\* mutex) no thread of the pool takes another step.
QuietAfterJoin ==
  [][joiner = "done" => UNCHANGED <<pc, mine, task, ran>>]_vars

-----------------------------------------------------------------------------
(* Liveness *)

\* A task pushed before join() is called runs, whether or not join() follows.
EarlyTaskRuns ==
  \A t \in Task :
    (\E i \in 1..early : pushed[i] = t) ~> (t \in ran)

\* join() returns although threads may be asleep or busy when it is called.
JoinReturns == (joiner = "joining") ~> (joiner = "done")

-----------------------------------------------------------------------------
(* The inductive invariant: why JoinDrains holds. *)

\* The flag only goes from true to false, and the threads learn it late.
FlagOrder ==
  /\ continue <=> joiner = "none"
  /\ \A w \in Worker : ~sees[w] => ~continue
  /\ \A w \in Worker : pc[w] \in {"drain", "rest", "exited"} => ~sees[w]

\* A worker holds a task exactly while it is about to call it.
HoldsWhileCalling ==
  \A w \in Worker : mine[w] # NoTask <=> pc[w] \in {"call", "rest"}

\* Whatever left the deque has run or is held.
TakenIsRunOrHeld ==
  \A i \in 1..taken :
    pushed[i] \in ran \/ \E w \in Worker : mine[w] = pushed[i]

\* A thread returns only on an empty deque, after the flag fell: by then every
\* early task had been taken.
ExitMeansTaken ==
  /\ early <= Len(pushed)
  /\ continue => early = Len(pushed)
  /\ \A w \in Worker : pc[w] = "exited" => early <= taken

\* join() counts the threads that have returned.
JoinedHaveExited ==
  /\ \A w \in 1..joined : pc[w] = "exited"
  /\ joiner = "done" <=> joined = Threads

IInv ==
  /\ TypeOK
  /\ FifoOrder
  /\ FlagOrder
  /\ HoldsWhileCalling
  /\ TakenIsRunOrHeld
  /\ ExitMeansTaken
  /\ JoinedHaveExited

\* Why RunsOnce holds: no task is pushed twice, and what ran or is held is
\* among the tasks that left the deque, each with one holder at most.
PushedOnce ==
  \A i, j \in 1..Len(pushed) : pushed[i] = pushed[j] => i = j

Taken(t) == \E i \in 1..taken : pushed[i] = t

HolderUnique ==
  \A w \in Worker : mine[w] # NoTask =>
    /\ mine[w] \notin ran
    /\ \A v \in Worker : mine[v] = mine[w] => v = w

OnceInv ==
  /\ PushedOnce
  /\ \A t \in ran : Taken(t)
  /\ \A w \in Worker : mine[w] # NoTask => Taken(mine[w])
  /\ HolderUnique

\* The invariant of the proofs: inductive as it stands.
Inductive == IInv /\ OnceInv
=============================================================================
