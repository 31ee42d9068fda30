------------------------- MODULE EventLoopThreadPool -------------------------
(***************************************************************************)
(* EventLoopThread and EventLoopThreadPool: an owner that starts threads   *)
(* with a libuv loop each, hands them connections and destroys them again. *)
(* The owner is a TcpServer, which calls getNextLoop() when libuv reports  *)
(* a connection, or another caller of the two classes.                     *)
(*                                                                         *)
(* uv_run() is modelled by what its documentation says: it returns 0 when  *)
(* no handle is left, something else when uv_stop() has been called, and   *)
(* clears that flag either way; uv_stop() does not wake a loop that is     *)
(* waiting for events; and a handle that another thread adds to a waiting  *)
(* loop is not waited for before the next iteration.  The unsynchronised   *)
(* accesses are single steps.  mutex_ is not modelled: the thread takes it *)
(* only when it ends, which nobody waits for but the destructor.           *)
(***************************************************************************)
EXTENDS Integers, Sequences, FiniteSets

CONSTANTS
  MaxThreads, \* bound: threads that are created
  MaxCalls,   \* bound: calls of setThreadNums() with threads to create
  MaxConns    \* bound: connections

ASSUME BoundsOK == MaxThreads \in Nat /\ MaxCalls \in Nat /\ MaxConns \in Nat

VARIABLES
  caller,    \* who owns the pool: "TcpServer" or "other"
  owner,     \* the owner's thread: where it is, and for which thread
  calls,     \* setThreadNums() has been called so often (history)
  started,   \* started_ of each thread in threadList_
  loop,      \* loop_ is not null, of each thread in threadList_
  loopList,  \* loopList_, a loop being named after its thread
  next,      \* next_
  thread,    \* where each thread is in threadFunc()
  stop,      \* stop_flag of each loop
  conns,     \* the connections with an active handle, of each loop
  watched,   \* those of them that the poll in progress waits for
  data,      \* the connections with data that is not read yet
  given,     \* the loops given out by getNextLoop() (history)
  pending,   \* connections in the backlog of the listening socket
  listening, \* libuv waits for connections
  missed     \* a notify_one() has come between test and wait (history)

ownerVars == <<caller, owner, calls, loopList, next, given>>
threadVars == <<started, loop, thread, stop, conns, watched>>
socketVars == <<data, pending, listening>>
vars == <<ownerVars, threadVars, socketVars, missed>>

Threads == 1..Len(thread)
Conns == 1..MaxConns
Attached == UNION {conns[t] : t \in Threads}

Init ==
  /\ caller \in {"TcpServer", "other"}
  /\ owner = [at |-> "idle", of |-> 1, to |-> 0]
  /\ calls = 0
  /\ started = <<>> /\ loop = <<>> /\ loopList = <<>> /\ next = 1
  /\ thread = <<>> /\ stop = <<>> /\ conns = <<>> /\ watched = <<>>
  /\ data = {} /\ given = <<>>
  /\ pending = 0 /\ listening = TRUE
  /\ missed = FALSE

-----------------------------------------------------------------------------
(* The owner. *)

OwnerAt(at) == owner.at = at
OwnerGoes(at) == owner' = [owner EXCEPT !.at = at]

(* setThreadNums(n): for each i < n, a thread is created at the end of     *)
(* threadList_, and thread i of the list is waited for, which is another   *)
(* one when threads have been created before.                              *)
SetThreadNums ==
  /\ OwnerAt("idle") /\ given = <<>>
  /\ calls < MaxCalls
  /\ \E n \in 1..(MaxThreads - Len(thread)) : owner' = [at |-> "create", of |-> 1, to |-> n]
  /\ calls' = calls + 1
  /\ UNCHANGED <<caller, loopList, next, given>> /\ UNCHANGED <<threadVars, socketVars, missed>>

(* EventLoopThread(): the thread runs before started_, which no            *)
(* constructor writes, and condition_ are constructed.                     *)
CreateThread ==
  /\ OwnerAt("create")
  /\ \E garbage \in BOOLEAN : started' = Append(started, garbage)
  /\ loop' = Append(loop, TRUE)
  /\ thread' = Append(thread, "func")
  /\ stop' = Append(stop, FALSE)
  /\ conns' = Append(conns, {})
  /\ watched' = Append(watched, {})
  /\ OwnerGoes("test")
  /\ UNCHANGED <<caller, calls, loopList, next, given>> /\ UNCHANGED <<socketVars, missed>>

(* startLoop(): the predicate of condition_.wait().  When it holds, the    *)
(* loop is entered in loopList_, and the next i is taken.                  *)
TestStarted ==
  /\ OwnerAt("test")
  /\ \/ ~started[owner.of] /\ OwnerGoes("wait") /\ UNCHANGED loopList
     \/ /\ started[owner.of]
        /\ loopList' = Append(loopList, owner.of)
        /\ owner' = IF owner.of = owner.to
                    THEN [owner EXCEPT !.at = "idle"]
                    ELSE [owner EXCEPT !.at = "create", !.of = @ + 1]
  /\ UNCHANGED <<caller, calls, next, given>> /\ UNCHANGED <<threadVars, socketVars, missed>>

Wait ==
  /\ OwnerAt("wait")
  /\ OwnerGoes("asleep")
  /\ UNCHANGED <<caller, calls, loopList, next, given>> /\ UNCHANGED <<threadVars, socketVars, missed>>

(* wait() may return without a notification. *)
WakeUnasked ==
  /\ OwnerAt("asleep")
  /\ OwnerGoes("test")
  /\ UNCHANGED <<caller, calls, loopList, next, given>> /\ UNCHANGED <<threadVars, socketVars, missed>>

-----------------------------------------------------------------------------
(* Mutant: the wrap-around comes one too early. *)
NextAfter_Early(n) == IF n + 1 >= Len(loopList) THEN 1 ELSE n + 1

(* getNextLoop(): next_ goes round. *)
NextAfter(n) == IF n = Len(loopList) THEN 1 ELSE n + 1
GetNextLoop ==
  /\ given' = Append(given, loopList[next])
  /\ next' = NextAfter(next)

(* A handle is started on loop t, from the owner's thread. *)
StartRead(t, c) == conns' = [conns EXCEPT ![t] = @ \cup {c}]

NewConn == Len(given) + 1

(* Another caller has a new connection and starts to read it on a loop.    *)
Assign ==
  /\ caller = "other" /\ OwnerAt("idle") /\ thread # <<>>
  /\ NewConn <= MaxConns
  /\ GetNextLoop
  /\ StartRead(loopList[next], NewConn)
  /\ UNCHANGED <<caller, owner, calls, loopList>>
  /\ UNCHANGED <<started, loop, thread, stop, watched>> /\ UNCHANGED <<socketVars, missed>>

(* A client connects to the listening socket of a TcpServer. *)
Connects ==
  /\ caller = "TcpServer" /\ OwnerAt("idle") /\ thread # <<>>
  /\ pending + Len(given) < MaxConns
  /\ pending' = pending + 1
  /\ UNCHANGED <<data, listening>> /\ UNCHANGED <<ownerVars, threadVars, missed>>

(* on_uv_connection() with threads: libuv has accepted a connection, and   *)
(* waits for no other until uv_accept() takes it.  It is never called:     *)
(* native_accept() accepts the next one in the backlog, if there is one.   *)
OnConnection ==
  /\ caller = "TcpServer" /\ OwnerAt("idle") /\ thread # <<>>
  /\ listening /\ pending > 0
  /\ GetNextLoop
  /\ IF pending > 1
     THEN StartRead(loopList[next], NewConn) /\ pending' = pending - 2
     ELSE pending' = 0 /\ UNCHANGED conns
  /\ listening' = FALSE
  /\ UNCHANGED <<caller, owner, calls, loopList>>
  /\ UNCHANGED <<started, loop, thread, stop, watched, data, missed>>

-----------------------------------------------------------------------------
(* ~EventLoopThreadPool(): the threads are stopped and joined in order.    *)
Destroy ==
  /\ OwnerAt("idle")
  /\ owner' = [owner EXCEPT !.at = IF thread = <<>> THEN "gone" ELSE "stop", !.of = 1]
  /\ UNCHANGED <<caller, calls, loopList, next, given>> /\ UNCHANGED <<threadVars, socketVars, missed>>

(* ~EventLoopThread() *)
UvStop ==
  /\ OwnerAt("stop")
  /\ stop' = [stop EXCEPT ![owner.of] = TRUE]
  /\ OwnerGoes("join")
  /\ UNCHANGED <<caller, calls, loopList, next, given>>
  /\ UNCHANGED <<started, loop, thread, conns, watched, socketVars, missed>>

Join ==
  /\ OwnerAt("join")
  /\ thread[owner.of] = "done"
  /\ owner' = IF owner.of = Len(thread)
              THEN [owner EXCEPT !.at = "gone"]
              ELSE [owner EXCEPT !.at = "stop", !.of = @ + 1]
  /\ UNCHANGED <<caller, calls, loopList, next, given>> /\ UNCHANGED <<threadVars, socketVars, missed>>

-----------------------------------------------------------------------------
(* Thread t. *)

ThreadGoes(t, at) == thread' = [thread EXCEPT ![t] = at]

(* Mutant: the thread waits for the owner to wait for it. *)
SetStarted_Late(t) ==
  /\ thread[t] = "func" /\ OwnerAt("asleep") /\ owner.of = t
  /\ started' = [started EXCEPT ![t] = TRUE]
  /\ ThreadGoes(t, "notify")
  /\ UNCHANGED <<loop, stop, conns, watched, ownerVars, socketVars, missed>>

(* threadFunc(): started_ is set without mutex_. *)
SetStarted(t) ==
  /\ thread[t] = "func"
  /\ started' = [started EXCEPT ![t] = TRUE]
  /\ ThreadGoes(t, "notify")
  /\ UNCHANGED <<loop, stop, conns, watched>> /\ UNCHANGED <<ownerVars, socketVars, missed>>

(* Mutant: nobody is notified. *)
Notify_None(t) ==
  /\ thread[t] = "notify"
  /\ ThreadGoes(t, "run")
  /\ UNCHANGED <<started, loop, stop, conns, watched, ownerVars, socketVars, missed>>

(* condition_.notify_one(), without the mutex. *)
Notify(t) ==
  /\ thread[t] = "notify"
  /\ ThreadGoes(t, "run")
  /\ IF OwnerAt("asleep") /\ owner.of = t THEN OwnerGoes("test") ELSE UNCHANGED owner
  /\ missed' = (missed \/ (OwnerAt("wait") /\ owner.of = t))
  /\ UNCHANGED <<started, loop, stop, conns, watched, caller, calls, loopList, next, given, socketVars>>

(* Mutant: the thread ends when uv_run() returns 0. *)
RunEmpty_Ends(t) ==
  /\ thread[t] = "run" /\ conns[t] = {}
  /\ stop' = [stop EXCEPT ![t] = FALSE]
  /\ ThreadGoes(t, "exit")
  /\ UNCHANGED <<started, loop, conns, watched>> /\ UNCHANGED <<ownerVars, socketVars, missed>>

(* uv_run() without a handle returns 0, and is called again at once.       *)
RunEmpty(t) ==
  /\ thread[t] = "run" /\ conns[t] = {}
  /\ stop' = [stop EXCEPT ![t] = FALSE]
  /\ UNCHANGED <<started, loop, thread, conns, watched>> /\ UNCHANGED <<ownerVars, socketVars, missed>>

(* uv_run() with a handle, stopped: the loop of threadFunc() is left.      *)
RunStopped(t) ==
  /\ thread[t] = "run" /\ conns[t] # {} /\ stop[t]
  /\ stop' = [stop EXCEPT ![t] = FALSE]
  /\ ThreadGoes(t, "exit")
  /\ UNCHANGED <<started, loop, conns, watched>> /\ UNCHANGED <<ownerVars, socketVars, missed>>

(* An iteration of uv_run() registers what was added, and waits.           *)
Poll(t) ==
  /\ thread[t] = "run" /\ conns[t] # {} /\ ~stop[t]
  /\ watched' = [watched EXCEPT ![t] = conns[t]]
  /\ ThreadGoes(t, "poll")
  /\ UNCHANGED <<started, loop, stop, conns>> /\ UNCHANGED <<ownerVars, socketVars, missed>>

(* What has arrived is read; any of these connections may end there.       *)
Events(t) ==
  /\ thread[t] = "poll" /\ watched[t] \cap data # {}
  /\ \E ended \in SUBSET (watched[t] \cap data) : conns' = [conns EXCEPT ![t] = @ \ ended]
  /\ data' = data \ watched[t]
  /\ ThreadGoes(t, "run")
  /\ UNCHANGED <<started, loop, stop, watched, pending, listening>> /\ UNCHANGED <<ownerVars, missed>>

Exit(t) ==
  /\ thread[t] = "exit"
  /\ loop' = [loop EXCEPT ![t] = FALSE]
  /\ ThreadGoes(t, "done")
  /\ UNCHANGED <<started, stop, conns, watched>> /\ UNCHANGED <<ownerVars, socketVars, missed>>

ThreadStep(t) ==
  SetStarted(t) \/ Notify(t) \/ RunEmpty(t) \/ RunStopped(t) \/ Poll(t) \/ Events(t) \/ Exit(t)

(* A client sends. *)
Arrives ==
  /\ \E c \in Attached \ data : data' = data \cup {c}
  /\ UNCHANGED <<pending, listening>> /\ UNCHANGED <<ownerVars, threadVars, missed>>

OwnerStep ==
  SetThreadNums \/ CreateThread \/ TestStarted \/ Wait \/ WakeUnasked \/ Assign \/ OnConnection
  \/ Destroy \/ UvStop \/ Join

Next == OwnerStep \/ Connects \/ Arrives \/ \E t \in Threads : ThreadStep(t)

(* The threads run, and the owner's does inside its calls.  Nobody has to  *)
(* call, to send, or to wake up unasked.                                   *)
Spec ==
  /\ Init /\ [][Next]_vars
  /\ WF_vars(CreateThread \/ TestStarted \/ Wait \/ UvStop \/ Join)
  /\ \A t \in 1..MaxThreads : WF_vars(t \in Threads /\ ThreadStep(t))

-----------------------------------------------------------------------------
(* Properties. *)

(* startLoop() returns (EventLoopThread.cpp:45), unless the notification,  *)
(* for which the thread does not take mutex_ (:26), came after the         *)
(* predicate was tested and before the wait.                               *)
StartLoopReturns == OwnerAt("test") ~> (OwnerAt("idle") \/ OwnerAt("gone") \/ missed)

(* Nobody uses loop_ after threadFunc() has set it to null                 *)
(* (EventLoopThread.cpp:42): not startLoop(), which is called again for    *)
(* the same thread by a second setThreadNums(), not getNextLoop(), and not *)
(* uv_stop() in the destructor.  A thread ends only with connections still *)
(* open on its loop (:31-34): one whose connections are all closed spins,  *)
(* and the destructor of the pool waits for it for ever.                   *)
LoopNotNull ==
  /\ owner.at \in {"test", "wait", "asleep", "stop"} => loop[owner.of]
  /\ OwnerAt("idle") => \A k \in 1..Len(loopList) : loop[loopList[k]]
  /\ \A t \in Threads : thread[t] \in {"exit", "done"} => conns[t] # {}

(* How often the loop of thread t has been given out. *)
Load(t) == Cardinality({k \in 1..Len(given) : given[k] = t})

(* getNextLoop() spreads what it gives out evenly over the threads that    *)
(* one setThreadNums() has created (EventLoopThreadPool.cpp:15).  From a   *)
(* TcpServer there is one connection to spread (TcpServer.cpp:40): libuv   *)
(* accepts no other while the first one that it has accepted is not taken  *)
(* with uv_accept().                                                       *)
Balanced ==
  /\ calls = 1 /\ OwnerAt("idle") => \A s, t \in Threads : Load(s) - Load(t) \in -1..1
  /\ caller = "TcpServer" => Len(given) <= 1

(* Data of a connection is read, or its loop ends, if the loop is not      *)
(* waiting for other connections only: a loop that is does not see the     *)
(* handle that TcpServer starts from another thread (TcpServer.cpp:48).    *)
Served ==
  \A c \in Conns, t \in 1..MaxThreads :
    (/\ t \in Threads /\ c \in conns[t] \cap data
     /\ thread[t] = "poll" => c \in watched[t])
    ~> (c \notin data \/ (t \in Threads /\ thread[t] \in {"exit", "done"}))

(* The destructor returns from join() (EventLoopThread.cpp:55), unless the *)
(* loop has nothing to do, as uv_stop() does not wake it, or has no handle *)
(* left, in which case uv_run() is called again.                           *)
JoinReturns ==
  \A t \in 1..MaxThreads :
    (OwnerAt("join") /\ owner.of = t)
    ~> (\/ ~OwnerAt("join") \/ owner.of # t
        \/ conns[t] = {}
        \/ (thread[t] = "poll" /\ watched[t] \cap data = {}))

(* The calls of the pool return. *)
CallsReturn == StartLoopReturns /\ JoinReturns
=============================================================================
