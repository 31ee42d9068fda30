--------------------- MODULE EventLoopThreadPoolProofs ---------------------
(* Theorems about EventLoopThreadPool, for any number of threads, of calls *)
(* of setThreadNums() and of connections.                                  *)
EXTENDS EventLoopThreadPool, SequenceTheorems, FiniteSetTheorems, TLAPS

Places == {"func", "notify", "run", "poll", "exit", "done"}
OwnerPlaces == {"idle", "create", "test", "wait", "asleep", "stop", "join", "gone"}

(* The owner has called uv_stop() on loop t. *)
StopAsked(t) ==
  \/ owner.at = "gone"
  \/ owner.at = "stop" /\ t < owner.of
  \/ owner.at = "join" /\ t <= owner.of

TypeInv ==
  /\ owner \in [at : OwnerPlaces, of : Nat, to : Nat]
  /\ thread \in Seq(Places)
  /\ loop \in Seq(BOOLEAN) /\ Len(loop) = Len(thread)
  /\ stop \in Seq(BOOLEAN) /\ Len(stop) = Len(thread)
  /\ conns \in Seq(SUBSET Nat) /\ Len(conns) = Len(thread)
  /\ loopList \in Seq(Nat)
  /\ given \in Seq(Nat)
  /\ next \in Nat \ {0}

(* Where the owner is in its calls: startLoop() waits for a thread that    *)
(* exists, loopList_ names such threads only and has one loop for each     *)
(* when nothing is being started, and next_ lies in it.                    *)
OwnerInv ==
  /\ OwnerAt("create") => owner.of \in 1..(Len(thread) + 1)
  /\ owner.at \in {"test", "wait", "asleep", "stop", "join"} => owner.of \in Threads
  /\ \A k \in 1..Len(loopList) : loopList[k] \in Threads
  /\ owner.at \in {"idle", "create"} => Len(loopList) = Len(thread)
  /\ owner.at \in {"test", "wait", "asleep"} => Len(loopList) + 1 = Len(thread)
  /\ next = 1 \/ next <= Len(loopList)

(* A thread ends only when it is asked to, and with a connection.          *)
ThreadInv ==
  \A t \in Threads :
    /\ loop[t] = (thread[t] # "done")
    /\ thread[t] \in {"exit", "done"} => conns[t] # {}
    /\ stop[t] \/ thread[t] \in {"exit", "done"} => StopAsked(t)

PoolInv == TypeInv /\ OwnerInv /\ ThreadInv

LEMMA PoolInitial == Init => PoolInv
<1> SUFFICES ASSUME Init PROVE PoolInv
  OBVIOUS
<1>1. /\ thread = <<>> /\ loop = <<>> /\ stop = <<>> /\ conns = <<>> /\ loopList = <<>>
      /\ given = <<>> /\ owner = [at |-> "idle", of |-> 1, to |-> 0] /\ next = 1
  BY DEF Init
<1>2. Len(thread) = 0 /\ Threads = {} /\ 1..Len(loopList) = {}
  BY <1>1 DEF Threads
<1>3. TypeInv
  BY <1>1 DEF TypeInv, OwnerPlaces
<1> QED
  BY <1>1, <1>2, <1>3 DEF PoolInv, OwnerInv, ThreadInv, OwnerAt

(* A step of the owner that changes nothing of the threads, nor next_.     *)
LEMMA OwnerOnly ==
  ASSUME PoolInv, UNCHANGED <<thread, loop, stop, conns, next, given>>,
         TypeInv', OwnerInv',
         \A t \in Threads : StopAsked(t) => StopAsked(t)'
  PROVE  PoolInv'
<1>1. Threads' = Threads
  BY DEF Threads
<1> QED
  BY <1>1 DEF PoolInv, ThreadInv

LEMMA SetThreadNumsPool == ASSUME PoolInv, SetThreadNums PROVE PoolInv'
<1>1. PICK n \in 1..(MaxThreads - Len(thread)) : owner' = [at |-> "create", of |-> 1, to |-> n]
  BY DEF SetThreadNums
<1>2. UNCHANGED <<thread, loop, stop, conns, next, given, loopList>> /\ OwnerAt("idle")
  BY DEF SetThreadNums, threadVars
<1>3. Len(thread) \in Nat /\ n \in Nat
  BY <1>1, BoundsOK, LenProperties DEF PoolInv, TypeInv, BoundsOK
<1>4. TypeInv'
  BY <1>1, <1>2, <1>3 DEF PoolInv, TypeInv, OwnerPlaces
<1>5. OwnerInv'
  BY <1>1, <1>2, <1>3 DEF PoolInv, OwnerInv, OwnerAt, Threads
<1>6. \A t \in Threads : ~StopAsked(t)
  BY <1>2 DEF StopAsked, OwnerAt
<1> QED
  BY <1>2, <1>4, <1>5, <1>6, OwnerOnly

LEMMA AppendAny ==
  ASSUME NEW S, NEW s \in Seq(S), NEW b \in S
  PROVE  /\ Append(s, b) \in Seq(S)
         /\ Len(Append(s, b)) = Len(s) + 1
         /\ Append(s, b)[Len(s) + 1] = b
         /\ \A t \in 1..Len(s) : Append(s, b)[t] = s[t]
BY AppendProperties

LEMMA AppendFlag ==
  ASSUME NEW s \in Seq(BOOLEAN), NEW b \in BOOLEAN
  PROVE  /\ Append(s, b) \in Seq(BOOLEAN)
         /\ Len(Append(s, b)) = Len(s) + 1
         /\ Append(s, b)[Len(s) + 1] = b
         /\ \A t \in 1..Len(s) : Append(s, b)[t] = s[t]
<1> DEFINE B == BOOLEAN
<1>1. s \in Seq(B) /\ b \in B
  OBVIOUS
<1>2. Append(s, b) \in Seq(B)
  <2> HIDE DEF B
  <2> QED
    BY <1>1, AppendAny
<1>3. /\ Len(Append(s, b)) = Len(s) + 1
      /\ Append(s, b)[Len(s) + 1] = b
      /\ \A t \in 1..Len(s) : Append(s, b)[t] = s[t]
  <2> HIDE DEF B
  <2> QED
    BY <1>1, AppendAny
<1> QED
  BY <1>2, <1>3, Zenon

LEMMA CreateThreadPool == ASSUME PoolInv, CreateThread PROVE PoolInv'
<1> DEFINE n == Len(thread)
<1>1. /\ loop' = Append(loop, TRUE)
      /\ thread' = Append(thread, "func")
      /\ stop' = Append(stop, FALSE)
      /\ conns' = Append(conns, {})
      /\ owner' = [owner EXCEPT !.at = "test"]
      /\ UNCHANGED <<loopList, next, given>>
      /\ owner.at = "create"
  BY DEF CreateThread, OwnerAt, OwnerGoes
<1>2. n \in Nat /\ n = Len(loop) /\ n = Len(stop) /\ n = Len(conns)
  BY LenProperties DEF PoolInv, TypeInv
<1>3. /\ loop' \in Seq(BOOLEAN) /\ Len(loop') = n + 1 /\ loop'[n + 1] = TRUE
      /\ \A t \in 1..n : loop'[t] = loop[t]
  <2>1. loop \in Seq(BOOLEAN) /\ TRUE \in BOOLEAN
    BY DEF PoolInv, TypeInv
  <2> HIDE DEF n
  <2> QED
    BY <1>1, <1>2, <2>1, AppendFlag
<1>4. /\ stop' \in Seq(BOOLEAN) /\ Len(stop') = n + 1 /\ stop'[n + 1] = FALSE
      /\ \A t \in 1..n : stop'[t] = stop[t]
  <2>1. stop \in Seq(BOOLEAN) /\ FALSE \in BOOLEAN
    BY DEF PoolInv, TypeInv
  <2> HIDE DEF n
  <2> QED
    BY <1>1, <1>2, <2>1, AppendFlag
<1>5. /\ thread' \in Seq(Places) /\ Len(thread') = n + 1 /\ thread'[n + 1] = "func"
      /\ \A t \in 1..n : thread'[t] = thread[t]
  BY <1>1, <1>2, AppendProperties DEF PoolInv, TypeInv, Places
<1>6. /\ conns' \in Seq(SUBSET Nat) /\ Len(conns') = n + 1
      /\ \A t \in 1..n : conns'[t] = conns[t]
  BY <1>1, <1>2, AppendProperties DEF PoolInv, TypeInv
<1>7. owner' \in [at : OwnerPlaces, of : Nat, to : Nat] /\ owner'.at = "test" /\ owner'.of = owner.of
  BY <1>1 DEF PoolInv, TypeInv, OwnerPlaces
<1>8. Threads = 1..n /\ Threads' = 1..(n + 1)
  BY <1>5 DEF Threads
<1> HIDE DEF n
<1>9. TypeInv'
  BY <1>1, <1>3, <1>4, <1>5, <1>6, <1>7 DEF PoolInv, TypeInv
<1>10. OwnerInv'
  <2>1. owner.of \in 1..(n + 1) /\ Len(loopList) = n
    BY <1>1 DEF PoolInv, OwnerInv, OwnerAt, n
  <2>2. \A k \in 1..Len(loopList) : loopList[k] \in 1..n
    BY <1>8 DEF PoolInv, OwnerInv
  <2> QED
    BY <1>1, <1>2, <1>5, <1>7, <1>8, <2>1, <2>2 DEF PoolInv, OwnerInv, OwnerAt
<1>11. ThreadInv'
  <2> SUFFICES ASSUME NEW t \in 1..(n + 1)
               PROVE  /\ loop'[t] = (thread'[t] # "done")
                      /\ thread'[t] \notin {"exit", "done"}
                      /\ ~stop'[t]
    BY <1>8 DEF ThreadInv
  <2>1. CASE t = n + 1
    BY <1>3, <1>4, <1>5, <2>1
  <2>2. CASE t \in 1..n
    <3>1. ~StopAsked(t)
      BY <1>1 DEF StopAsked
    <3> QED
      BY <1>3, <1>4, <1>5, <1>8, <2>2, <3>1 DEF PoolInv, ThreadInv
  <2> QED
    BY <1>2, <2>1, <2>2
<1> QED
  BY <1>9, <1>10, <1>11 DEF PoolInv

LEMMA TestStartedPool == ASSUME PoolInv, TestStarted PROVE PoolInv'
<1>1. /\ owner.at = "test" /\ owner.of \in Threads /\ owner.of \in Nat
      /\ UNCHANGED <<thread, loop, stop, conns, next, given>>
      /\ Len(thread) \in Nat
  BY LenProperties DEF TestStarted, threadVars, PoolInv, TypeInv, OwnerInv, OwnerAt
<1>2. \A t \in Threads : ~StopAsked(t)
  BY <1>1 DEF StopAsked
<1>3. CASE OwnerGoes("wait") /\ UNCHANGED loopList
  <2>1. TypeInv'
    BY <1>1, <1>3 DEF PoolInv, TypeInv, OwnerGoes, OwnerPlaces
  <2>2. OwnerInv'
    BY <1>1, <1>3 DEF PoolInv, TypeInv, OwnerInv, OwnerGoes, OwnerAt, Threads
  <2> QED
    BY <1>1, <1>2, <2>1, <2>2, OwnerOnly
<1>4. CASE /\ loopList' = Append(loopList, owner.of)
           /\ owner' = IF owner.of = owner.to
                       THEN [owner EXCEPT !.at = "idle"]
                       ELSE [owner EXCEPT !.at = "create", !.of = owner.of + 1]
  <2>1. /\ loopList' \in Seq(Nat) /\ Len(loopList') = Len(loopList) + 1 /\ Len(loopList) \in Nat
        /\ loopList'[Len(loopList) + 1] = owner.of
        /\ \A k \in 1..Len(loopList) : loopList'[k] = loopList[k]
    BY <1>1, <1>4, AppendProperties, LenProperties DEF PoolInv, TypeInv
  <2>2. /\ owner' \in [at : OwnerPlaces, of : Nat, to : Nat]
        /\ owner'.at \in {"idle", "create"}
        /\ owner'.at = "create" => owner'.of = owner.of + 1
    <3>1. owner \in [at : OwnerPlaces, of : Nat, to : Nat] /\ owner.of + 1 \in Nat
      BY <1>1 DEF PoolInv, TypeInv
    <3>2. CASE owner' = [owner EXCEPT !.at = "idle"]
      BY <3>1, <3>2 DEF OwnerPlaces
    <3>3. CASE owner' = [owner EXCEPT !.at = "create", !.of = owner.of + 1]
      BY <3>1, <3>3 DEF OwnerPlaces
    <3> QED
      BY <1>4, <3>2, <3>3
  <2>3. TypeInv'
    BY <1>1, <2>1, <2>2 DEF PoolInv, TypeInv
  <2>4. Threads' = Threads /\ Len(loopList) + 1 = Len(thread)
    BY <1>1 DEF Threads, PoolInv, OwnerInv
  <2>5. \A k \in 1..Len(loopList') : loopList'[k] \in Threads
    BY <1>1, <2>1 DEF PoolInv, OwnerInv
  <2>6. next = 1 \/ next <= Len(loopList)
    BY DEF PoolInv, OwnerInv
  <2>7. next \in Nat
    BY DEF PoolInv, TypeInv
  <2>8. OwnerInv'
    BY <1>1, <2>1, <2>2, <2>4, <2>5, <2>6, <2>7 DEF OwnerInv, OwnerAt, Threads
  <2> QED
    BY <1>1, <1>2, <2>3, <2>8, OwnerOnly
<1> QED
  BY <1>3, <1>4 DEF TestStarted

-----------------------------------------------------------------------------
LEMMA ExceptAny ==
  ASSUME NEW S, NEW s \in Seq(S), NEW i \in 1..Len(s), NEW e \in S
  PROVE  /\ [s EXCEPT ![i] = e] \in Seq(S)
         /\ Len([s EXCEPT ![i] = e]) = Len(s)
         /\ [s EXCEPT ![i] = e][i] = e
         /\ \A j \in 1..Len(s) : j # i => [s EXCEPT ![i] = e][j] = s[j]
BY ExceptSeq

LEMMA ExceptFlag ==
  ASSUME NEW s \in Seq(BOOLEAN), NEW i \in 1..Len(s), NEW e \in BOOLEAN
  PROVE  /\ [s EXCEPT ![i] = e] \in Seq(BOOLEAN)
         /\ Len([s EXCEPT ![i] = e]) = Len(s)
         /\ [s EXCEPT ![i] = e][i] = e
         /\ \A j \in 1..Len(s) : j # i => [s EXCEPT ![i] = e][j] = s[j]
<1> DEFINE B == BOOLEAN
<1>1. s \in Seq(B) /\ e \in B
  OBVIOUS
<1>2. [s EXCEPT ![i] = e] \in Seq(B)
  <2> HIDE DEF B
  <2> QED
    BY <1>1, ExceptAny
<1>3. /\ Len([s EXCEPT ![i] = e]) = Len(s)
      /\ [s EXCEPT ![i] = e][i] = e
      /\ \A j \in 1..Len(s) : j # i => [s EXCEPT ![i] = e][j] = s[j]
  <2> HIDE DEF B
  <2> QED
    BY <1>1, ExceptAny
<1> QED
  BY <1>2, <1>3, Zenon

(* Putting back what is there changes nothing. *)
LEMMA ExceptSame ==
  ASSUME NEW S, NEW s \in Seq(S), NEW i \in 1..Len(s)
  PROVE  s = [s EXCEPT ![i] = s[i]] /\ s[i] \in S
BY ElementOfSeq, SeqDef

(* What changes of one thread's state, and of what the owner has given     *)
(* out, keeps the invariant if it does so for the owner and that thread.   *)
ThreadBecomes(t, p, l, b, cs) ==
  /\ t \in Threads /\ p \in Places /\ l \in BOOLEAN /\ b \in BOOLEAN /\ cs \in SUBSET Nat
  /\ thread' = [thread EXCEPT ![t] = p] /\ loop' = [loop EXCEPT ![t] = l]
  /\ stop' = [stop EXCEPT ![t] = b] /\ conns' = [conns EXCEPT ![t] = cs]
  /\ l = (p # "done")
  /\ p \in {"exit", "done"} => cs # {}
  /\ b \/ p \in {"exit", "done"} => StopAsked(t)'

(* What the owner may do in the same step. *)
OwnerMay ==
  /\ UNCHANGED loopList /\ given' \in Seq(Nat) /\ next' \in Nat \ {0}
  /\ owner' \in [at : OwnerPlaces, of : Nat, to : Nat]
  /\ Len(thread') = Len(thread) => OwnerInv'
  /\ \A u \in Threads : StopAsked(u) => StopAsked(u)'

LEMMA OneThread ==
  ASSUME PoolInv, OwnerMay, NEW t, NEW p, NEW l, NEW b, NEW cs, ThreadBecomes(t, p, l, b, cs)
  PROVE  PoolInv'
<1> DEFINE n == Len(thread)
<1> USE DEF ThreadBecomes, OwnerMay
<1>1. /\ thread \in Seq(Places) /\ loop \in Seq(BOOLEAN) /\ stop \in Seq(BOOLEAN)
      /\ conns \in Seq(SUBSET Nat)
      /\ Len(loop) = n /\ Len(stop) = n /\ Len(conns) = n
      /\ Threads = 1..n /\ t \in 1..n
  BY DEF PoolInv, TypeInv, Threads
<1>2. /\ thread' \in Seq(Places) /\ Len(thread') = n /\ thread'[t] = p
      /\ \A u \in 1..n : u # t => thread'[u] = thread[u]
  <2> HIDE DEF n
  <2> QED
    BY <1>1, ExceptAny DEF n
<1>3. /\ conns' \in Seq(SUBSET Nat) /\ Len(conns') = n /\ conns'[t] = cs
      /\ \A u \in 1..n : u # t => conns'[u] = conns[u]
  BY <1>1, ExceptAny
<1>4. /\ loop' \in Seq(BOOLEAN) /\ Len(loop') = n /\ loop'[t] = l
      /\ \A u \in 1..n : u # t => loop'[u] = loop[u]
  <2> HIDE DEF n
  <2> QED
    BY <1>1, ExceptFlag
<1>5. /\ stop' \in Seq(BOOLEAN) /\ Len(stop') = n /\ stop'[t] = b
      /\ \A u \in 1..n : u # t => stop'[u] = stop[u]
  <2> HIDE DEF n
  <2> QED
    BY <1>1, ExceptFlag
<1>6. Threads' = Threads
  BY <1>2 DEF Threads
<1> HIDE DEF n
<1>7. TypeInv'
  BY <1>2, <1>3, <1>4, <1>5 DEF PoolInv, TypeInv
<1>8. ThreadInv'
  <2> SUFFICES ASSUME NEW u \in 1..n
               PROVE  /\ loop'[u] = (thread'[u] # "done")
                      /\ thread'[u] \in {"exit", "done"} => conns'[u] # {}
                      /\ stop'[u] \/ thread'[u] \in {"exit", "done"} => StopAsked(u)'
    BY <1>1, <1>6 DEF ThreadInv
  <2>1. CASE u = t
    BY <1>2, <1>3, <1>4, <1>5, <2>1
  <2>2. CASE u # t
    <3>1. /\ thread'[u] = thread[u] /\ conns'[u] = conns[u]
          /\ loop'[u] = loop[u] /\ stop'[u] = stop[u] /\ u \in Threads
      BY <1>1, <1>2, <1>3, <1>4, <1>5, <2>2
    <3> QED
      BY <3>1 DEF PoolInv, ThreadInv
  <2> QED
    BY <2>1, <2>2
<1> QED
  BY <1>2, <1>7, <1>8 DEF PoolInv, n

(* The parts of a thread that a step leaves alone, in the form of OneThread. *)
LEMMA SameThread ==
  ASSUME PoolInv, NEW t \in Threads
  PROVE  /\ thread = [thread EXCEPT ![t] = thread[t]] /\ thread[t] \in Places
         /\ loop = [loop EXCEPT ![t] = loop[t]] /\ loop[t] \in BOOLEAN
         /\ stop = [stop EXCEPT ![t] = stop[t]] /\ stop[t] \in BOOLEAN
         /\ conns = [conns EXCEPT ![t] = conns[t]] /\ conns[t] \in SUBSET Nat
<1>1. /\ thread \in Seq(Places) /\ t \in 1..Len(thread)
      /\ loop \in Seq(BOOLEAN) /\ t \in 1..Len(loop)
      /\ stop \in Seq(BOOLEAN) /\ t \in 1..Len(stop)
      /\ conns \in Seq(SUBSET Nat) /\ t \in 1..Len(conns)
  BY DEF PoolInv, TypeInv, Threads
<1>2. thread = [thread EXCEPT ![t] = thread[t]] /\ thread[t] \in Places
  BY <1>1, ExceptSame
<1>3. conns = [conns EXCEPT ![t] = conns[t]] /\ conns[t] \in SUBSET Nat
  BY <1>1, ExceptSame
<1>4. loop = [loop EXCEPT ![t] = loop[t]] /\ loop[t] \in BOOLEAN
  <2> DEFINE B == BOOLEAN
  <2>1. loop \in Seq(B)
    BY <1>1
  <2> HIDE DEF B
  <2>2. loop = [loop EXCEPT ![t] = loop[t]] /\ loop[t] \in B
    BY <1>1, <2>1, ExceptSame
  <2> QED
    BY <2>2 DEF B
<1>5. stop = [stop EXCEPT ![t] = stop[t]] /\ stop[t] \in BOOLEAN
  <2> DEFINE B == BOOLEAN
  <2>1. stop \in Seq(B)
    BY <1>1
  <2> HIDE DEF B
  <2>2. stop = [stop EXCEPT ![t] = stop[t]] /\ stop[t] \in B
    BY <1>1, <2>1, ExceptSame
  <2> QED
    BY <2>2 DEF B
<1> QED
  BY <1>2, <1>3, <1>4, <1>5

LEMMA OwnerSame ==
  ASSUME PoolInv, UNCHANGED <<owner, loopList, next, given>>
  PROVE  OwnerMay /\ \A u \in Threads : StopAsked(u) => StopAsked(u)'
<1>1. owner' \in [at : OwnerPlaces, of : Nat, to : Nat] /\ given' \in Seq(Nat) /\ next' \in Nat \ {0}
  BY DEF PoolInv, TypeInv
<1>2. Len(thread') = Len(thread) => OwnerInv'
  BY DEF PoolInv, OwnerInv, OwnerAt, Threads
<1>3. \A u \in Threads : StopAsked(u) => StopAsked(u)'
  BY DEF StopAsked
<1> QED
  BY <1>1, <1>2, <1>3 DEF OwnerMay

(* In startLoop() the owner moves between these three places only. *)
LEMMA InStartLoop ==
  ASSUME PoolInv, NEW p \in {"test", "wait", "asleep"}, owner.at \in {"test", "wait", "asleep"},
         OwnerGoes(p), UNCHANGED <<loopList, next, given>>
  PROVE  OwnerMay /\ \A u \in Threads : ~StopAsked(u)
<1>1. /\ owner \in [at : OwnerPlaces, of : Nat, to : Nat] /\ owner' = [owner EXCEPT !.at = p]
      /\ given' \in Seq(Nat) /\ next' \in Nat \ {0}
  BY DEF PoolInv, TypeInv, OwnerGoes
<1>2. owner' \in [at : OwnerPlaces, of : Nat, to : Nat] /\ owner'.at = p /\ owner'.of = owner.of
  BY <1>1 DEF OwnerPlaces
<1>3. ASSUME Len(thread') = Len(thread) PROVE OwnerInv'
  <2>1. /\ owner.of \in Threads /\ Len(loopList) + 1 = Len(thread) /\ Threads' = Threads
        /\ \A k \in 1..Len(loopList) : loopList[k] \in Threads
        /\ next = 1 \/ next <= Len(loopList)
    BY <1>3 DEF PoolInv, OwnerInv, Threads
  <2> QED
    BY <1>2, <1>3, <2>1 DEF OwnerInv, OwnerAt
<1>4. \A u \in Threads : ~StopAsked(u)
  BY DEF StopAsked
<1> QED
  BY <1>1, <1>2, <1>3, <1>4 DEF OwnerMay

LEMMA WaitPool == ASSUME PoolInv, Wait \/ WakeUnasked PROVE PoolInv'
<1>1. PICK p \in {"test", "wait", "asleep"} : OwnerGoes(p)
  BY DEF Wait, WakeUnasked
<1>2. /\ owner.at \in {"test", "wait", "asleep"}
      /\ UNCHANGED <<thread, loop, stop, conns, next, given, loopList>>
  BY DEF Wait, WakeUnasked, threadVars, OwnerAt
<1>3. OwnerMay /\ \A u \in Threads : ~StopAsked(u)
  BY <1>1, <1>2, InStartLoop
<1>4. TypeInv' /\ OwnerInv'
  BY <1>2, <1>3 DEF PoolInv, TypeInv, OwnerMay
<1> QED
  BY <1>2, <1>3, <1>4, OwnerOnly

-----------------------------------------------------------------------------
(* getNextLoop() gives out a loop of the pool, and next_ stays in the list. *)
LEMMA NextLoop ==
  ASSUME PoolInv, GetNextLoop, OwnerAt("idle"), thread # <<>>, UNCHANGED <<loopList, owner>>
  PROVE  /\ loopList[next] \in Threads
         /\ given' \in Seq(Nat) /\ next' \in Nat \ {0}
         /\ Len(thread') = Len(thread) => OwnerInv'
<1>1. /\ Len(loopList) = Len(thread) /\ Len(thread) \in Nat \ {0}
      /\ next \in 1..Len(loopList)
      /\ loopList \in Seq(Nat) /\ given \in Seq(Nat)
  BY EmptySeq, LenProperties DEF PoolInv, TypeInv, OwnerInv, OwnerAt
<1>2. loopList[next] \in Threads
  BY <1>1 DEF PoolInv, OwnerInv
<1>3. next' \in 1..Len(loopList)
  BY <1>1 DEF GetNextLoop, NextAfter
<1>4. given' \in Seq(Nat)
  BY <1>1, <1>2, AppendProperties DEF GetNextLoop, Threads
<1>5. ASSUME Len(thread') = Len(thread) PROVE OwnerInv'
  BY <1>1, <1>3, <1>5 DEF PoolInv, OwnerInv, OwnerAt, Threads
<1> QED
  BY <1>1, <1>2, <1>3, <1>4, <1>5

LEMMA AssignPool == ASSUME PoolInv, Assign \/ OnConnection PROVE PoolInv'
<1>1. /\ GetNextLoop /\ OwnerAt("idle") /\ thread # <<>>
      /\ UNCHANGED <<loopList, owner, thread, loop, stop>>
      /\ StartRead(loopList[next], NewConn) \/ UNCHANGED conns
  BY DEF Assign, OnConnection
<1>2. /\ loopList[next] \in Threads /\ given' \in Seq(Nat) /\ next' \in Nat \ {0}
      /\ Len(thread') = Len(thread) => OwnerInv'
  BY <1>1, NextLoop
<1>3. PICK t \in Threads : t = loopList[next]
  BY <1>2
<1>4. NewConn \in Nat
  BY LenProperties DEF PoolInv, TypeInv, NewConn
<1>5. /\ thread = [thread EXCEPT ![t] = thread[t]] /\ thread[t] \in Places
      /\ loop = [loop EXCEPT ![t] = loop[t]] /\ loop[t] \in BOOLEAN
      /\ stop = [stop EXCEPT ![t] = stop[t]] /\ stop[t] \in BOOLEAN
      /\ conns = [conns EXCEPT ![t] = conns[t]] /\ conns[t] \in SUBSET Nat
  BY SameThread
<1>6. PICK cs \in SUBSET Nat : conns' = [conns EXCEPT ![t] = cs] /\ conns[t] \subseteq cs
  <2>1. CASE UNCHANGED conns
    BY <1>5, <2>1
  <2>2. CASE StartRead(loopList[next], NewConn)
    <3>1. conns[t] \cup {NewConn} \in SUBSET Nat
      BY <1>4, <1>5
    <3>2. conns' = [conns EXCEPT ![t] = conns[t] \cup {NewConn}]
      BY <1>3, <2>2 DEF StartRead
    <3> QED
      BY <3>1, <3>2
  <2> QED
    BY <1>1, <2>1, <2>2
<1>7. owner' \in [at : OwnerPlaces, of : Nat, to : Nat] /\ \A u \in Threads : StopAsked(u)' = StopAsked(u)
  BY <1>1 DEF PoolInv, TypeInv, StopAsked
<1>8. /\ loop[t] = (thread[t] # "done")
      /\ thread[t] \in {"exit", "done"} => conns[t] # {}
      /\ stop[t] \/ thread[t] \in {"exit", "done"} => StopAsked(t)
  BY DEF PoolInv, ThreadInv
<1>9. ThreadBecomes(t, thread[t], loop[t], stop[t], cs)
  BY <1>1, <1>3, <1>5, <1>6, <1>7, <1>8 DEF ThreadBecomes
<1>10. OwnerMay
  BY <1>1, <1>2, <1>7 DEF OwnerMay
<1> QED
  BY <1>9, <1>10, OneThread

-----------------------------------------------------------------------------
(* The destructor asks the threads to stop in order. *)

LEMMA DestroyPool == ASSUME PoolInv, Destroy PROVE PoolInv'
<1>1. /\ owner.at = "idle" /\ owner \in [at : OwnerPlaces, of : Nat, to : Nat]
      /\ UNCHANGED <<thread, loop, stop, conns, next, given, loopList>>
  BY DEF Destroy, threadVars, OwnerAt, PoolInv, TypeInv
<1>2. /\ owner' \in [at : OwnerPlaces, of : Nat, to : Nat]
      /\ \/ owner'.at = "gone"
         \/ owner'.at = "stop" /\ owner'.of = 1 /\ thread # <<>>
  <2>1. CASE thread = <<>> /\ owner' = [owner EXCEPT !.at = "gone", !.of = 1]
    BY <1>1, <2>1 DEF OwnerPlaces
  <2>2. CASE thread # <<>> /\ owner' = [owner EXCEPT !.at = "stop", !.of = 1]
    BY <1>1, <2>2 DEF OwnerPlaces
  <2> QED
    BY <2>1, <2>2 DEF Destroy
<1>3. thread # <<>> => 1 \in Threads
  BY EmptySeq, LenProperties DEF PoolInv, TypeInv, Threads
<1>4. TypeInv'
  BY <1>1, <1>2 DEF PoolInv, TypeInv
<1>5. OwnerInv'
  BY <1>1, <1>2, <1>3 DEF PoolInv, OwnerInv, OwnerAt, Threads
<1>6. \A t \in Threads : ~StopAsked(t)
  BY <1>1 DEF StopAsked
<1> QED
  BY <1>1, <1>4, <1>5, <1>6, OwnerOnly

LEMMA UvStopPool == ASSUME PoolInv, UvStop PROVE PoolInv'
<1>1. /\ owner.at = "stop" /\ owner \in [at : OwnerPlaces, of : Nat, to : Nat]
      /\ owner' = [owner EXCEPT !.at = "join"]
      /\ UNCHANGED <<thread, loop, conns, next, given, loopList>>
      /\ stop' = [stop EXCEPT ![owner.of] = TRUE]
  BY DEF UvStop, OwnerAt, OwnerGoes, PoolInv, TypeInv
<1>2. PICK t \in Threads : t = owner.of
  BY <1>1 DEF PoolInv, OwnerInv
<1>3. /\ owner' \in [at : OwnerPlaces, of : Nat, to : Nat]
      /\ owner'.at = "join" /\ owner'.of = t
  BY <1>1, <1>2 DEF OwnerPlaces
<1>4. OwnerMay
  <2>1. ASSUME Len(thread') = Len(thread) PROVE OwnerInv'
    BY <1>1, <1>2, <1>3, <2>1 DEF PoolInv, OwnerInv, OwnerAt, Threads
  <2>2. \A u \in Threads : StopAsked(u) => StopAsked(u)'
    BY <1>1, <1>2, <1>3 DEF StopAsked, Threads
  <2>3. given' \in Seq(Nat) /\ next' \in Nat \ {0} /\ UNCHANGED loopList
    BY <1>1 DEF PoolInv, TypeInv
  <2> QED
    BY <1>3, <2>1, <2>2, <2>3 DEF OwnerMay
<1>5. /\ thread' = [thread EXCEPT ![t] = thread[t]] /\ thread[t] \in Places
      /\ loop' = [loop EXCEPT ![t] = loop[t]] /\ loop[t] \in BOOLEAN
      /\ conns' = [conns EXCEPT ![t] = conns[t]] /\ conns[t] \in SUBSET Nat
  BY <1>1, SameThread
<1>6. /\ loop[t] = (thread[t] # "done")
      /\ thread[t] \in {"exit", "done"} => conns[t] # {}
  BY DEF PoolInv, ThreadInv
<1>7. StopAsked(t)'
  BY <1>2, <1>3 DEF StopAsked, Threads
<1>8. ThreadBecomes(t, thread[t], loop[t], TRUE, conns[t])
  BY <1>1, <1>2, <1>5, <1>6, <1>7 DEF ThreadBecomes
<1> QED
  BY <1>4, <1>8, OneThread

LEMMA JoinPool == ASSUME PoolInv, Join PROVE PoolInv'
<1>1. /\ owner.at = "join" /\ owner \in [at : OwnerPlaces, of : Nat, to : Nat]
      /\ owner.of \in 1..Len(thread) /\ Len(thread) \in Nat
      /\ UNCHANGED <<thread, loop, stop, conns, next, given, loopList>>
  BY LenProperties DEF Join, threadVars, OwnerAt, PoolInv, TypeInv, OwnerInv, Threads
<1>2. /\ owner' \in [at : OwnerPlaces, of : Nat, to : Nat]
      /\ \/ owner'.at = "gone"
         \/ owner'.at = "stop" /\ owner'.of = owner.of + 1 /\ owner.of + 1 \in 1..Len(thread)
  <2>1. CASE owner' = [owner EXCEPT !.at = "gone"]
    BY <1>1, <2>1 DEF OwnerPlaces
  <2>2. CASE owner.of # Len(thread) /\ owner' = [owner EXCEPT !.at = "stop", !.of = owner.of + 1]
    <3>1. owner.of + 1 \in Nat /\ owner.of + 1 \in 1..Len(thread)
      BY <1>1, <2>2
    <3> QED
      BY <1>1, <2>2, <3>1 DEF OwnerPlaces
  <2> QED
    BY <2>1, <2>2 DEF Join
<1>3. TypeInv'
  BY <1>1, <1>2 DEF PoolInv, TypeInv
<1>4. OwnerInv'
  BY <1>1, <1>2 DEF PoolInv, OwnerInv, OwnerAt, Threads
<1>5. \A t \in Threads : StopAsked(t) => StopAsked(t)'
  BY <1>1, <1>2 DEF StopAsked, Threads
<1> QED
  BY <1>1, <1>3, <1>4, <1>5, OwnerOnly

-----------------------------------------------------------------------------
(* The steps of a thread. *)

LEMMA ThreadStepPool ==
  ASSUME PoolInv, NEW t \in Threads, ThreadStep(t)
  PROVE  PoolInv'
<1>1. /\ thread = [thread EXCEPT ![t] = thread[t]] /\ thread[t] \in Places
      /\ loop = [loop EXCEPT ![t] = loop[t]] /\ loop[t] \in BOOLEAN
      /\ stop = [stop EXCEPT ![t] = stop[t]] /\ stop[t] \in BOOLEAN
      /\ conns = [conns EXCEPT ![t] = conns[t]] /\ conns[t] \in SUBSET Nat
  BY SameThread
<1>2. /\ loop[t] = (thread[t] # "done")
      /\ thread[t] \in {"exit", "done"} => conns[t] # {}
      /\ stop[t] \/ thread[t] \in {"exit", "done"} => StopAsked(t)
  BY DEF PoolInv, ThreadInv
<1>3. ASSUME UNCHANGED ownerVars PROVE OwnerMay /\ (StopAsked(t) => StopAsked(t)')
  BY <1>3, OwnerSame DEF ownerVars
<1>4. CASE SetStarted(t)
  <2>1. /\ thread[t] = "func" /\ thread' = [thread EXCEPT ![t] = "notify"]
        /\ UNCHANGED <<loop, stop, conns>> /\ UNCHANGED ownerVars
    BY <1>4 DEF SetStarted, ThreadGoes
  <2>2. ThreadBecomes(t, "notify", loop[t], stop[t], conns[t])
    BY <1>1, <1>2, <1>3, <2>1 DEF ThreadBecomes, Places
  <2> QED
    BY <1>3, <2>1, <2>2, OneThread
<1>5. CASE Notify(t)
  <2>1. /\ thread[t] = "notify" /\ thread' = [thread EXCEPT ![t] = "run"]
        /\ UNCHANGED <<loop, stop, conns>> /\ UNCHANGED <<loopList, next, given>>
        /\ \/ owner.at = "asleep" /\ OwnerGoes("test")
           \/ UNCHANGED owner
    BY <1>5 DEF Notify, ThreadGoes, OwnerAt
  <2>2. OwnerMay /\ (StopAsked(t) => StopAsked(t)')
    <3>1. CASE UNCHANGED owner
      BY <2>1, <3>1, OwnerSame
    <3>2. CASE owner.at = "asleep" /\ OwnerGoes("test")
      BY <2>1, <3>2, InStartLoop
    <3> QED
      BY <2>1, <3>1, <3>2
  <2>3. ThreadBecomes(t, "run", loop[t], stop[t], conns[t])
    BY <1>1, <1>2, <2>1, <2>2 DEF ThreadBecomes, Places
  <2> QED
    BY <2>2, <2>3, OneThread
<1>6. CASE RunEmpty(t)
  <2>1. /\ thread[t] = "run" /\ stop' = [stop EXCEPT ![t] = FALSE]
        /\ UNCHANGED <<thread, loop, conns>> /\ UNCHANGED ownerVars
    BY <1>6 DEF RunEmpty
  <2>2. ThreadBecomes(t, thread[t], loop[t], FALSE, conns[t])
    BY <1>1, <1>2, <2>1 DEF ThreadBecomes
  <2> QED
    BY <1>3, <2>1, <2>2, OneThread
<1>7. CASE RunStopped(t)
  <2>1. /\ thread[t] = "run" /\ conns[t] # {} /\ stop[t]
        /\ thread' = [thread EXCEPT ![t] = "exit"] /\ stop' = [stop EXCEPT ![t] = FALSE]
        /\ UNCHANGED <<loop, conns>> /\ UNCHANGED ownerVars
    BY <1>7 DEF RunStopped, ThreadGoes
  <2>2. ThreadBecomes(t, "exit", loop[t], FALSE, conns[t])
    BY <1>1, <1>2, <1>3, <2>1 DEF ThreadBecomes, Places
  <2> QED
    BY <1>3, <2>1, <2>2, OneThread
<1>8. CASE Poll(t)
  <2>1. /\ thread[t] = "run" /\ thread' = [thread EXCEPT ![t] = "poll"]
        /\ UNCHANGED <<loop, stop, conns>> /\ UNCHANGED ownerVars
    BY <1>8 DEF Poll, ThreadGoes
  <2>2. ThreadBecomes(t, "poll", loop[t], stop[t], conns[t])
    BY <1>1, <1>2, <1>3, <2>1 DEF ThreadBecomes, Places
  <2> QED
    BY <1>3, <2>1, <2>2, OneThread
<1>9. CASE Events(t)
  <2>1. /\ thread[t] = "poll" /\ thread' = [thread EXCEPT ![t] = "run"]
        /\ UNCHANGED <<loop, stop>> /\ UNCHANGED ownerVars
    BY <1>9 DEF Events, ThreadGoes
  <2>2. PICK ended \in SUBSET (watched[t] \cap data) : conns' = [conns EXCEPT ![t] = @ \ ended]
    BY <1>9 DEF Events
  <2>3. conns' = [conns EXCEPT ![t] = conns[t] \ ended] /\ conns[t] \ ended \in SUBSET Nat
    BY <1>1, <2>2
  <2>4. ThreadBecomes(t, "run", loop[t], stop[t], conns[t] \ ended)
    BY <1>1, <1>2, <1>3, <2>1, <2>3 DEF ThreadBecomes, Places
  <2> QED
    BY <1>3, <2>1, <2>4, OneThread
<1>10. CASE Exit(t)
  <2>1. /\ thread[t] = "exit" /\ thread' = [thread EXCEPT ![t] = "done"]
        /\ loop' = [loop EXCEPT ![t] = FALSE]
        /\ UNCHANGED <<stop, conns>> /\ UNCHANGED ownerVars
    BY <1>10 DEF Exit, ThreadGoes
  <2>2. ThreadBecomes(t, "done", FALSE, stop[t], conns[t])
    BY <1>1, <1>2, <1>3, <2>1 DEF ThreadBecomes, Places
  <2> QED
    BY <1>3, <2>1, <2>2, OneThread
<1> QED
  BY <1>4, <1>5, <1>6, <1>7, <1>8, <1>9, <1>10 DEF ThreadStep

-----------------------------------------------------------------------------
LEMMA PoolStep == ASSUME PoolInv, [Next]_vars PROVE PoolInv'
<1>1. ASSUME UNCHANGED <<owner, loopList, next, given, thread, loop, stop, conns>> PROVE PoolInv'
  BY <1>1 DEF PoolInv, TypeInv, OwnerInv, ThreadInv, StopAsked, OwnerAt, Threads
<1>2. CASE UNCHANGED vars
  BY <1>1, <1>2 DEF vars, ownerVars, threadVars
<1>3. CASE Connects \/ Arrives
  BY <1>1, <1>3 DEF Connects, Arrives, ownerVars, threadVars
<1>4. CASE OwnerStep
  BY <1>4, SetThreadNumsPool, CreateThreadPool, TestStartedPool, WaitPool, AssignPool, DestroyPool,
     UvStopPool, JoinPool DEF OwnerStep
<1>5. CASE \E t \in Threads : ThreadStep(t)
  BY <1>5, ThreadStepPool
<1> QED
  BY <1>2, <1>3, <1>4, <1>5 DEF Next

(* The invariant of the pool (EventLoopThread.cpp, EventLoopThreadPool.cpp) *)
(* holds for every number of threads, calls and connections.               *)
THEOREM PoolCorrect == Spec => []PoolInv
<1>1. Init => PoolInv
  BY PoolInitial
<1>2. PoolInv /\ [Next]_vars => PoolInv'
  BY PoolStep
<1> QED
  BY <1>1, <1>2, PTL DEF Spec

LEMMA LoopNotNullHolds == ASSUME PoolInv PROVE LoopNotNull
<1>1. \A t \in Threads : loop[t] = (thread[t] # "done") /\ (thread[t] = "done" => StopAsked(t))
  BY DEF PoolInv, ThreadInv
<1>2. ASSUME owner.at \in {"test", "wait", "asleep", "stop"} PROVE loop[owner.of]
  <2>1. owner.of \in Threads /\ ~StopAsked(owner.of)
    BY <1>2 DEF PoolInv, TypeInv, OwnerInv, StopAsked
  <2> QED
    BY <1>1, <2>1
<1>3. ASSUME OwnerAt("idle"), NEW k \in 1..Len(loopList) PROVE loop[loopList[k]]
  <2>1. loopList[k] \in Threads /\ ~StopAsked(loopList[k])
    BY <1>3 DEF PoolInv, OwnerInv, StopAsked, OwnerAt
  <2> QED
    BY <1>1, <2>1
<1>4. \A t \in Threads : thread[t] \in {"exit", "done"} => conns[t] # {}
  BY DEF PoolInv, ThreadInv
<1> QED
  BY <1>2, <1>3, <1>4 DEF LoopNotNull

(* Nobody uses loop_ after its thread has set it to null                   *)
(* (EventLoopThread.cpp:42), and a thread ends only with connections open. *)
THEOREM LoopNotNullCorrect == Spec => []LoopNotNull
<1>1. PoolInv => LoopNotNull
  BY LoopNotNullHolds
<1> QED
  BY <1>1, PoolCorrect, PTL

-----------------------------------------------------------------------------
(* Why Balanced holds: a first setThreadNums() lists each loop at its own  *)
(* place, nothing is given out before it returns, and the loops before     *)
(* next_ have been given out once more than the others.                    *)
Creating == owner.at \in {"create", "test", "wait", "asleep"}

Round == \E q \in Nat : \A t \in 1..Len(loopList) : Load(t) = IF t < next THEN q + 1 ELSE q

BalanceInv ==
  /\ calls \in Nat
  /\ calls = 0 => Len(thread) = 0 /\ ~Creating
  /\ Creating => given = <<>>
  /\ given = <<>> => next = 1
  /\ calls = 1 => /\ \A k \in 1..Len(loopList) : loopList[k] = k
                  /\ Creating => owner.of = IF OwnerAt("create") THEN Len(thread) + 1 ELSE Len(thread)
                  /\ Round
  /\ caller = "TcpServer" => Len(given) <= 1 /\ (listening => given = <<>>)

LEMMA BalanceInitial == Init => BalanceInv
<1> SUFFICES ASSUME Init PROVE BalanceInv
  OBVIOUS
<1> QED
  BY DEF Init, BalanceInv, Creating

(* What is given out next counts for its loop only. *)
LEMMA LoadAfter ==
  ASSUME given \in Seq(Nat), NEW u \in Nat, given' = Append(given, u), NEW t \in Nat
  PROVE  /\ Load(t) \in Nat
         /\ Load(t)' = IF t = u THEN Load(t) + 1 ELSE Load(t)
<1> DEFINE n == Len(given)
           K == {k \in 1..n : given[k] = t}
           L == {k \in 1..Len(given') : given'[k] = t}
<1>1. /\ n \in Nat /\ Len(given') = n + 1
      /\ given'[n + 1] = u
      /\ \A k \in 1..n : given'[k] = given[k]
  BY LenProperties, AppendProperties
<1> HIDE DEF n
<1>2. IsFiniteSet(1..n)
  BY <1>1, FS_Interval
<1>3. IsFiniteSet(K) /\ Cardinality(K) \in Nat
  BY <1>2, FS_Subset, FS_CardinalityType
<1>4. Load(t) = Cardinality(K) /\ Load(t)' = Cardinality(L)
  BY DEF Load, n
<1>5. CASE t = u
  <2>1. L = K \cup {n + 1} /\ n + 1 \notin K
    BY <1>1, <1>5
  <2> HIDE DEF K, L
  <2> QED
    BY <1>3, <1>4, <1>5, <2>1, FS_AddElement
<1>6. CASE t # u
  <2>1. L = K
    BY <1>1, <1>6
  <2> HIDE DEF K, L
  <2> QED
    BY <1>3, <1>4, <1>6, <2>1
<1> QED
  BY <1>5, <1>6

LEMMA LoadNone == ASSUME given = <<>>, NEW t PROVE Load(t) = 0
<1>1. {k \in 1..Len(given) : given[k] = t} = {}
  OBVIOUS
<1> QED
  BY <1>1, FS_EmptySet DEF Load

(* One round of next_ through a list of loops that stand at their places.  *)
LEMMA RoundGoesOn ==
  ASSUME given \in Seq(Nat), Len(loopList) \in Nat, next \in 1..Len(loopList),
         \A k \in 1..Len(loopList) : loopList[k] = k, Round, GetNextLoop, UNCHANGED loopList
  PROVE  Round'
<1> DEFINE n == Len(loopList)
<1>1. /\ given' = Append(given, next)
      /\ next' = IF next = n THEN 1 ELSE next + 1
  BY DEF GetNextLoop, NextAfter
<1>2. n' = n /\ n \in Nat /\ next \in 1..n
  OBVIOUS
<1>3. PICK q \in Nat : \A t \in 1..n : Load(t) = IF t < next THEN q + 1 ELSE q
  BY DEF Round
<1> HIDE DEF n
<1>4. \A t \in 1..n : Load(t)' = IF t <= next THEN q + 1 ELSE q
  <2> SUFFICES ASSUME NEW t \in 1..n PROVE Load(t)' = IF t <= next THEN q + 1 ELSE q
    OBVIOUS
  <2>1. next \in Nat /\ t \in Nat
    BY <1>2
  <2>2. Load(t)' = IF t = next THEN Load(t) + 1 ELSE Load(t)
    BY <1>1, <2>1, LoadAfter
  <2> QED
    BY <1>3, <2>1, <2>2
<1>5. CASE next = n
  <2>1. \A t \in 1..n : Load(t)' = IF t < next' THEN (q + 1) + 1 ELSE q + 1
    BY <1>1, <1>2, <1>4, <1>5
  <2>2. q + 1 \in Nat
    OBVIOUS
  <2>3. \A t \in 1..Len(loopList') : Load(t)' = IF t < next' THEN (q + 1) + 1 ELSE q + 1
    BY <1>2, <2>1 DEF n
  <2> QED
    BY <2>2, <2>3 DEF Round
<1>6. CASE next # n
  <2>1. \A t \in 1..n : Load(t)' = IF t < next' THEN q + 1 ELSE q
    BY <1>1, <1>2, <1>4, <1>6
  <2>2. \A t \in 1..Len(loopList') : Load(t)' = IF t < next' THEN q + 1 ELSE q
    BY <1>2, <2>1 DEF n
  <2> QED
    BY <2>2 DEF Round
<1> QED
  BY <1>5, <1>6

(* Steps that give nothing out and start nothing. *)
LEMMA BalanceSame ==
  ASSUME BalanceInv,
         UNCHANGED <<calls, loopList, next, given, caller>>, Len(thread') = Len(thread),
         listening' => listening,
         \/ ~Creating'
         \/ owner' = owner
         \/ /\ Creating /\ owner'.of = owner.of
            /\ owner.at # "create" /\ owner'.at # "create"
  PROVE  BalanceInv'
<1>1. Round' = Round
  BY DEF Round, Load
<1> QED
  BY <1>1 DEF BalanceInv, Creating, OwnerAt

LEMMA BalanceStep == ASSUME PoolInv, BalanceInv, [Next]_vars PROVE BalanceInv'
<1>0. /\ owner \in [at : OwnerPlaces, of : Nat, to : Nat]
      /\ thread \in Seq(Places) /\ loopList \in Seq(Nat) /\ given \in Seq(Nat)
      /\ Len(thread) \in Nat /\ Len(loopList) \in Nat
  BY LenProperties DEF PoolInv, TypeInv
<1>1. CASE SetThreadNums
  <2>1. PICK n \in 1..(MaxThreads - Len(thread)) : owner' = [at |-> "create", of |-> 1, to |-> n]
    BY <1>1 DEF SetThreadNums
  <2>2. /\ owner.at = "idle" /\ given = <<>> /\ calls' = calls + 1
        /\ UNCHANGED <<thread, loopList, next, given, caller, listening>>
    BY <1>1 DEF SetThreadNums, OwnerAt, threadVars, socketVars
  <2>3. next = 1 /\ calls \in Nat
    BY <2>2 DEF BalanceInv
  <2>4. CASE calls = 0
    <3>1. Len(thread) = 0 /\ Len(loopList) = 0
      BY <2>2, <2>4 DEF BalanceInv, PoolInv, OwnerInv
    <3>2. 1..Len(loopList) = {}
      BY <3>1
    <3>3. Round'
      BY <2>2, <3>2 DEF Round
    <3> QED
      BY <2>1, <2>2, <2>3, <3>1, <3>2, <3>3 DEF BalanceInv, Creating, OwnerAt
  <2>5. CASE calls # 0
    <3>1. calls' \in Nat /\ calls' # 0 /\ calls' # 1
      BY <2>2, <2>3, <2>5
    <3> QED
      BY <2>1, <2>2, <2>3, <3>1 DEF BalanceInv, Creating, OwnerAt
  <2> QED
    BY <2>4, <2>5
<1>2. CASE CreateThread
  <2>1. /\ owner.at = "create" /\ owner' = [owner EXCEPT !.at = "test"]
        /\ Len(thread') = Len(thread) + 1
        /\ UNCHANGED <<calls, loopList, next, given, caller, listening>>
    <3>1. thread' = Append(thread, "func") /\ "func" \in Places
      BY <1>2 DEF CreateThread, Places
    <3>2. Len(thread') = Len(thread) + 1
      BY <1>0, <3>1, AppendProperties
    <3> QED
      BY <1>2, <3>2 DEF CreateThread, OwnerAt, OwnerGoes, socketVars
  <2>2. owner'.at = "test" /\ owner'.of = owner.of
    BY <1>0, <2>1
  <2>3. Round' = Round
    BY <2>1 DEF Round, Load
  <2> QED
    BY <2>1, <2>2, <2>3 DEF BalanceInv, Creating, OwnerAt
<1>3. CASE TestStarted
  <2>0. /\ owner.at = "test" /\ owner.of \in Nat /\ given = <<>>
        /\ UNCHANGED <<calls, next, given, caller, listening, thread>>
    BY <1>0, <1>3 DEF TestStarted, OwnerAt, threadVars, socketVars, BalanceInv, Creating
  <2>1. CASE OwnerGoes("wait") /\ UNCHANGED loopList
    <3>1. owner'.at = "wait" /\ owner'.of = owner.of
      BY <1>0, <2>1 DEF OwnerGoes
    <3> QED
      BY <2>0, <2>1, <3>1, BalanceSame DEF Creating
  <2>2. CASE /\ loopList' = Append(loopList, owner.of)
             /\ owner' = IF owner.of = owner.to
                         THEN [owner EXCEPT !.at = "idle"]
                         ELSE [owner EXCEPT !.at = "create", !.of = @ + 1]
    <3>1. \/ owner'.at = "idle"
          \/ owner'.at = "create" /\ owner'.of = owner.of + 1
      BY <1>0, <2>2
    <3>2. /\ Len(loopList') = Len(loopList) + 1
          /\ \A k \in 1..Len(loopList) : loopList'[k] = loopList[k]
          /\ loopList'[Len(loopList) + 1] = owner.of
      BY <1>0, <2>0, <2>2, AppendProperties
    <3>3. Len(loopList) + 1 = Len(thread)
      BY <2>0 DEF PoolInv, OwnerInv
    <3>4. ASSUME calls = 1 PROVE \A k \in 1..Len(loopList') : loopList'[k] = k
      <4>1. owner.of = Len(thread) /\ \A k \in 1..Len(loopList) : loopList[k] = k
        BY <2>0, <3>4 DEF BalanceInv, Creating, OwnerAt
      <4>2. \A k \in 1..Len(loopList') : k \in 1..Len(loopList) \/ k = Len(loopList) + 1
        BY <1>0, <3>2
      <4>3. loopList'[Len(loopList) + 1] = Len(loopList) + 1
        BY <3>2, <3>3, <4>1
      <4> QED
        BY <3>2, <4>1, <4>2, <4>3
    <3>5. ASSUME calls = 1 PROVE Round'
      <4>1. next' = 1 /\ given' = <<>>
        BY <2>0 DEF BalanceInv
      <4>2. \A t : Load(t)' = Load(t) /\ Load(t) = 0
        BY <2>0, LoadNone DEF Load
      <4>3. \A t \in 1..Len(loopList') : Load(t)' = IF t < next' THEN 0 + 1 ELSE 0
        BY <4>1, <4>2
      <4> QED
        BY <4>3 DEF Round
    <3>6. calls = 1 /\ owner'.at = "create" => owner'.of = Len(thread) + 1
      BY <2>0, <3>1 DEF BalanceInv, Creating, OwnerAt
    <3>7. owner'.at \in {"idle", "create"}
      BY <3>1
    <3>8. calls \in Nat /\ calls # 0
      BY <2>0 DEF BalanceInv, Creating
    <3> QED
      BY <2>0, <3>4, <3>5, <3>6, <3>7, <3>8 DEF BalanceInv, Creating, OwnerAt
  <2> QED
    BY <1>3, <2>1, <2>2 DEF TestStarted
<1>4. CASE Wait \/ WakeUnasked
  <2>1. /\ owner.at \in {"wait", "asleep"}
        /\ owner'.at \in {"asleep", "test"} /\ owner'.of = owner.of
        /\ UNCHANGED <<calls, loopList, next, given, caller, listening, thread>>
    BY <1>0, <1>4 DEF Wait, WakeUnasked, OwnerAt, OwnerGoes, threadVars, socketVars
  <2> QED
    BY <2>1, BalanceSame DEF Creating
<1>5. CASE Assign \/ OnConnection
  <2>1. /\ owner.at = "idle" /\ Len(thread) # 0
        /\ GetNextLoop
        /\ UNCHANGED <<calls, loopList, owner, caller, thread>>
        /\ \/ caller = "other"
           \/ caller = "TcpServer" /\ listening /\ ~listening'
    BY <1>0, <1>5, EmptySeq DEF Assign, OnConnection, OwnerAt, socketVars
  <2>2. next \in 1..Len(loopList) /\ Len(loopList) = Len(thread)
    BY <1>0, <2>1 DEF PoolInv, OwnerInv, TypeInv
  <2>3. given' = Append(given, loopList[next]) /\ loopList[next] \in Nat
    BY <1>0, <2>1, <2>2, ElementOfSeq DEF GetNextLoop
  <2>4. Len(given') = Len(given) + 1 /\ given' # <<>>
    <3>1. Len(given') = Len(given) + 1 /\ Len(given) \in Nat
      BY <1>0, <2>3, AppendProperties, LenProperties
    <3>2. Len(<<>>) = 0
      OBVIOUS
    <3>3. Len(given') # 0
      BY <3>1
    <3> QED
      BY <3>1, <3>2, <3>3, Zenon
  <2>5. calls = 1 => Round'
    BY <1>0, <2>1, <2>2, RoundGoesOn DEF BalanceInv
  <2>6. caller = "TcpServer" => Len(given') <= 1 /\ ~listening'
    BY <2>1, <2>4 DEF BalanceInv
  <2> QED
    BY <2>1, <2>4, <2>5, <2>6 DEF BalanceInv, Creating, OwnerAt
<1>6. CASE Destroy \/ UvStop \/ Join
  <2>1. /\ owner'.at \in {"gone", "stop", "join"}
        /\ UNCHANGED <<calls, loopList, next, given, caller, listening, thread>>
    BY <1>0, <1>6 DEF Destroy, UvStop, Join, OwnerAt, OwnerGoes, threadVars, socketVars
  <2> QED
    BY <2>1, BalanceSame DEF Creating
<1>7. CASE Connects \/ Arrives \/ UNCHANGED vars
  <2>1. UNCHANGED <<calls, loopList, next, given, caller, listening, thread, owner>>
    BY <1>7 DEF Connects, Arrives, vars, ownerVars, threadVars, socketVars
  <2> QED
    BY <2>1, BalanceSame
<1>8. ASSUME NEW t \in Threads, ThreadStep(t) PROVE BalanceInv'
  <2>1. /\ UNCHANGED <<calls, loopList, next, given, caller, listening>>
        /\ \/ UNCHANGED owner
           \/ owner.at = "asleep" /\ OwnerGoes("test")
        /\ \/ UNCHANGED thread
           \/ \E at \in Places : thread' = [thread EXCEPT ![t] = at]
    BY <1>8 DEF ThreadStep, SetStarted, Notify, RunEmpty, RunStopped, Poll, Events, Exit, ThreadGoes,
                OwnerAt, ownerVars, socketVars, Places
  <2>2. Len(thread') = Len(thread)
    BY <1>0, <2>1, ExceptSeq DEF Threads
  <2>3. owner' = owner \/ (Creating /\ owner'.of = owner.of /\ owner.at = "asleep" /\ owner'.at = "test")
    BY <1>0, <2>1 DEF OwnerGoes, Creating
  <2> QED
    BY <2>1, <2>2, <2>3, BalanceSame
<1> QED
  BY <1>1, <1>2, <1>3, <1>4, <1>5, <1>6, <1>7, <1>8 DEF Next, OwnerStep

LEMMA BalancedHolds == ASSUME PoolInv, BalanceInv PROVE Balanced
<1>1. ASSUME calls = 1, OwnerAt("idle"), NEW s \in Threads, NEW t \in Threads
      PROVE  Load(s) - Load(t) \in -1..1
  <2>1. Threads = 1..Len(loopList)
    BY <1>1 DEF PoolInv, OwnerInv, OwnerAt, Threads
  <2>2. PICK q \in Nat : \A u \in 1..Len(loopList) : Load(u) = IF u < next THEN q + 1 ELSE q
    BY <1>1 DEF BalanceInv, Round
  <2>3. Load(s) \in {q, q + 1} /\ Load(t) \in {q, q + 1}
    BY <2>1, <2>2
  <2> QED
    BY <2>3
<1> QED
  BY <1>1 DEF BalanceInv, Balanced

(* getNextLoop() spreads what it gives out evenly over the threads of one  *)
(* setThreadNums(), and a TcpServer gives out one loop only                *)
(* (EventLoopThreadPool.cpp:15, TcpServer.cpp:40).                         *)
THEOREM BalancedCorrect == Spec => []Balanced
<1>1. Init => BalanceInv
  BY BalanceInitial
<1>2. PoolInv /\ BalanceInv /\ [Next]_vars => BalanceInv'
  BY BalanceStep
<1>3. PoolInv /\ BalanceInv => Balanced
  BY BalancedHolds
<1> QED
  BY <1>1, <1>2, <1>3, PoolCorrect, PTL DEF Spec
=============================================================================
