--------------------------- MODULE AsyncPoolProofs ---------------------------
(***************************************************************************)
(* Proofs about AsyncPool, for every set of jobs and workers, every job    *)
(* table and all three ways to wake a worker: a worker performs the job    *)
(* the main thread gave it and no other, once; nobody uses the memory of a *)
(* job that was freed; and a task is told what its job did.                *)
(***************************************************************************)
EXTENDS AsyncPool, SequenceTheorems, FiniteSetTheorems, TLAPS

Entries == Jobs \cup {SigEntry}
Elems(s) == {s[i] : i \in 1 .. Len(s)}
Distinct(s, X) == \A a, b \in 1 .. Len(s) : s[a] = s[b] /\ s[a] \in X => a = b

Queued(j) == j \in Elems(jobQueue)
Idle(w) == w \in Elems(idle)
Reported(j) == j \in Elems(pipe) \/ j \in Elems(batch)
Stopping == main \in {"joining", "failed", "closed"}

WorkerPlaces == {"none", "loop", "blocked", "ran", "notify", "parked", "dead"}
Thread == [pc : WorkerPlaces, job : Jobs \cup {None}, cur : Jobs \cup {None},
           waiting : BOOLEAN, token : BOOLEAN]

WorkerTypes ==
  /\ method \in Methods
  /\ worker \in [Workers -> Thread]
  /\ ended \in [Jobs -> {"no", "done", "interrupted"}]
  /\ starts \in [Jobs -> Nat]
  /\ running \in [Jobs -> Workers \cup {None}]

SeqTypes ==
  /\ pipe \in Seq(Entries) /\ batch \in Seq(Entries)
  /\ jobQueue \in Seq(Jobs) /\ idle \in Seq(Workers)

TaskTypes ==
  /\ main \in {"run", "again", "drain", "failed", "joining", "closed"}
  /\ task \in [Jobs -> {"new", "waiting", "shielded", "retry", "needWait",
                        "cancelFailed", "returned"}]
  /\ outcome \in [Jobs -> {"none", "result", "cancelled", "error", "cancelFailed"}]
  /\ ready \subseteq Jobs /\ cancelled \subseteq Jobs /\ abandoned \subseteq Jobs

\* Nothing is twice in a queue, and no completion is reported twice.
QueuesOk ==
  /\ Distinct(pipe, Jobs) /\ Distinct(batch, Jobs)
  /\ Distinct(jobQueue, Jobs) /\ Distinct(idle, Workers)
  /\ \A j \in Jobs : ~(j \in Elems(pipe) /\ j \in Elems(batch))
  /\ main # "drain" => batch = << >>

\* Where a worker is, and what its struct says then.
WorkerOk(w) ==
  LET s == worker[w] IN
  /\ s.pc = "none" => s.job = None
  /\ s.pc \in {"loop", "blocked", "ran", "notify"} =>
       /\ s.job \in Jobs /\ s.cur = s.job /\ ~s.token
       /\ s.waiting = (s.pc = "notify")
       /\ running[s.job] = w /\ ~Reported(s.job)
  /\ s.pc = "loop" => starts[s.job] = 0
  /\ s.pc \in {"ran", "notify"} => ended[s.job] # "no"
  /\ s.pc = "parked" => s.token = ~s.waiting
  /\ s.pc = "parked" /\ s.job # None => running[s.job] = w
  /\ s.pc = "parked" /\ s.job # None /\ s.waiting => ended[s.job] # "no"
  /\ s.pc = "parked" /\ s.job # None /\ ~s.waiting =>
       starts[s.job] = 0 /\ ~Reported(s.job)
  /\ s.pc = "parked" /\ s.job = None => Idle(w)
  /\ s.pc = "parked" /\ s.job = None /\ ~s.waiting => Stopping
  /\ s.pc = "dead" => s.job = None /\ Stopping
  /\ Idle(w) => s.pc \in {"parked", "dead"} /\ s.job = None

\* Where a job is, and what its task waits for then.
JobOk(j) ==
  /\ running[j] # None =>
       worker[running[j]].job = j /\ task[j] # "new" /\ ~Queued(j)
  /\ Queued(j) => starts[j] = 0 /\ task[j] # "new"
  /\ Reported(j) => running[j] # None /\ worker[running[j]].pc = "parked"
  /\ task[j] = "new" => starts[j] = 0 /\ j \notin ready
  /\ task[j] # "new" /\ running[j] = None /\ ~Queued(j) => ended[j] # "no"
  /\ starts[j] <= 1

TaskOk(j) ==
  /\ j \in ready => Active(j)
  /\ j \in ready /\ (running[j] # None \/ Queued(j)) => CancelPending(j)
  /\ task[j] = "returned" /\ (running[j] # None \/ Queued(j)) => j \in abandoned
  /\ j \in abandoned => task[j] = "returned"
  /\ outcome[j] # "none" <=> task[j] = "returned"
  /\ main = "closed" => ~Active(j)

PoolInv ==
  /\ WorkerTypes /\ SeqTypes /\ TaskTypes
  /\ QueuesOk
  /\ \A w \in Workers : WorkerOk(w)
  /\ \A j \in Jobs : JobOk(j)
  /\ \A j \in Jobs : TaskOk(j)
  /\ OutcomeIsTrue
  /\ main = "closed" => idle = << >>

------------------------------------------------------------------------------
(* Queues: what appending, taking the head and splitting do to the elements.  *)

\* A thing appended to a queue is a new element of it.
LEMMA ElemsAppend ==
  ASSUME NEW S, NEW s \in Seq(S), NEW e \in S
  PROVE  /\ Append(s, e) \in Seq(S)
         /\ Elems(Append(s, e)) = Elems(s) \cup {e}
<1>1. Append(s, e) \in Seq(S) /\ Len(Append(s, e)) = Len(s) + 1
      /\ (\A i \in 1 .. Len(s) : Append(s, e)[i] = s[i])
      /\ Append(s, e)[Len(s) + 1] = e
  BY AppendProperties
<1>2. PICK n \in Nat : Len(s) = n
  BY LenProperties
<1>3. 1 .. Len(Append(s, e)) = (1 .. Len(s)) \cup {Len(s) + 1}
  BY <1>1, <1>2
<1>4. ASSUME NEW x \in Elems(Append(s, e)) PROVE x \in Elems(s) \cup {e}
  BY <1>1, <1>3 DEF Elems
<1>5. ASSUME NEW x \in Elems(s) \cup {e} PROVE x \in Elems(Append(s, e))
  BY <1>1, <1>3 DEF Elems
<1>6. QED
  BY <1>1, <1>4, <1>5

\* An append keeps a queue free of doubles when the thing was not in it.
LEMMA DistinctAppend ==
  ASSUME NEW S, NEW X, NEW s \in Seq(S), NEW e \in S, Distinct(s, X),
         e \in X => e \notin Elems(s)
  PROVE  Distinct(Append(s, e), X)
<1>1. Len(Append(s, e)) = Len(s) + 1
      /\ (\A i \in 1 .. Len(s) : Append(s, e)[i] = s[i])
      /\ Append(s, e)[Len(s) + 1] = e
  BY AppendProperties
<1>2. PICK n \in Nat : Len(s) = n
  BY LenProperties
<1>3. 1 .. Len(Append(s, e)) = (1 .. Len(s)) \cup {Len(s) + 1}
  BY <1>1, <1>2
<1>4. \A i \in 1 .. Len(s) : s[i] = e => e \notin X
  BY DEF Elems
<1>5. QED
  BY <1>1, <1>3, <1>4 DEF Distinct

\* The empty queue has no elements.
LEMMA ElemsEmpty == Elems(<< >>) = {} /\ \A X : Distinct(<< >>, X)
  BY DEF Elems, Distinct

\* The head of a queue is its only copy when the queue is free of doubles.
LEMMA ElemsTail ==
  ASSUME NEW S, NEW X, NEW s \in Seq(S), s # << >>, Distinct(s, X)
  PROVE  /\ Head(s) \in S /\ Head(s) \in Elems(s)
         /\ Tail(s) \in Seq(S)
         /\ Elems(s) = Elems(Tail(s)) \cup {Head(s)}
         /\ Distinct(Tail(s), X)
         /\ Head(s) \in X => Head(s) \notin Elems(Tail(s))
<1>1. Head(s) \in S /\ Tail(s) \in Seq(S) /\ Len(Tail(s)) = Len(s) - 1
      /\ \A i \in 1 .. Len(Tail(s)) : Tail(s)[i] = s[i + 1]
  BY HeadTailProperties, SMTT(60)
<1>2. PICK n \in Nat : Len(s) = n + 1
  <2>1. Len(s) \in Nat \ {0}
    BY EmptySeq
  <2>2. Len(s) - 1 \in Nat /\ Len(s) = (Len(s) - 1) + 1
    BY <2>1
  <2>3. QED
    BY <2>2
<1>3. Head(s) = s[1]
  BY DEF Head
<1>4. Len(Tail(s)) = n
  BY <1>1, <1>2
<1>5. \A i \in 1 .. n : Tail(s)[i] = s[i + 1] /\ i + 1 \in 1 .. n + 1 /\ i + 1 # 1
  BY <1>1, <1>4
<1>6. \A k \in 1 .. n + 1 : k = 1 \/ (k - 1 \in 1 .. n /\ (k - 1) + 1 = k)
  OBVIOUS
<1>7. Elems(s) = {s[i] : i \in 1 .. n + 1} /\ Elems(Tail(s)) = {Tail(s)[i] : i \in 1 .. n}
  BY <1>2, <1>4 DEF Elems
<1>8. 1 \in 1 .. n + 1
  OBVIOUS
<1>9. Head(s) \in Elems(s)
  BY <1>3, <1>7, <1>8
<1>10. ASSUME NEW x \in Elems(s) PROVE x \in Elems(Tail(s)) \cup {Head(s)}
  <2>1. PICK k \in 1 .. n + 1 : x = s[k]
    BY <1>7
  <2>2. CASE k = 1
    BY <2>1, <2>2, <1>3
  <2>3. CASE k # 1
    BY <2>1, <2>3, <1>5, <1>6, <1>7, ZenonT(60)
  <2>4. QED
    BY <2>2, <2>3
<1>11. ASSUME NEW x \in Elems(Tail(s)) PROVE x \in Elems(s)
  <2>1. PICK i \in 1 .. n : x = Tail(s)[i]
    BY <1>7
  <2>2. QED
    BY <2>1, <1>5, <1>7
<1>12. Distinct(Tail(s), X)
  <2>1. \A a, b \in 1 .. n + 1 : s[a] = s[b] /\ s[a] \in X => a = b
    BY <1>2 DEF Distinct
  <2>2. SUFFICES ASSUME NEW a \in 1 .. n, NEW b \in 1 .. n, Tail(s)[a] = Tail(s)[b],
                        Tail(s)[a] \in X
                 PROVE  a = b
    BY <1>4 DEF Distinct
  <2>3. a + 1 = b + 1
    BY <1>5, <2>1, <2>2
  <2>4. QED
    BY <2>3
<1>13. ASSUME Head(s) \in X, Head(s) \in Elems(Tail(s)) PROVE FALSE
  <2>1. PICK i \in 1 .. n : s[1] = Tail(s)[i]
    BY <1>3, <1>7, <1>13
  <2>2. s[1] = s[i + 1] /\ i + 1 \in 1 .. n + 1 /\ i + 1 # 1
    BY <2>1, <1>5
  <2>3. \A a, b \in 1 .. n + 1 : s[a] = s[b] /\ s[a] \in X => a = b
    BY <1>2 DEF Distinct
  <2>4. QED
    BY <2>2, <2>3, <1>3, <1>8, <1>13
<1>14. QED
  BY <1>1, <1>9, <1>10, <1>11, <1>12, <1>13

\* A read takes the front of the pipe and leaves the rest.
LEMMA ElemsSplit ==
  ASSUME NEW S, NEW X, NEW s \in Seq(S), NEW n \in 0 .. Len(s), Distinct(s, X)
  PROVE  LET front == SubSeq(s, 1, n)
             rest == SubSeq(s, n + 1, Len(s))
         IN  /\ front \in Seq(S) /\ rest \in Seq(S)
             /\ Elems(front) \subseteq Elems(s) /\ Elems(rest) \subseteq Elems(s)
             /\ Distinct(front, X) /\ Distinct(rest, X)
             /\ \A x \in X : ~(x \in Elems(front) /\ x \in Elems(rest))
<1>. DEFINE front == SubSeq(s, 1, n)
            rest == SubSeq(s, n + 1, Len(s))
<1>1. PICK l \in Nat : Len(s) = l /\ n \in Nat /\ n <= l
  BY LenProperties
<1>2. \A i \in 1 .. l : s[i] \in S
  BY <1>1, ElementOfSeq
<1>3. front \in Seq(S) /\ Len(front) = n /\ \A i \in 1 .. n : front[i] = s[i]
  <2>1. \A i \in 1 .. n : s[i] \in S
    BY <1>1, <1>2
  <2>2. /\ front \in Seq(S) /\ Len(front) = IF 1 <= n THEN n - 1 + 1 ELSE 0
        /\ \A i \in 1 .. n - 1 + 1 : front[i] = s[1 + i - 1]
    BY <2>1, <1>1, SubSeqProperties
  <2>3. n - 1 + 1 = n /\ (~(1 <= n) => n = 0) /\ \A i \in 1 .. n : 1 + i - 1 = i
    BY <1>1
  <2>4. QED
    BY <2>2, <2>3
<1>4. PICK m \in Nat : m = l - n /\ l = n + m
  BY <1>1
<1>5. rest \in Seq(S) /\ Len(rest) = m /\ \A i \in 1 .. m : rest[i] = s[n + i]
  <2>1. \A i \in n + 1 .. l : s[i] \in S
    BY <1>1, <1>2
  <2>2. /\ rest \in Seq(S) /\ Len(rest) = IF n + 1 <= l THEN l - (n + 1) + 1 ELSE 0
        /\ \A i \in 1 .. l - (n + 1) + 1 : rest[i] = s[n + 1 + i - 1]
    <3>1. n + 1 \in Int /\ l \in Int
      BY <1>1
    <3>2. QED
      BY <2>1, <3>1, <1>1, SubSeqProperties
  <2>3. l - (n + 1) + 1 = m /\ (~(n + 1 <= l) => m = 0)
        /\ \A i \in 1 .. m : n + 1 + i - 1 = n + i
    BY <1>1, <1>4
  <2>4. QED
    BY <2>2, <2>3
<1>6. \A i \in 1 .. n : i \in 1 .. l
  BY <1>1
<1>7. \A i \in 1 .. m : n + i \in 1 .. l /\ n + i \notin 1 .. n
  BY <1>1, <1>4
<1>8. \A a, b \in 1 .. m : n + a = n + b => a = b
  BY <1>1
<1>9. \A a, b \in 1 .. l : s[a] = s[b] /\ s[a] \in X => a = b
  BY <1>1 DEF Distinct
<1>10. /\ Elems(s) = {s[i] : i \in 1 .. l}
       /\ Elems(front) = {front[i] : i \in 1 .. n}
       /\ Elems(rest) = {rest[i] : i \in 1 .. m}
  BY <1>1, <1>3, <1>5 DEF Elems
<1>. HIDE DEF front, rest
<1>11. Elems(front) \subseteq Elems(s)
  BY <1>3, <1>6, <1>10
<1>12. Elems(rest) \subseteq Elems(s)
  BY <1>5, <1>7, <1>10
<1>13. Distinct(front, X)
  BY <1>3, <1>6, <1>9 DEF Distinct
<1>14. Distinct(rest, X)
  BY <1>5, <1>7, <1>8, <1>9, ZenonT(60) DEF Distinct
<1>15. ASSUME NEW x \in X, x \in Elems(front), x \in Elems(rest) PROVE FALSE
  <2>1. PICK a \in 1 .. n : x = s[a]
    BY <1>3, <1>10, <1>15
  <2>2. PICK b \in 1 .. m : x = s[n + b]
    BY <1>5, <1>10, <1>15
  <2>3. QED
    BY <2>1, <2>2, <1>6, <1>7, <1>9
<1>16. QED
  BY <1>3, <1>5, <1>11, <1>12, <1>13, <1>14, <1>15 DEF front, rest
------------------------------------------------------------------------------
(* The steps of a worker. *)

\* What the invariant says of a worker inside its loop.
LEMMA WorkerFacts ==
  ASSUME PoolInv, NEW w \in Workers, worker[w].pc \in {"loop", "blocked", "ran", "notify"}
  PROVE  /\ worker[w].cur \in Jobs /\ worker[w].job = worker[w].cur
         /\ running[worker[w].cur] = w /\ running[worker[w].cur] # None
         /\ ~Reported(worker[w].cur)
         /\ \A v \in Workers : v # w => worker[v].job # worker[w].cur
  <1>1. worker[w].cur \in Jobs /\ worker[w].job = worker[w].cur
        /\ running[worker[w].cur] = w /\ ~Reported(worker[w].cur)
    BY DEF PoolInv, WorkerOk
  <1>2. running[worker[w].cur] # None
    BY <1>1, PoolAssumption
  <1>3. ASSUME NEW v \in Workers, v # w, worker[v].job = worker[w].cur PROVE FALSE
    <2>1. worker[v] \in Thread
      BY DEF PoolInv, WorkerTypes
    <2>2. worker[v].job # None
      BY <1>1, <1>3, PoolAssumption
    <2>3. worker[v].pc \notin {"none", "dead"}
      BY <2>2 DEF PoolInv, WorkerOk
    <2>4. running[worker[v].job] = v
      BY <2>1, <2>2, <2>3 DEF PoolInv, WorkerOk, Thread, WorkerPlaces
    <2>5. QED
      BY <1>1, <1>3, <2>4
  <1>4. QED
    BY <1>1, <1>2, <1>3

\* A worker that begins its job begins it for the first time.
LEMMA BeginKeeps ==
  ASSUME PoolInv, NEW w \in Workers, Begin(w)
  PROVE  PoolInv'
<1>. DEFINE j == worker[w].cur
<1>1. worker[w].pc = "loop" /\ worker[w] \in Thread
  BY DEF Begin, Step, PoolInv, WorkerTypes
<1>2. j \in Jobs /\ worker[w].job = j /\ running[j] = w /\ running[j] # None
      /\ ~Reported(j) /\ \A v \in Workers : v # w => worker[v].job # j
  BY <1>1, WorkerFacts
<1>3. starts[j] = 0 /\ ~worker[w].token /\ ~worker[w].waiting
  <2>1. WorkerOk(w)
    BY DEF PoolInv
  <2>2. worker[w].waiting = FALSE
    BY <1>1, <2>1 DEF WorkerOk
  <2>3. QED
    BY <1>1, <1>2, <2>1, <2>2 DEF WorkerOk
<1>4. worker' = [worker EXCEPT ![w].pc = "blocked"]
      /\ ended' = [ended EXCEPT ![j] = "no"]
      /\ starts' = [starts EXCEPT ![j] = @ + 1]
      /\ UNCHANGED <<method, latched, pipe, loopVars, taskVars, poolVars>>
  BY DEF Begin, Step
<1>. HIDE DEF j
<1>5. WorkerTypes'
  <2>1. worker' \in [Workers -> Thread]
    BY <1>4, ZenonT(60) DEF PoolInv, WorkerTypes, Thread, WorkerPlaces
  <2>2. ended' \in [Jobs -> {"no", "done", "interrupted"}]
    BY <1>4 DEF PoolInv, WorkerTypes
  <2>3. starts' \in [Jobs -> Nat]
    BY <1>2, <1>4 DEF PoolInv, WorkerTypes
  <2>4. QED
    BY <1>4, <2>1, <2>2, <2>3 DEF PoolInv, WorkerTypes, poolVars
<1>6. SeqTypes' /\ TaskTypes' /\ QueuesOk'
  BY <1>4 DEF PoolInv, SeqTypes, TaskTypes, QueuesOk, loopVars, taskVars, poolVars
<1>7. /\ worker'[w] = [worker[w] EXCEPT !.pc = "blocked"]
      /\ \A v \in Workers : v # w => worker'[v] = worker[v]
      /\ starts'[j] = 1 /\ ended'[j] = "no"
      /\ \A k \in Jobs : k # j => starts'[k] = starts[k] /\ ended'[k] = ended[k]
  BY <1>2, <1>3, <1>4 DEF PoolInv, WorkerTypes
<1>8. WorkerOk(w)'
  BY <1>1, <1>2, <1>3, <1>4, <1>7
  DEF PoolInv, WorkerOk, Thread, Reported, Idle, Stopping, loopVars, poolVars
<1>9. ASSUME NEW v \in Workers, v # w PROVE WorkerOk(v)'
  BY <1>2, <1>4, <1>7, <1>9
  DEF PoolInv, WorkerTypes, WorkerOk, Thread, Reported, Idle, Stopping, loopVars, poolVars
<1>10. \A k \in Jobs : JobOk(k)'
  BY <1>1, <1>2, <1>3, <1>4, <1>7
  DEF PoolInv, WorkerTypes, JobOk, Reported, Queued, Thread, loopVars, taskVars, poolVars
<1>11. \A k \in Jobs : TaskOk(k)'
  BY <1>4 DEF PoolInv, TaskOk, Queued, Active, CancelPending, loopVars, taskVars, poolVars
<1>12. OutcomeIsTrue'
  BY <1>2, <1>4, <1>7 DEF PoolInv, OutcomeIsTrue, TaskOk, taskVars
<1>13. QED
  BY <1>4, <1>5, <1>6, <1>8, <1>9, <1>10, <1>11, <1>12 DEF PoolInv, loopVars, poolVars

\* A call that ends, however it ends, leaves its worker with a job that has a result.
LEMMA CallEnds ==
  ASSUME PoolInv, NEW w \in Workers, worker[w].pc = "blocked",
         NEW e \in {"done", "interrupted"},
         worker' = [worker EXCEPT ![w].pc = "ran"],
         ended' = [ended EXCEPT ![worker[w].cur] = e],
         UNCHANGED <<method, starts, main, poolVars>>,
         \A j \in Jobs : Reported(j)' <=> Reported(j),
         \A j \in Jobs : task'[j] = "new" <=> task[j] = "new",
         ready' \subseteq ready
  PROVE  WorkerTypes' /\ (\A v \in Workers : WorkerOk(v)') /\ (\A j \in Jobs : JobOk(j)')
<1>. DEFINE j == worker[w].cur
<1>1. worker[w] \in Thread
  BY DEF PoolInv, WorkerTypes
<1>2. j \in Jobs /\ worker[w].job = j /\ running[j] = w /\ running[j] # None
      /\ ~Reported(j) /\ \A v \in Workers : v # w => worker[v].job # j
  BY WorkerFacts
<1>3. ~worker[w].token /\ ~worker[w].waiting
  BY <1>1, <1>2 DEF PoolInv, WorkerOk
<1>4. ended' = [ended EXCEPT ![j] = e]
  OBVIOUS
<1>. HIDE DEF j
<1>5. WorkerTypes'
  <2>1. worker' \in [Workers -> Thread]
    BY ZenonT(60) DEF PoolInv, WorkerTypes, Thread, WorkerPlaces
  <2>2. ended' \in [Jobs -> {"no", "done", "interrupted"}]
    BY <1>4 DEF PoolInv, WorkerTypes
  <2>3. QED
    BY <2>1, <2>2 DEF PoolInv, WorkerTypes, poolVars
<1>6. /\ worker'[w] = [worker[w] EXCEPT !.pc = "ran"]
      /\ \A v \in Workers : v # w => worker'[v] = worker[v]
      /\ ended'[j] = e
      /\ \A k \in Jobs : k # j => ended'[k] = ended[k]
  BY <1>2, <1>4 DEF PoolInv, WorkerTypes
<1>7. WorkerOk(w)'
  BY <1>1, <1>2, <1>3, <1>6 DEF PoolInv, WorkerOk, Thread, Idle, Stopping, poolVars
<1>8. ASSUME NEW v \in Workers, v # w PROVE WorkerOk(v)'
  <2>1. worker[v].job \in Jobs \cup {None}
    BY DEF PoolInv, WorkerTypes, Thread
  <2>2. QED
    BY <1>2, <1>6, <1>8, <2>1 DEF PoolInv, WorkerOk, Idle, Stopping, poolVars
<1>9. \A k \in Jobs : JobOk(k)'
  BY <1>1, <1>2, <1>6 DEF PoolInv, WorkerTypes, JobOk, Queued, Thread, poolVars
<1>10. QED
  BY <1>5, <1>7, <1>8, <1>9

\* Nobody who was told an outcome is told about the job of a worker.
LEMMA OutcomeSpared ==
  ASSUME PoolInv, NEW j \in Jobs, running[j] # None, NEW e,
         ended' = [ended EXCEPT ![j] = e],
         UNCHANGED <<outcome, cancelled, abandoned>>
  PROVE  OutcomeIsTrue'
<1>1. outcome[j] # "none" => j \in abandoned
  BY DEF PoolInv, TaskOk
<1>2. ended \in [Jobs -> {"no", "done", "interrupted"}]
  BY DEF PoolInv, WorkerTypes
<1>3. QED
  BY <1>1, <1>2 DEF PoolInv, OutcomeIsTrue

\* A signal entry of the pipe reports no job.
LEMMA SignalReportsNoJob ==
  ASSUME PoolInv, pipe' = Append(pipe, SigEntry), UNCHANGED <<batch, jobQueue, idle, main>>
  PROVE  /\ SeqTypes' /\ QueuesOk'
         /\ \A j \in Jobs : Reported(j)' <=> Reported(j)
<1>1. SigEntry \in Entries /\ SigEntry \notin Jobs /\ pipe \in Seq(Entries)
  BY PoolAssumption DEF Entries, PoolInv, SeqTypes
<1>2. pipe' \in Seq(Entries) /\ Elems(pipe') = Elems(pipe) \cup {SigEntry}
  BY <1>1, ElemsAppend
<1>3. Distinct(pipe', Jobs)
  BY <1>1, DistinctAppend DEF PoolInv, QueuesOk
<1>4. QED
  BY <1>1, <1>2, <1>3 DEF PoolInv, SeqTypes, QueuesOk, Reported

LEMMA CallReturnsKeeps ==
  ASSUME PoolInv, NEW w \in Workers, CallReturns(w) \/ CallAborted(w) \/ SignalArrives(w)
  PROVE  PoolInv'
<1>1. worker[w].pc = "blocked" /\ worker' = [worker EXCEPT ![w].pc = "ran"]
      /\ UNCHANGED <<method, starts, loopVars, taskVars, poolVars>>
  BY DEF CallReturns, CallAborted, SignalArrives, Step
<1>2. PICK e \in {"done", "interrupted"} : ended' = [ended EXCEPT ![worker[w].cur] = e]
  BY DEF CallReturns, CallAborted, SignalArrives
<1>3. pipe' = pipe \/ pipe' = Append(pipe, SigEntry)
  BY DEF CallReturns, CallAborted, SignalArrives
<1>4. UNCHANGED <<method, starts, main, batch, task, ready, cancelled, outcome, abandoned,
                  jobQueue, idle, running>>
  BY <1>1 DEF loopVars, taskVars, poolVars
<1>5. SeqTypes' /\ QueuesOk' /\ \A j \in Jobs : Reported(j)' <=> Reported(j)
  <2>1. CASE pipe' = pipe
    BY <1>4, <2>1 DEF PoolInv, SeqTypes, QueuesOk, Reported
  <2>2. CASE pipe' = Append(pipe, SigEntry)
    BY <1>4, <2>2, SignalReportsNoJob
  <2>3. QED
    BY <1>3, <2>1, <2>2
<1>6. WorkerTypes' /\ (\A v \in Workers : WorkerOk(v)') /\ (\A j \in Jobs : JobOk(j)')
  <2>1. UNCHANGED <<method, starts, main, poolVars>>
        /\ (\A j \in Jobs : task'[j] = "new" <=> task[j] = "new") /\ ready' \subseteq ready
    BY <1>4 DEF poolVars
  <2>2. QED
    BY <1>1, <1>2, <1>5, <2>1, CallEnds
<1>7. TaskTypes'
  BY <1>4 DEF PoolInv, TaskTypes
<1>8. \A j \in Jobs : TaskOk(j)'
  BY <1>4 DEF PoolInv, TaskOk, Queued, Active, CancelPending
<1>9. OutcomeIsTrue'
  BY <1>1, <1>2, <1>4, WorkerFacts, OutcomeSpared
<1>10. QED
  BY <1>4, <1>5, <1>6, <1>7, <1>8, <1>9 DEF PoolInv

LEMMA SetWaitingKeeps ==
  ASSUME PoolInv, NEW w \in Workers, SetWaiting(w)
  PROVE  PoolInv'
<1>1. worker[w].pc = "ran" /\ worker[w] \in Thread
      /\ worker' = [worker EXCEPT ![w].pc = "notify", ![w].waiting = TRUE]
      /\ UNCHANGED <<method, pipe, ended, starts, loopVars, taskVars, poolVars>>
  BY DEF SetWaiting, PoolInv, WorkerTypes
<1>2. UNCHANGED <<method, pipe, ended, starts, main, batch, task, ready, cancelled, outcome,
                  abandoned, jobQueue, idle, running>>
  BY <1>1 DEF loopVars, taskVars, poolVars
<1>3. worker' \in [Workers -> Thread]
      /\ worker'[w] = [worker[w] EXCEPT !.pc = "notify", !.waiting = TRUE]
      /\ \A v \in Workers : v # w => worker'[v] = worker[v]
  BY <1>1 DEF PoolInv, WorkerTypes, Thread, WorkerPlaces
<1>4. WorkerOk(w)'
  BY <1>1, <1>2, <1>3 DEF PoolInv, WorkerOk, Thread, Reported, Idle, Stopping
<1>5. ASSUME NEW v \in Workers, v # w PROVE WorkerOk(v)'
  BY <1>2, <1>3, <1>5 DEF PoolInv, WorkerOk, Reported, Idle, Stopping
<1>6. \A j \in Jobs : JobOk(j)'
  BY <1>1, <1>2, <1>3 DEF PoolInv, WorkerTypes, JobOk, Queued, Reported, Thread
<1>7. QED
  BY <1>2, <1>3, <1>4, <1>5, <1>6
  DEF PoolInv, WorkerTypes, SeqTypes, TaskTypes, QueuesOk, TaskOk, Queued, Active,
      CancelPending, OutcomeIsTrue

\* A completion is reported once: its job was not reported before.
LEMMA NotifyKeeps ==
  ASSUME PoolInv, NEW w \in Workers, Notify(w)
  PROVE  PoolInv'
<1>. DEFINE j == worker[w].cur
<1>1. worker[w].pc = "notify" /\ worker[w] \in Thread
      /\ worker' = [worker EXCEPT ![w].pc = "parked"] /\ pipe' = Append(pipe, j)
      /\ UNCHANGED <<method, ended, starts, loopVars, taskVars, poolVars>>
  BY DEF Notify, Step, PoolInv, WorkerTypes
<1>2. UNCHANGED <<method, ended, starts, main, batch, task, ready, cancelled, outcome,
                  abandoned, jobQueue, idle, running>>
  BY <1>1 DEF loopVars, taskVars, poolVars
<1>3. j \in Jobs /\ worker[w].job = j /\ running[j] = w /\ running[j] # None
      /\ ~Reported(j) /\ \A v \in Workers : v # w => worker[v].job # j
  BY <1>1, WorkerFacts
<1>. HIDE DEF j
<1>4. worker' \in [Workers -> Thread]
      /\ worker'[w] = [worker[w] EXCEPT !.pc = "parked"]
      /\ \A v \in Workers : v # w => worker'[v] = worker[v]
  BY <1>1 DEF PoolInv, WorkerTypes, Thread, WorkerPlaces
<1>5. pipe' \in Seq(Entries) /\ Elems(pipe') = Elems(pipe) \cup {j}
      /\ Distinct(pipe', Jobs)
  BY <1>1, <1>3, ElemsAppend, DistinctAppend
  DEF PoolInv, SeqTypes, QueuesOk, Entries, Reported
<1>6. \A k \in Jobs : Reported(k)' <=> Reported(k) \/ k = j
  BY <1>2, <1>5 DEF Reported
<1>7. WorkerOk(w)'
  BY <1>1, <1>2, <1>3, <1>4, PoolAssumption DEF PoolInv, WorkerOk, Thread, Idle, Stopping
<1>8. ASSUME NEW v \in Workers, v # w PROVE WorkerOk(v)'
  <2>1. worker[v].job \in Jobs \cup {None}
    BY DEF PoolInv, WorkerTypes, Thread
  <2>2. QED
    BY <1>2, <1>3, <1>4, <1>6, <1>8, <2>1 DEF PoolInv, WorkerOk, Idle, Stopping
<1>9. \A k \in Jobs : JobOk(k)'
  BY <1>1, <1>2, <1>3, <1>4, <1>6 DEF PoolInv, WorkerTypes, JobOk, Queued, Thread
<1>10. QueuesOk'
  BY <1>2, <1>3, <1>5 DEF PoolInv, QueuesOk, Reported
<1>11. QED
  BY <1>2, <1>4, <1>5, <1>7, <1>8, <1>9, <1>10
  DEF PoolInv, WorkerTypes, SeqTypes, TaskTypes, TaskOk, Queued, Active,
      CancelPending, OutcomeIsTrue

\* A wake-up finds the job it was sent for, and every wake-up is used up.
LEMMA UnparkKeeps ==
  ASSUME PoolInv, NEW w \in Workers, Unpark(w)
  PROVE  PoolInv'
<1>1. /\ worker[w].pc = "parked" /\ worker[w] \in Thread /\ worker[w].job \in Jobs \cup {None}
      /\ worker' = [worker EXCEPT ![w].token = FALSE, ![w].cur = worker[w].job,
                       ![w].pc = IF worker[w].job = None THEN "dead" ELSE "loop"]
      /\ UNCHANGED <<method, pipe, ended, starts, loopVars, taskVars, poolVars>>
  BY DEF Unpark, PoolInv, WorkerTypes, Thread
<1>2. ~worker[w].waiting
  BY <1>1 DEF Unpark, Woken, PoolInv, WorkerOk, Thread
<1>3. UNCHANGED <<method, pipe, ended, starts, main, batch, task, ready, cancelled, outcome,
                  abandoned, jobQueue, idle, running>>
  BY <1>1 DEF loopVars, taskVars, poolVars
<1>4. worker' \in [Workers -> Thread]
      /\ worker'[w] = [worker[w] EXCEPT !.token = FALSE, !.cur = worker[w].job,
                          !.pc = IF worker[w].job = None THEN "dead" ELSE "loop"]
      /\ \A v \in Workers : v # w => worker'[v] = worker[v]
  BY <1>1 DEF PoolInv, WorkerTypes, Thread, WorkerPlaces
<1>5. WorkerOk(w)'
  BY <1>1, <1>2, <1>3, <1>4, PoolAssumption
  DEF PoolInv, WorkerOk, Thread, Reported, Idle, Stopping
<1>6. ASSUME NEW v \in Workers, v # w PROVE WorkerOk(v)'
  BY <1>3, <1>4, <1>6 DEF PoolInv, WorkerOk, Reported, Idle, Stopping
<1>7. \A j \in Jobs : JobOk(j)'
  BY <1>1, <1>2, <1>3, <1>4, SMTT(60) DEF PoolInv, WorkerTypes, WorkerOk, JobOk, Queued, Reported, Thread
<1>8. QED
  BY <1>3, <1>4, <1>5, <1>6, <1>7
  DEF PoolInv, WorkerTypes, SeqTypes, TaskTypes, QueuesOk, TaskOk, Queued, Active,
      CancelPending, OutcomeIsTrue

------------------------------------------------------------------------------
(* The steps of the main thread that move no job. *)

LEMMA TellToStopKeeps ==
  ASSUME PoolInv, NEW w \in Workers, TellToStop(w)
  PROVE  PoolInv'
<1>1. /\ Stopping /\ idle # << >> /\ w = Head(idle)
      /\ worker[w].pc = "parked" /\ worker[w] \in Thread
      /\ worker' = [worker EXCEPT ![w] = Wake(w, None)]
      /\ UNCHANGED <<method, pipe, ended, starts, loopVars, taskVars, poolVars>>
  BY DEF TellToStop, Stopping, PoolInv, WorkerTypes
<1>2. Idle(w)
  BY <1>1, ElemsTail DEF PoolInv, SeqTypes, QueuesOk, Idle
<1>3. UNCHANGED <<method, pipe, ended, starts, main, batch, task, ready, cancelled, outcome,
                  abandoned, jobQueue, idle, running>>
  BY <1>1 DEF loopVars, taskVars, poolVars
<1>4. worker[w].job = None
  BY <1>2 DEF PoolInv, WorkerOk
<1>5. worker' \in [Workers -> Thread]
      /\ worker'[w] = [worker[w] EXCEPT !.job = None, !.waiting = FALSE, !.token = TRUE]
      /\ \A v \in Workers : v # w => worker'[v] = worker[v]
  BY <1>1 DEF PoolInv, WorkerTypes, Thread, WorkerPlaces, Wake
<1>6. WorkerOk(w)'
  BY <1>1, <1>2, <1>3, <1>5 DEF PoolInv, WorkerOk, Thread, Reported, Idle, Stopping
<1>7. ASSUME NEW v \in Workers, v # w PROVE WorkerOk(v)'
  BY <1>3, <1>5, <1>7 DEF PoolInv, WorkerOk, Reported, Idle, Stopping
<1>8. \A j \in Jobs : JobOk(j)'
  BY <1>1, <1>3, <1>4, <1>5, PoolAssumption
  DEF PoolInv, WorkerTypes, JobOk, Queued, Reported, Thread
<1>9. QED
  BY <1>3, <1>5, <1>6, <1>7, <1>8
  DEF PoolInv, WorkerTypes, SeqTypes, TaskTypes, QueuesOk, TaskOk, Queued, Active,
      CancelPending, OutcomeIsTrue

LEMMA JoinKeeps ==
  ASSUME PoolInv, NEW w \in Workers, Join(w)
  PROVE  PoolInv'
<1>1. /\ Stopping /\ main # "closed" /\ idle # << >> /\ w = Head(idle)
      /\ worker[w].pc = "dead" /\ idle' = Tail(idle)
      /\ UNCHANGED <<method, worker, pipe, ended, starts, main, batch, task, ready, cancelled,
                     outcome, abandoned, jobQueue, running>>
  BY DEF Join, Stopping, workerVars, loopVars, taskVars
<1>2. idle' \in Seq(Workers) /\ Distinct(idle', Workers) /\ Elems(idle) = Elems(idle') \cup {w}
  BY <1>1, ElemsTail DEF PoolInv, SeqTypes, QueuesOk
<1>3. ASSUME NEW v \in Workers PROVE WorkerOk(v)'
  <2>1. CASE v = w
    BY <1>1, <1>2, <2>1 DEF PoolInv, WorkerOk, Reported, Idle, Stopping
  <2>2. CASE v # w
    BY <1>1, <1>2, <2>2 DEF PoolInv, WorkerOk, Reported, Idle, Stopping
  <2>3. QED
    BY <2>1, <2>2
<1>4. QED
  BY <1>1, <1>2, <1>3
  DEF PoolInv, WorkerTypes, SeqTypes, TaskTypes, QueuesOk, JobOk, TaskOk, Queued, Reported,
      Active, CancelPending, OutcomeIsTrue

\* A cancelled task is woken only where it may be.
LEMMA CancelKeeps ==
  ASSUME PoolInv, NEW j \in Jobs, Cancel(j)
  PROVE  PoolInv'
<1>1. /\ main = "run" /\ Active(j) /\ cancelled' = cancelled \cup {j}
      /\ ready' = IF task[j] = "waiting" THEN ready \cup {j} ELSE ready
      /\ UNCHANGED <<method, worker, pipe, ended, starts, main, batch, task, outcome,
                     abandoned, jobQueue, idle, running>>
  BY DEF Cancel, workerVars, loopVars, poolVars
<1>2. TaskTypes'
  BY <1>1 DEF PoolInv, TaskTypes
<1>3. \A k \in Jobs : JobOk(k)'
  BY <1>1 DEF PoolInv, JobOk, Queued, Reported, Active
<1>4. \A k \in Jobs : TaskOk(k)'
  BY <1>1 DEF PoolInv, TaskOk, Queued, Active, CancelPending
<1>5. OutcomeIsTrue'
  BY <1>1 DEF PoolInv, OutcomeIsTrue
<1>6. QED
  BY <1>1, <1>2, <1>3, <1>4, <1>5
  DEF PoolInv, WorkerTypes, SeqTypes, QueuesOk, WorkerOk, Reported, Idle, Stopping

LEMMA RetryTimerKeeps ==
  ASSUME PoolInv, NEW j \in Jobs, RetryTimer(j)
  PROVE  PoolInv'
<1>1. /\ task[j] = "retry" /\ ready' = ready \cup {j}
      /\ UNCHANGED <<method, worker, pipe, ended, starts, main, batch, task, outcome,
                     abandoned, cancelled, jobQueue, idle, running>>
  BY DEF RetryTimer, workerVars, loopVars, poolVars
<1>2. TaskTypes'
  BY <1>1 DEF PoolInv, TaskTypes
<1>3. \A k \in Jobs : JobOk(k)'
  BY <1>1 DEF PoolInv, JobOk, Queued, Reported
<1>4. \A k \in Jobs : TaskOk(k)'
  BY <1>1 DEF PoolInv, TaskOk, Queued, Active, CancelPending
<1>5. OutcomeIsTrue'
  BY <1>1 DEF PoolInv, OutcomeIsTrue
<1>6. QED
  BY <1>1, <1>2, <1>3, <1>4, <1>5
  DEF PoolInv, WorkerTypes, SeqTypes, QueuesOk, WorkerOk, Reported, Idle, Stopping

\* The entries a read takes are no longer in the pipe.
LEMMA FetchKeeps ==
  ASSUME PoolInv, Fetch
  PROVE  PoolInv'
<1>. DEFINE n == IF Len(pipe) < FetchMax THEN Len(pipe) ELSE FetchMax
<1>1. /\ main \in {"run", "again"} /\ main' = "drain"
      /\ batch' = SubSeq(pipe, 1, n) /\ pipe' = SubSeq(pipe, n + 1, Len(pipe))
      /\ UNCHANGED <<method, worker, ended, starts, task, ready, cancelled, outcome,
                     abandoned, jobQueue, idle, running>>
  BY DEF Fetch, taskVars, poolVars
<1>2. pipe \in Seq(Entries) /\ Distinct(pipe, Jobs) /\ batch = << >>
  BY <1>1 DEF PoolInv, SeqTypes, QueuesOk
<1>3. n \in 0 .. Len(pipe)
  <2>1. Len(pipe) \in Nat /\ FetchMax \in Nat
    BY <1>2, LenProperties, PoolAssumption
  <2>2. QED
    BY <2>1
<1>. HIDE DEF n
<1>4. /\ batch' \in Seq(Entries) /\ pipe' \in Seq(Entries)
      /\ Elems(batch') \subseteq Elems(pipe) /\ Elems(pipe') \subseteq Elems(pipe)
      /\ Distinct(batch', Jobs) /\ Distinct(pipe', Jobs)
      /\ \A j \in Jobs : ~(j \in Elems(batch') /\ j \in Elems(pipe'))
  BY <1>1, <1>2, <1>3, ElemsSplit
<1>5. \A j \in Jobs : Reported(j)' => Reported(j)
  BY <1>4 DEF Reported
<1>6. ~Stopping /\ ~Stopping'
  BY <1>1 DEF Stopping
<1>7. ASSUME NEW w \in Workers PROVE WorkerOk(w)'
  <2>1. worker[w].job \in Jobs \cup {None}
    BY DEF PoolInv, WorkerTypes, Thread
  <2>2. QED
    BY <1>1, <1>5, <1>6, <2>1 DEF PoolInv, WorkerOk, Idle
<1>8. \A j \in Jobs : JobOk(j)'
  BY <1>1, <1>5 DEF PoolInv, JobOk, Queued
<1>9. QueuesOk'
  BY <1>1, <1>4 DEF PoolInv, QueuesOk
<1>10. TaskTypes'
  BY <1>1 DEF PoolInv, TaskTypes
<1>11. QED
  BY <1>1, <1>4, <1>7, <1>8, <1>9, <1>10
  DEF PoolInv, WorkerTypes, SeqTypes, TaskOk, Queued, Active, CancelPending, OutcomeIsTrue

\* The loop gives up: the tasks that wait are cancelled, and woken where they may be.
LEMMA FetchFailsKeeps ==
  ASSUME PoolInv, FetchFails
  PROVE  PoolInv'
<1>1. /\ main = "again" /\ main' = "failed"
      /\ cancelled' = cancelled \cup {j \in Jobs : Active(j)}
      /\ ready' = ready \cup {j \in Jobs : task[j] = "waiting"}
      /\ UNCHANGED <<method, worker, pipe, ended, starts, batch, task, outcome,
                     abandoned, jobQueue, idle, running>>
  BY DEF FetchFails, workerVars, poolVars
<1>2. TaskTypes'
  BY <1>1 DEF PoolInv, TaskTypes
<1>3. \A j \in Jobs : JobOk(j)'
  BY <1>1 DEF PoolInv, JobOk, Queued, Reported
<1>4. \A j \in Jobs : TaskOk(j)'
  BY <1>1 DEF PoolInv, TaskTypes, TaskOk, Queued, Active, CancelPending
<1>5. OutcomeIsTrue'
  BY <1>1 DEF PoolInv, OutcomeIsTrue
<1>6. \A w \in Workers : WorkerOk(w)'
  BY <1>1 DEF PoolInv, WorkerOk, Reported, Idle, Stopping
<1>7. QED
  BY <1>1, <1>2, <1>3, <1>4, <1>5, <1>6 DEF PoolInv, WorkerTypes, SeqTypes, QueuesOk

\* The loop ends, and the pool is destroyed, when no task is in it.
LEMMA EndKeeps ==
  ASSUME PoolInv, Shutdown \/ Destroy
  PROVE  PoolInv'
<1>1. /\ main \in {"run", "joining", "failed"} /\ main' \in {"joining", "closed"}
      /\ main' = "joining" => main = "run"
      /\ main' = "closed" => idle = << >> /\ \A j \in Jobs : ~Active(j)
      /\ UNCHANGED <<method, worker, pipe, ended, starts, batch, task, ready, cancelled,
                     outcome, abandoned, jobQueue, idle, running>>
  BY DEF Shutdown, Destroy, workerVars, taskVars, poolVars
<1>2. TaskTypes' /\ QueuesOk'
  BY <1>1 DEF PoolInv, TaskTypes, QueuesOk
<1>3. \A w \in Workers : WorkerOk(w)'
  BY <1>1 DEF PoolInv, WorkerOk, Reported, Idle, Stopping
<1>4. \A j \in Jobs : TaskOk(j)'
  BY <1>1 DEF PoolInv, TaskOk, Queued, Active, CancelPending
<1>5. QED
  BY <1>1, <1>2, <1>3, <1>4
  DEF PoolInv, WorkerTypes, SeqTypes, JobOk, Queued, Reported, OutcomeIsTrue

------------------------------------------------------------------------------
(* The steps of the main thread that hand out jobs. *)

\* A pool that may grow has a worker that was never spawned: the threads that
\* there are all have a job, and the jobs have a thread each.
LEMMA FreshWorker ==
  ASSUME PoolInv, main = "run", idle = << >>, RunningCount < MaxWorkers
  PROVE  \E w \in Workers : w \notin Threads
<1>. DEFINE Busy == {j \in Jobs : running[j] # None}
            at == [j \in Busy |-> running[j]]
            by == [w \in Threads |-> worker[w].job]
<1>1. SUFFICES ASSUME Threads = Workers PROVE FALSE
  BY DEF Threads
<1>2. at \in Injection(Busy, Workers)
  <2>1. at \in [Busy -> Workers]
    BY DEF PoolInv, WorkerTypes
  <2>2. ASSUME NEW j \in Busy, NEW k \in Busy, at[j] = at[k] PROVE j = k
    BY <2>2 DEF PoolInv, JobOk
  <2>3. QED
    BY <2>1, <2>2 DEF Injection, IsInjective
<1>3. IsFiniteSet(Busy) /\ Cardinality(Busy) = RunningCount
  BY <1>2, PoolAssumption, FS_Injection DEF RunningCount
<1>4. by \in Injection(Workers, Busy)
  <2>1. ASSUME NEW w \in Workers
        PROVE  worker[w].job \in Busy /\ running[worker[w].job] = w
    <3>1. worker[w] \in Thread /\ worker[w].pc # "none" /\ ~Idle(w)
      BY <1>1, ElemsEmpty DEF PoolInv, WorkerTypes, Threads, Idle
    <3>2. worker[w].pc \notin {"none", "dead"}
      BY <3>1 DEF PoolInv, WorkerOk, Stopping
    <3>3. worker[w].job \in Jobs /\ running[worker[w].job] = w
      BY <3>1, <3>2 DEF PoolInv, WorkerOk, Thread, WorkerPlaces
    <3>4. QED
      BY <3>3, PoolAssumption
  <2>2. by \in [Workers -> Busy]
    BY <1>1, <2>1
  <2>3. ASSUME NEW v \in Workers, NEW w \in Workers, by[v] = by[w] PROVE v = w
    BY <1>1, <2>1, <2>3
  <2>4. QED
    BY <2>2, <2>3 DEF Injection, IsInjective
<1>. HIDE DEF Busy, at, by
<1>5. Cardinality(Workers) <= Cardinality(Busy)
  BY <1>3, <1>4, FS_Injection
<1>6. Cardinality(Workers) \in Nat /\ Cardinality(Busy) \in Nat /\ MaxWorkers \in Nat
      /\ Cardinality(Workers) >= MaxWorkers
  BY <1>3, PoolAssumption, FS_CardinalityType
<1>7. QED
  BY <1>3, <1>5, <1>6

\* A job that is submitted goes to a new worker, to an idle one or into the queue.
LEMMA SubmitKeeps ==
  ASSUME PoolInv, NEW j \in Jobs, Submit(j)
  PROVE  PoolInv'
<1>1. /\ main = "run" /\ task[j] = "new"
      /\ task' = [task EXCEPT ![j] = IF j \in Cancellable THEN "waiting" ELSE "shielded"]
      /\ UNCHANGED <<method, pipe, ended, starts, main, batch, ready, cancelled, outcome,
                     abandoned>>
  BY DEF Submit, loopVars
<1>2. /\ starts[j] = 0 /\ j \notin ready /\ running[j] = None /\ ~Queued(j) /\ ~Reported(j)
      /\ outcome[j] = "none" /\ j \notin abandoned
  BY <1>1 DEF PoolInv, JobOk, TaskOk
<1>3. TaskTypes' /\ task'[j] \in {"waiting", "shielded"}
      /\ \A k \in Jobs : k # j => task'[k] = task[k]
  BY <1>1 DEF PoolInv, TaskTypes
<1>4. OutcomeIsTrue'
  BY <1>1 DEF PoolInv, OutcomeIsTrue
<1>5. \A v \in Workers : worker[v].job # j
  <2>1. SUFFICES ASSUME NEW v \in Workers, worker[v].job = j PROVE FALSE
    OBVIOUS
  <2>2. worker[v] \in Thread /\ worker[v].job # None
    BY <2>1, PoolAssumption DEF PoolInv, WorkerTypes
  <2>3. running[j] = v
    BY <2>1, <2>2 DEF PoolInv, WorkerOk, Thread, WorkerPlaces
  <2>4. QED
    BY <1>2, <2>3, PoolAssumption
<1>6. CASE idle = << >> /\ RunningCount >= MaxWorkers /\ jobQueue' = Append(jobQueue, j)
           /\ UNCHANGED <<worker, idle, running>>
  <2>1. jobQueue' \in Seq(Jobs) /\ Elems(jobQueue') = Elems(jobQueue) \cup {j}
        /\ Distinct(jobQueue', Jobs)
    BY <1>2, <1>6, ElemsAppend, DistinctAppend DEF PoolInv, SeqTypes, QueuesOk, Queued
  <2>2. \A k \in Jobs : Queued(k)' <=> Queued(k) \/ k = j
    BY <2>1 DEF Queued
  <2>3. \A k \in Jobs : JobOk(k)'
    BY <1>1, <1>2, <1>3, <1>6, <2>2 DEF PoolInv, JobOk, Reported
  <2>4. \A k \in Jobs : TaskOk(k)'
    BY <1>1, <1>2, <1>3, <1>6, <2>2 DEF PoolInv, TaskOk, Active, CancelPending
  <2>5. \A w \in Workers : WorkerOk(w)'
    BY <1>1, <1>6 DEF PoolInv, WorkerOk, Reported, Idle, Stopping
  <2>6. QED
    BY <1>1, <1>3, <1>4, <1>6, <2>1, <2>3, <2>4, <2>5
    DEF PoolInv, WorkerTypes, SeqTypes, QueuesOk
\* What the two other cases have in common: worker w gets the job.
<1>7. ASSUME NEW w \in Workers, worker' \in [Workers -> Thread],
             running' = [running EXCEPT ![j] = w],
             \A v \in Workers : v # w => worker'[v] = worker[v],
             worker'[w].job = j, worker[w].job = None, WorkerOk(w)',
             \A v \in Workers : v # w => (Idle(v)' <=> Idle(v)),
             idle' \in Seq(Workers), Distinct(idle', Workers),
             jobQueue' = jobQueue
      PROVE  PoolInv'
  <2>1. w # None /\ running[j] # w
    BY <1>2, PoolAssumption
  <2>2. running' \in [Jobs -> Workers \cup {None}] /\ running'[j] = w
        /\ \A k \in Jobs : k # j => running'[k] = running[k]
    BY <1>7 DEF PoolInv, WorkerTypes
  <2>3. WorkerTypes'
    BY <1>1, <1>7, <2>2 DEF PoolInv, WorkerTypes
  <2>4. ASSUME NEW v \in Workers, v # w PROVE WorkerOk(v)'
    <3>1. worker[v].job \in Jobs \cup {None}
      BY DEF PoolInv, WorkerTypes, Thread
    <3>2. QED
      BY <1>1, <1>5, <1>7, <2>2, <2>4, <3>1 DEF PoolInv, WorkerOk, Reported, Stopping
  <2>5. \A k \in Jobs : JobOk(k)'
    <3>1. ASSUME NEW k \in Jobs, k # j PROVE JobOk(k)'
      <4>1. running[k] # None => running[k] # w /\ running[k] \in Workers
        BY <1>7, PoolAssumption DEF PoolInv, JobOk, WorkerTypes
      <4>2. QED
        BY <1>1, <1>3, <1>7, <2>2, <3>1, <4>1 DEF PoolInv, JobOk, Queued, Reported
    <3>2. JobOk(j)'
      BY <1>1, <1>2, <1>3, <1>7, <2>1, <2>2 DEF PoolInv, JobOk, Queued, Reported
    <3>3. QED
      BY <3>1, <3>2
  <2>6. \A k \in Jobs : TaskOk(k)'
    BY <1>1, <1>2, <1>3, <1>7, <2>2 DEF PoolInv, TaskOk, Queued, Active, CancelPending
  <2>7. QED
    BY <1>1, <1>3, <1>4, <1>7, <2>3, <2>4, <2>5, <2>6 DEF PoolInv, SeqTypes, QueuesOk
<1>8. CASE /\ idle = << >> /\ RunningCount < MaxWorkers
           /\ LET w == CHOOSE w \in Workers : w \notin Threads IN
                /\ worker' = [worker EXCEPT ![w] = NewThread(j)]
                /\ running' = [running EXCEPT ![j] = w]
           /\ UNCHANGED <<jobQueue, idle>>
  <2>1. PICK w \in Workers : w = (CHOOSE v \in Workers : v \notin Threads) /\ w \notin Threads
    BY <1>1, <1>8, FreshWorker
  <2>2. worker' = [worker EXCEPT ![w] = NewThread(j)] /\ running' = [running EXCEPT ![j] = w]
    BY <1>8, <2>1
  <2>3. worker[w].pc = "none" /\ worker[w].job = None
    BY <2>1 DEF Threads, PoolInv, WorkerOk
  <2>4. worker' \in [Workers -> Thread]
        /\ worker'[w] = NewThread(j) /\ \A v \in Workers : v # w => worker'[v] = worker[v]
    BY <2>1, <2>2 DEF PoolInv, WorkerTypes, NewThread, Thread, WorkerPlaces
  <2>5. ~Idle(w)'
    BY <1>8, ElemsEmpty DEF Idle
  <2>6. running'[j] = w
    BY <2>2 DEF PoolInv, WorkerTypes
  <2>7. WorkerOk(w)'
    <3>1. worker'[w].pc = "loop" /\ worker'[w].job = j /\ worker'[w].cur = j
          /\ worker'[w].waiting = FALSE /\ worker'[w].token = FALSE
      BY <2>4 DEF NewThread
    <3>2. starts'[j] = 0 /\ ~Reported(j)'
      BY <1>1, <1>2 DEF Reported
    <3>3. QED
      BY <2>5, <2>6, <3>1, <3>2 DEF WorkerOk
  <2>8. worker'[w].job = j /\ \A v \in Workers : v # w => (Idle(v)' <=> Idle(v))
    BY <1>8, <2>4 DEF NewThread, Idle
  <2>9. idle' \in Seq(Workers) /\ Distinct(idle', Workers)
    BY <1>8 DEF PoolInv, SeqTypes, QueuesOk
  <2>10. QED
    BY <1>7, <1>8, <2>1, <2>2, <2>3, <2>4, <2>7, <2>8, <2>9
<1>9. CASE /\ idle # << >>
           /\ worker' = [worker EXCEPT ![Head(idle)] = Wake(Head(idle), j)]
           /\ running' = [running EXCEPT ![j] = Head(idle)]
           /\ idle' = Tail(idle)
           /\ UNCHANGED jobQueue
  <2>0. PICK w : w = Head(idle)
    OBVIOUS
  <2>1. /\ w \in Workers /\ Idle(w) /\ idle' \in Seq(Workers) /\ Distinct(idle', Workers)
        /\ Elems(idle) = Elems(idle') \cup {w} /\ w \notin Elems(idle')
    BY <2>0, <1>9, ElemsTail DEF PoolInv, SeqTypes, QueuesOk, Idle
  <2>2. worker' = [worker EXCEPT ![w] = Wake(w, j)] /\ running' = [running EXCEPT ![j] = w]
    BY <2>0, <1>9
  <2>3. worker[w].pc = "parked" /\ worker[w].job = None /\ worker[w] \in Thread
    BY <1>1, <2>1 DEF PoolInv, WorkerOk, WorkerTypes, Stopping
  <2>4. worker' \in [Workers -> Thread]
        /\ worker'[w] = Wake(w, j) /\ \A v \in Workers : v # w => worker'[v] = worker[v]
    BY <2>1, <2>2, ZenonT(60) DEF PoolInv, WorkerTypes, Wake, Thread
  <2>5. running'[j] = w
    BY <2>2 DEF PoolInv, WorkerTypes
  <2>6. WorkerOk(w)'
    <3>1. worker'[w].pc = "parked" /\ worker'[w].job = j
          /\ worker'[w].waiting = FALSE /\ worker'[w].token = TRUE
      BY <2>3, <2>4 DEF Wake, Thread
    <3>2. starts'[j] = 0 /\ ~Reported(j)' /\ ~Idle(w)' /\ j # None
      BY <1>1, <1>2, <2>1, PoolAssumption DEF Reported, Idle
    <3>3. QED
      BY <2>5, <3>1, <3>2 DEF WorkerOk
  <2>7. worker'[w].job = j /\ \A v \in Workers : v # w => (Idle(v)' <=> Idle(v))
    BY <2>1, <2>3, <2>4 DEF Wake, Idle, Thread
  <2>8. QED
    BY <1>7, <1>9, <2>1, <2>2, <2>3, <2>4, <2>6, <2>7
<1>10. QED
  BY <1>6, <1>8, <1>9 DEF Submit

\* A completion names a worker that waits with that job, which it has performed.
LEMMA Reporter ==
  ASSUME PoolInv, NEW j \in Jobs, Reported(j)
  PROVE  /\ running[j] \in Workers /\ worker[running[j]] \in Thread
         /\ worker[running[j]].pc = "parked" /\ worker[running[j]].job = j
         /\ worker[running[j]].waiting /\ ~worker[running[j]].token
         /\ ended[j] # "no" /\ task[j] # "new" /\ ~Queued(j)
<1>1. running[j] \in Workers /\ worker[running[j]].pc = "parked"
      /\ worker[running[j]].job = j /\ task[j] # "new" /\ ~Queued(j)
  BY DEF PoolInv, JobOk, WorkerTypes
<1>2. PICK w \in Workers : w = running[j]
  BY <1>1
<1>3. worker[w] \in Thread /\ worker[w].job # None
  BY <1>1, <1>2, PoolAssumption DEF PoolInv, WorkerTypes
<1>4. worker[w].waiting /\ ~worker[w].token /\ ended[j] # "no"
  BY <1>1, <1>2, <1>3 DEF PoolInv, WorkerOk, Thread
<1>5. QED
  BY <1>1, <1>2, <1>3, <1>4

\* The entry that is handled is gone, and it was the only one of its job.
LEMMA BatchShrinks ==
  ASSUME PoolInv, Handle
  PROVE  /\ main = "drain" /\ main' \in {"run", "again", "drain"}
         /\ Head(batch) \in Entries /\ Head(batch) \in Elems(batch)
         /\ SeqTypes' \/ ~(jobQueue' \in Seq(Jobs) /\ idle' \in Seq(Workers))
         /\ Distinct(batch', Jobs) /\ Distinct(pipe', Jobs)
         /\ \A j \in Jobs : ~(j \in Elems(pipe') /\ j \in Elems(batch'))
         /\ main' # "drain" => batch' = << >>
         /\ \A j \in Jobs : Reported(j)' <=> Reported(j) /\ j # Head(batch)
<1>1. /\ main = "drain" /\ batch # << >> /\ batch' = Tail(batch) /\ pipe' = pipe
      /\ main' = IF Len(batch) > 1 THEN "drain" ELSE IF more THEN "again" ELSE "run"
  BY DEF Handle
<1>2. batch \in Seq(Entries) /\ Distinct(batch, Jobs)
  BY DEF PoolInv, SeqTypes, QueuesOk
<1>3. /\ Head(batch) \in Entries /\ Head(batch) \in Elems(batch)
      /\ batch' \in Seq(Entries) /\ Elems(batch) = Elems(batch') \cup {Head(batch)}
      /\ Distinct(batch', Jobs)
      /\ Head(batch) \in Jobs => Head(batch) \notin Elems(batch')
  BY <1>1, <1>2, ElemsTail
<1>4. main' # "drain" => batch' = << >>
  <2>1. Len(batch) \in Nat \ {0} /\ Len(batch') = Len(batch) - 1
    BY <1>1, <1>2, EmptySeq, HeadTailProperties
  <2>2. main' # "drain" => Len(batch') = 0
    BY <1>1, <2>1
  <2>3. batch' # << >> => Len(batch') \in Nat \ {0}
    BY <1>3, EmptySeq
  <2>4. QED
    BY <2>2, <2>3
<1>5. \A j \in Jobs : Reported(j)' <=> Reported(j) /\ j # Head(batch)
  BY <1>1, <1>3 DEF Reported, PoolInv, QueuesOk
<1>6. Distinct(pipe', Jobs) /\ \A j \in Jobs : ~(j \in Elems(pipe') /\ j \in Elems(batch'))
  BY <1>1, <1>3 DEF PoolInv, QueuesOk
<1>7. pipe' \in Seq(Entries)
  BY <1>1 DEF PoolInv, SeqTypes
<1>8. main' \in {"run", "again", "drain"}
  BY <1>1
<1>9. QED
  BY <1>1, <1>3, <1>4, <1>5, <1>6, <1>7, <1>8 DEF SeqTypes

\* A completed job leaves running_workers; its worker becomes idle or gets the
\* next job of the queue.
LEMMA HandleKeeps ==
  ASSUME PoolInv, Handle
  PROVE  PoolInv'
<1>0. PICK j : j = Head(batch)
  OBVIOUS
<1>1. UNCHANGED <<method, pipe, ended, starts, task, cancelled, outcome, abandoned>>
  BY DEF Handle
<1>2. /\ main = "drain" /\ main' \in {"run", "again", "drain"} /\ ~Stopping /\ ~Stopping'
      /\ j \in Entries /\ j \in Elems(batch)
      /\ \A k \in Jobs : Reported(k)' <=> Reported(k) /\ k # j
  BY <1>0, BatchShrinks DEF Stopping
<1>3. QueuesOk' \/ ~(Distinct(jobQueue', Jobs) /\ Distinct(idle', Workers))
  BY BatchShrinks DEF QueuesOk
<1>4. SeqTypes' \/ ~(jobQueue' \in Seq(Jobs) /\ idle' \in Seq(Workers))
  BY BatchShrinks
<1>5. OutcomeIsTrue'
  BY <1>1 DEF PoolInv, OutcomeIsTrue
<1>6. jobQueue \in Seq(Jobs) /\ idle \in Seq(Workers)
      /\ Distinct(jobQueue, Jobs) /\ Distinct(idle, Workers)
  BY DEF PoolInv, SeqTypes, QueuesOk
<1>7. CASE j = SigEntry /\ UNCHANGED <<worker, ready, poolVars>>
  <2>1. UNCHANGED <<worker, ready, jobQueue, idle, running>>
    BY <1>7 DEF poolVars
  <2>2. \A k \in Jobs : Reported(k)' <=> Reported(k)
    BY <1>2, <1>7, PoolAssumption
  <2>3. ASSUME NEW v \in Workers PROVE WorkerOk(v)'
    <3>1. worker[v].job \in Jobs \cup {None}
      BY DEF PoolInv, WorkerTypes, Thread
    <3>2. QED
      BY <1>1, <1>2, <2>1, <2>2, <3>1 DEF PoolInv, WorkerOk, Idle
  <2>4. \A k \in Jobs : JobOk(k)'
    BY <1>1, <2>1, <2>2 DEF PoolInv, JobOk, Queued
  <2>5. \A k \in Jobs : TaskOk(k)'
    BY <1>1, <1>2, <2>1 DEF PoolInv, TaskOk, Queued, Active, CancelPending
  <2>6. TaskTypes'
    BY <1>1, <1>2, <2>1 DEF PoolInv, TaskTypes
  <2>7. QED
    BY <1>1, <1>2, <1>3, <1>4, <1>5, <1>6, <2>1, <2>3, <2>4, <2>5, <2>6
    DEF PoolInv, WorkerTypes
<1>8. CASE j # SigEntry /\ HandOver(j, running[j]) /\ ready' = IF Active(j) THEN ready \cup {j} ELSE ready
  <2>1. j \in Jobs /\ Reported(j)
    BY <1>2, <1>8 DEF Entries, Reported
  <2>2. PICK w \in Workers :
           /\ w = running[j] /\ worker[w] \in Thread /\ worker[w].pc = "parked" /\ worker[w].job = j
           /\ worker[w].waiting /\ ~worker[w].token
           /\ ended[j] # "no" /\ task[j] # "new" /\ ~Queued(j)
    BY <2>1, Reporter
  <2>3. TaskTypes'
    BY <1>1, <1>2, <1>8, <2>1 DEF PoolInv, TaskTypes
  <2>4. ~Idle(w) /\ w # None
    BY <2>1, <2>2, PoolAssumption DEF PoolInv, WorkerOk
  <2>5. \A k \in Jobs : k # j => running[k] # w
    BY <2>2, <2>4 DEF PoolInv, JobOk
  <2>6. CASE /\ jobQueue = << >>
             /\ worker' = [worker EXCEPT ![w] = EnterIdle(w)]
             /\ idle' = Append(idle, w)
             /\ running' = [running EXCEPT ![j] = None]
             /\ UNCHANGED jobQueue
    <3>1. idle' \in Seq(Workers) /\ Elems(idle') = Elems(idle) \cup {w}
          /\ Distinct(idle', Workers)
      BY <1>6, <2>2, <2>4, <2>6, ElemsAppend, DistinctAppend DEF Idle
    <3>2. worker' \in [Workers -> Thread]
          /\ worker'[w] = [worker[w] EXCEPT !.job = None]
          /\ \A v \in Workers : v # w => worker'[v] = worker[v]
      BY <2>2, <2>6 DEF PoolInv, WorkerTypes, Thread, EnterIdle
    <3>3. running' \in [Jobs -> Workers \cup {None}] /\ running'[j] = None
          /\ \A k \in Jobs : k # j => running'[k] = running[k]
      BY <2>1, <2>6 DEF PoolInv, WorkerTypes
    <3>4. WorkerOk(w)'
      BY <1>2, <2>2, <3>1, <3>2 DEF WorkerOk, Thread, Idle
    <3>5. ASSUME NEW v \in Workers, v # w PROVE WorkerOk(v)'
      <4>1. worker[v].job \in Jobs \cup {None} /\ running[j] # v
        BY <2>2, <3>5 DEF PoolInv, WorkerTypes, Thread
      <4>2. QED
        BY <1>1, <1>2, <3>1, <3>2, <3>3, <3>5, <4>1 DEF PoolInv, WorkerOk, Idle
    <3>6. \A k \in Jobs : JobOk(k)'
      <4>1. ASSUME NEW k \in Jobs, k # j PROVE JobOk(k)'
        <5>1. running[k] # None => running[k] # w /\ running[k] \in Workers
          BY <2>5, <4>1 DEF PoolInv, WorkerTypes
        <5>2. running'[k] = running[k] /\ jobQueue' = jobQueue
              /\ (running[k] # None => worker'[running[k]] = worker[running[k]])
          BY <2>6, <3>2, <3>3, <4>1, <5>1
        <5>3. Reported(k)' <=> Reported(k)
          BY <1>2, <4>1
        <5>4. k \in ready' <=> k \in ready
          BY <1>8, <4>1
        <5>5. QED
          BY <1>1, <5>2, <5>3, <5>4 DEF PoolInv, JobOk, Queued
      <4>2. JobOk(j)'
        BY <1>1, <1>2, <2>1, <2>2, <2>6, <3>3 DEF PoolInv, JobOk, Queued
      <4>3. QED
        BY <4>1, <4>2
    <3>7. \A k \in Jobs : TaskOk(k)'
      BY <1>1, <1>2, <1>8, <2>1, <2>2, <2>6, <3>3
      DEF PoolInv, TaskOk, Queued, Active, CancelPending
    <3>8. QED
      BY <1>1, <1>2, <1>3, <1>4, <1>5, <1>6, <2>3, <2>6, <3>1, <3>2, <3>3, <3>4, <3>5, <3>6, <3>7
      DEF PoolInv, WorkerTypes
  <2>7. CASE /\ jobQueue # << >>
             /\ worker' = [worker EXCEPT ![w] = Wake(w, Head(jobQueue))]
             /\ running' = [running EXCEPT ![j] = None, ![Head(jobQueue)] = w]
             /\ jobQueue' = Tail(jobQueue)
             /\ UNCHANGED idle
    <3>0. PICK h : h = Head(jobQueue)
      OBVIOUS
    <3>1. /\ h \in Jobs /\ Queued(h) /\ jobQueue' \in Seq(Jobs) /\ Distinct(jobQueue', Jobs)
          /\ Elems(jobQueue) = Elems(jobQueue') \cup {h} /\ h \notin Elems(jobQueue')
      BY <3>0, <1>6, <2>7, ElemsTail DEF Queued
    <3>2. worker' = [worker EXCEPT ![w] = Wake(w, h)]
          /\ running' = [running EXCEPT ![j] = None, ![h] = w]
      BY <3>0, <2>7
    <3>3. h # j /\ starts[h] = 0 /\ task[h] # "new" /\ running[h] = None /\ ~Reported(h)
      BY <2>2, <3>1 DEF PoolInv, JobOk
    <3>4. worker' \in [Workers -> Thread]
          /\ worker'[w] = [worker[w] EXCEPT !.job = h, !.waiting = FALSE, !.token = TRUE]
          /\ \A v \in Workers : v # w => worker'[v] = worker[v]
      BY <2>2, <3>1, <3>2 DEF PoolInv, WorkerTypes, Thread, Wake
    <3>5. running' \in [Jobs -> Workers \cup {None}] /\ running'[j] = None /\ running'[h] = w
          /\ \A k \in Jobs : k # j /\ k # h => running'[k] = running[k]
      BY <2>1, <2>2, <3>1, <3>2, <3>3 DEF PoolInv, WorkerTypes
    <3>6. \A k \in Jobs : Queued(k)' <=> Queued(k) /\ k # h
      BY <3>1 DEF Queued
    <3>7. WorkerOk(w)'
      <4>1. worker'[w].pc = "parked" /\ worker'[w].job = h
            /\ worker'[w].waiting = FALSE /\ worker'[w].token = TRUE
        BY <2>2, <3>4 DEF Thread
      <4>2. starts'[h] = 0 /\ ~Reported(h)' /\ ~Idle(w)' /\ h # None
        BY <1>1, <1>2, <2>4, <2>7, <3>1, <3>3, PoolAssumption DEF Idle
      <4>3. QED
        BY <3>5, <4>1, <4>2 DEF WorkerOk
    <3>8. ASSUME NEW v \in Workers, v # w PROVE WorkerOk(v)'
      <4>1. worker[v].job \in Jobs \cup {None} /\ running[j] # v /\ running[h] # v
        BY <2>2, <3>3, <3>8, PoolAssumption DEF PoolInv, WorkerTypes, Thread
      <4>2. QED
        BY <1>1, <1>2, <2>7, <3>4, <3>5, <3>8, <4>1 DEF PoolInv, WorkerOk, Idle
    <3>9. \A k \in Jobs : JobOk(k)'
      <4>1. ASSUME NEW k \in Jobs, k # j, k # h PROVE JobOk(k)'
        <5>1. running[k] # None => running[k] # w /\ running[k] \in Workers
          BY <2>5, <4>1 DEF PoolInv, WorkerTypes
        <5>2. running'[k] = running[k]
              /\ (running[k] # None => worker'[running[k]] = worker[running[k]])
          BY <3>4, <3>5, <4>1, <5>1
        <5>3. (Reported(k)' <=> Reported(k)) /\ (Queued(k)' <=> Queued(k))
          BY <1>2, <3>6, <4>1
        <5>4. k \in ready' <=> k \in ready
          BY <1>8, <4>1
        <5>5. QED
          BY <1>1, <5>2, <5>3, <5>4 DEF PoolInv, JobOk
      <4>2. JobOk(j)'
        <5>1. ~Reported(j)' /\ ~Queued(j)' /\ running'[j] = None
          BY <1>2, <2>1, <2>2, <3>5, <3>6
        <5>2. QED
          BY <1>1, <2>1, <2>2, <5>1 DEF PoolInv, JobOk
      <4>3. JobOk(h)'
        <5>1. worker'[running'[h]].job = h /\ ~Queued(h)' /\ ~Reported(h)'
          BY <1>2, <2>2, <3>1, <3>3, <3>4, <3>5, <3>6, ZenonT(60) DEF Thread
        <5>2. QED
          BY <1>1, <2>4, <3>1, <3>3, <3>5, <5>1 DEF PoolInv, JobOk
      <4>4. QED
        BY <4>1, <4>2, <4>3
    <3>10. \A k \in Jobs : TaskOk(k)'
      BY <1>1, <1>2, <1>8, <2>1, <2>2, <3>1, <3>3, <3>5, <3>6
      DEF PoolInv, TaskOk, Active, CancelPending
    <3>11. QED
      BY <1>1, <1>2, <1>3, <1>4, <1>5, <1>6, <2>3, <2>7, <3>1, <3>4, <3>5, <3>7, <3>8, <3>9, <3>10
      DEF PoolInv, WorkerTypes
  <2>8. QED
    BY <1>8, <2>2, <2>6, <2>7 DEF HandOver
<1>9. QED
  BY <1>0, <1>7, <1>8 DEF Handle

------------------------------------------------------------------------------
(* A task goes on: it takes its result or tries to cancel its job. *)

\* A job that has left the pool, and was not left in its queue, has a result.
LEMMA ResultIsThere ==
  ASSUME PoolInv, NEW j \in Jobs, running[j] = None, ~Queued(j), task[j] # "new"
  PROVE  /\ Result(j) = "result" => ended[j] = "done"
         /\ Result(j) = "cancelled" => j \in cancelled /\ ended[j] = "interrupted"
         /\ Result(j) = "error" => ended[j] = "interrupted"
         /\ Result(j) \in {"result", "cancelled", "error", "cancelFailed"}
<1>1. ended[j] \in {"done", "interrupted"}
  BY DEF PoolInv, JobOk, WorkerTypes
<1>2. CASE task[j] = "cancelFailed"
  BY <1>2 DEF Result
<1>3. CASE task[j] # "cancelFailed" /\ ended[j] = "done"
  BY <1>3 DEF Result
<1>4. CASE task[j] # "cancelFailed" /\ ended[j] = "interrupted"
  BY <1>4 DEF Result
<1>5. QED
  BY <1>1, <1>2, <1>3, <1>4

\* Whatever is read, it is one of the outcomes.
LEMMA ResultType ==
  ASSUME NEW j \in Jobs
  PROVE  Result(j) \in {"result", "cancelled", "error", "cancelFailed"}
<1>1. CASE task[j] = "cancelFailed"
  BY <1>1 DEF Result
<1>2. CASE task[j] # "cancelFailed" /\ ended[j] = "interrupted"
  BY <1>2 DEF Result
<1>3. CASE task[j] # "cancelFailed" /\ ended[j] # "interrupted"
  BY <1>3 DEF Result
<1>4. QED
  BY <1>1, <1>2, <1>3

\* A task returns: with a result, or it leaves a job in the queue.
LEMMA ReturnKeeps ==
  ASSUME PoolInv, NEW j \in Jobs, j \in ready, running[j] = None, Return(j),
         ready' = ready \ {j},
         abandoned' = IF Queued(j) THEN abandoned \cup {j} ELSE abandoned,
         UNCHANGED <<method, worker, pipe, ended, starts, main, batch, cancelled,
                     jobQueue, idle, running>>
  PROVE  PoolInv'
<1>1. task[j] # "new" /\ task[j] # "returned"
  BY DEF PoolInv, TaskOk, Active
<1>2. /\ task' = [task EXCEPT ![j] = "returned"] /\ outcome' = [outcome EXCEPT ![j] = Result(j)]
      /\ Result(j) \in {"result", "cancelled", "error", "cancelFailed"}
  BY ResultType DEF Return
<1>3. /\ task'[j] = "returned" /\ outcome'[j] = Result(j)
      /\ \A k \in Jobs : k # j => task'[k] = task[k] /\ outcome'[k] = outcome[k]
  BY <1>2 DEF PoolInv, TaskTypes
<1>4. TaskTypes'
  BY <1>2 DEF PoolInv, TaskTypes
<1>5. OutcomeIsTrue'
  <2>1. ASSUME NEW k \in Jobs \ abandoned', k # j
        PROVE  /\ outcome'[k] = "result" => ended'[k] = "done"
               /\ outcome'[k] = "cancelled" => k \in cancelled' /\ ended'[k] = "interrupted"
               /\ outcome'[k] = "error" => ended'[k] = "interrupted"
    BY <1>3, <2>1 DEF PoolInv, OutcomeIsTrue
  <2>2. ASSUME j \notin abandoned'
        PROVE  /\ outcome'[j] = "result" => ended'[j] = "done"
               /\ outcome'[j] = "cancelled" => j \in cancelled' /\ ended'[j] = "interrupted"
               /\ outcome'[j] = "error" => ended'[j] = "interrupted"
    BY <1>1, <1>3, <2>2, ResultIsThere
  <2>3. QED
    BY <2>1, <2>2 DEF OutcomeIsTrue
<1>6. \A k \in Jobs : JobOk(k)'
  BY <1>1, <1>3 DEF PoolInv, JobOk, Queued, Reported
<1>7. ASSUME NEW k \in Jobs PROVE TaskOk(k)'
  <2>1. CASE k = j
    BY <1>2, <1>3, <2>1 DEF PoolInv, TaskOk, Queued, Active, CancelPending
  <2>2. CASE k # j
    BY <1>3, <2>2 DEF PoolInv, TaskOk, Queued, Active, CancelPending
  <2>3. QED
    BY <2>1, <2>2
<1>8. \A w \in Workers : WorkerOk(w)'
  BY DEF PoolInv, WorkerOk, Reported, Idle, Stopping
<1>9. QED
  BY <1>4, <1>5, <1>6, <1>7, <1>8 DEF PoolInv, WorkerTypes, SeqTypes, QueuesOk

\* A task waits for its cancelled job; the worker it reached may have been broken
\* off, and that worker was in a call of its own job.
LEMMA TryCancelKeeps ==
  ASSUME PoolInv, main # "closed", NEW j \in Jobs, j \in ready, running[j] # None,
         NEW status \in {"NeedWait", "RetryLater", "Failed"},
         CancelWorker(running[j], status), AwaitCancelled(j, status),
         ready' = ready \ {j},
         UNCHANGED <<method, pipe, starts, main, batch, cancelled, abandoned,
                     jobQueue, idle, running>>
  PROVE  PoolInv'
<1>1. PICK w \in Workers : w = running[j]
  BY DEF PoolInv, WorkerTypes
<1>2. \/ UNCHANGED <<worker, ended>>
      \/ InCall(w) /\ Interrupt(w)
  BY <1>1 DEF CancelWorker, CancelSynchronousIo, InterruptBySignal
<1>3. task[j] # "new" /\ task[j] # "returned" /\ outcome' = outcome
  BY DEF PoolInv, TaskOk, Active, AwaitCancelled
<1>4. /\ task' \in [Jobs -> {"new", "waiting", "shielded", "retry", "needWait",
                            "cancelFailed", "returned"}]
      /\ task'[j] \in {"needWait", "retry", "cancelFailed"}
      /\ \A k \in Jobs : k # j => task'[k] = task[k]
  BY DEF PoolInv, TaskTypes, AwaitCancelled
<1>5. TaskTypes'
  BY <1>3, <1>4 DEF PoolInv, TaskTypes
<1>6. ASSUME NEW k \in Jobs PROVE TaskOk(k)'
  <2>1. CASE k = j
    BY <1>3, <1>4, <2>1 DEF PoolInv, TaskOk, Active
  <2>2. CASE k # j
    BY <1>3, <1>4, <2>2 DEF PoolInv, TaskOk, Queued, Active, CancelPending
  <2>3. QED
    BY <2>1, <2>2
<1>7. (\A k \in Jobs : task'[k] = "new" <=> task[k] = "new") /\ ready' \subseteq ready
      /\ \A k \in Jobs : Reported(k)' <=> Reported(k)
  BY <1>3, <1>4 DEF Reported
<1>8. CASE UNCHANGED <<worker, ended>>
  <2>1. \A v \in Workers : WorkerOk(v)'
    BY <1>8 DEF PoolInv, WorkerOk, Reported, Idle, Stopping
  <2>2. \A k \in Jobs : JobOk(k)'
    BY <1>7, <1>8 DEF PoolInv, JobOk, Queued
  <2>3. OutcomeIsTrue'
    BY <1>3, <1>8 DEF PoolInv, OutcomeIsTrue
  <2>4. QED
    BY <1>5, <1>6, <1>8, <2>1, <2>2, <2>3 DEF PoolInv, WorkerTypes, SeqTypes, QueuesOk
<1>9. CASE InCall(w) /\ Interrupt(w)
  <2>1. worker[w].pc = "blocked" /\ worker' = [worker EXCEPT ![w].pc = "ran"]
    BY <1>9 DEF InCall, Interrupt
  <2>2. PICK e \in {"done", "interrupted"} : ended' = [ended EXCEPT ![worker[w].cur] = e]
    BY <1>9 DEF Interrupt
  <2>3. WorkerTypes' /\ (\A v \in Workers : WorkerOk(v)') /\ (\A k \in Jobs : JobOk(k)')
    <3>1. UNCHANGED <<method, starts, main, poolVars>>
      BY DEF poolVars
    <3>2. QED
      BY <1>7, <2>1, <2>2, <3>1, CallEnds
  <2>4. OutcomeIsTrue'
    BY <1>3, <2>1, <2>2, WorkerFacts, OutcomeSpared
  <2>5. QED
    BY <1>5, <1>6, <2>3, <2>4 DEF PoolInv, SeqTypes, QueuesOk
<1>10. QED
  BY <1>2, <1>8, <1>9

LEMMA ResumeKeeps ==
  ASSUME PoolInv, NEW j \in Jobs, Resume(j)
  PROVE  PoolInv'
<1>1. /\ main # "closed" /\ j \in ready /\ ready' = ready \ {j}
      /\ UNCHANGED <<method, pipe, starts, main, batch, cancelled, jobQueue, idle, running>>
  BY DEF Resume, loopVars, poolVars
<1>2. CASE CancelPending(j) /\ TryCancel(j)
  <2>1. CASE /\ running[j] = None
             /\ Return(j)
             /\ abandoned' = IF \E i \in 1..Len(jobQueue) : jobQueue[i] = j
                               THEN abandoned \cup {j} ELSE abandoned
             /\ UNCHANGED <<worker, ended, latched>>
    <3>1. Queued(j) <=> \E i \in 1..Len(jobQueue) : jobQueue[i] = j
      BY DEF Queued, Elems
    <3>2. abandoned' = IF Queued(j) THEN abandoned \cup {j} ELSE abandoned
      BY <2>1, <3>1
    <3>3. QED
      BY <1>1, <2>1, <3>2, ReturnKeeps
  <2>2. CASE /\ running[j] # None
             /\ \E status \in {"NeedWait", "RetryLater", "Failed"} :
                  CancelWorker(running[j], status) /\ AwaitCancelled(j, status)
             /\ UNCHANGED abandoned
    <3>1. PICK status \in {"NeedWait", "RetryLater", "Failed"} :
            CancelWorker(running[j], status) /\ AwaitCancelled(j, status)
      BY <2>2
    <3>2. QED
      BY <1>1, <2>2, <3>1, TryCancelKeeps
  <2>3. QED
    BY <1>2, <2>1, <2>2 DEF TryCancel
<1>3. CASE ~CancelPending(j) /\ Return(j) /\ UNCHANGED <<worker, ended, latched, abandoned>>
  <2>1. running[j] = None /\ ~Queued(j)
    BY <1>1, <1>3 DEF PoolInv, TaskOk
  <2>2. abandoned' = IF Queued(j) THEN abandoned \cup {j} ELSE abandoned
    BY <1>3, <2>1
  <2>3. QED
    BY <1>1, <1>3, <2>1, <2>2, ReturnKeeps
<1>4. QED
  BY <1>2, <1>3 DEF Resume

------------------------------------------------------------------------------
(***************************************************************************)
(* The invariant of the pool and the loop: a worker is inside its loop     *)
(* with the job running_workers has for it, parked with its completion on  *)
(* its way, parked with a wake-up not yet taken, or idle; and a job that   *)
(* is in no queue and with no worker has a result.                         *)
(***************************************************************************)
THEOREM PoolInvariant == Spec => []PoolInv
<1>1. Init => PoolInv
  <2>. SUFFICES ASSUME Init PROVE PoolInv
    OBVIOUS
  <2>1. pipe = << >> /\ batch = << >> /\ jobQueue = << >> /\ idle = << >>
        /\ Elems(<< >>) = {} /\ \A X : Distinct(<< >>, X)
    BY ElemsEmpty DEF Init
  <2>2. SeqTypes
    BY <2>1, EmptySeq DEF SeqTypes
  <2>3. WorkerTypes
    BY DEF Init, WorkerTypes, NoThread, Thread, WorkerPlaces
  <2>4. TaskTypes /\ QueuesOk
    BY <2>1 DEF Init, TaskTypes, QueuesOk
  <2>5. \A w \in Workers : WorkerOk(w)
    BY <2>1 DEF Init, WorkerOk, NoThread, Idle
  <2>6. \A j \in Jobs : JobOk(j) /\ TaskOk(j)
    BY <2>1 DEF Init, JobOk, TaskOk, Queued, Reported, Active
  <2>7. OutcomeIsTrue
    BY DEF Init, OutcomeIsTrue
  <2>8. QED
    BY <2>1, <2>2, <2>3, <2>4, <2>5, <2>6, <2>7 DEF Init, PoolInv
<1>2. PoolInv /\ [Next]_vars => PoolInv'
  <2>. SUFFICES ASSUME PoolInv, [Next]_vars PROVE PoolInv'
    OBVIOUS
  <2>1. ASSUME NEW w \in Workers, WorkerNext(w) PROVE PoolInv'
    BY <2>1, BeginKeeps, CallReturnsKeeps, SetWaitingKeeps, NotifyKeeps, UnparkKeeps
    DEF WorkerNext
  <2>2. ASSUME NEW w \in Workers, TellToStop(w) \/ Join(w) PROVE PoolInv'
    BY <2>2, TellToStopKeeps, JoinKeeps
  <2>3. ASSUME NEW j \in Jobs, Submit(j) \/ Cancel(j) \/ Resume(j) \/ RetryTimer(j)
        PROVE  PoolInv'
    BY <2>3, SubmitKeeps, CancelKeeps, ResumeKeeps, RetryTimerKeeps
  <2>4. CASE Fetch \/ Handle \/ FetchFails \/ Shutdown \/ Destroy
    BY <2>4, FetchKeeps, HandleKeeps, FetchFailsKeeps, EndKeeps
  <2>5. CASE UNCHANGED vars
    BY <2>5
    DEF PoolInv, WorkerTypes, SeqTypes, TaskTypes, QueuesOk, WorkerOk, JobOk, TaskOk,
        Queued, Idle, Reported, Stopping, Active, CancelPending, OutcomeIsTrue,
        vars, workerVars, loopVars, taskVars, poolVars
  <2>6. QED
    BY <2>1, <2>2, <2>3, <2>4, <2>5 DEF Next
<1>3. QED
  BY <1>1, <1>2, PTL DEF Spec

\* Every job is begun at most once, by the worker running_workers names, and while
\* that worker is not waiting its job is the one a cancellation means.
THEOREM WorkersServeTheirJobsAlways == Spec => []WorkersServeTheirJobs
<1>1. PoolInv => WorkersServeTheirJobs
  <2>. SUFFICES ASSUME PoolInv PROVE WorkersServeTheirJobs
    OBVIOUS
  <2>1. \A j \in Jobs : starts[j] <= 1
    BY DEF PoolInv, JobOk
  <2>2. ASSUME NEW w \in Workers, NEW j \in Jobs, Performing(w, j) PROVE running[j] = w
    BY <2>2, WorkerFacts DEF Performing
  <2>3. ASSUME NEW j \in Jobs, running[j] # None
        PROVE  /\ worker[running[j]].job = j
               /\ ~worker[running[j]].waiting /\ worker[running[j]].pc # "parked"
                    => worker[running[j]].cur = j
    <3>1. PICK w \in Workers : w = running[j]
      BY <2>3 DEF PoolInv, WorkerTypes
    <3>2. worker[w].job = j /\ j # None /\ worker[w] \in Thread
      BY <2>3, <3>1, PoolAssumption DEF PoolInv, JobOk, WorkerTypes
    <3>3. worker[w].pc \notin {"none", "dead"}
      BY <3>2 DEF PoolInv, WorkerOk
    <3>4. worker[w].pc # "parked" => worker[w].cur = j
      BY <3>2, <3>3 DEF PoolInv, WorkerOk, Thread, WorkerPlaces
    <3>5. QED
      BY <3>1, <3>2, <3>4
  <2>4. QED
    BY <2>1, <2>2, <2>3 DEF WorkersServeTheirJobs
<1>2. QED
  BY <1>1, PoolInvariant, PTL

\* A task is told what its job did: a result only of a job performed to its end,
\* Cancelled only of a job that was interrupted.
THEOREM OutcomeIsAlwaysTrue == Spec => []OutcomeIsTrue
<1>1. PoolInv => OutcomeIsTrue
  BY DEF PoolInv
<1>2. QED
  BY <1>1, PoolInvariant, PTL

\* No worker performs a job whose task has returned and freed it, and when the
\* pool is closed every thread has ended, unless a task left its job in the queue.
THEOREM UsesAreAlwaysLive == Spec => []UsesAreLive
<1>1. PoolInv => UsesAreLive
  <2>. SUFFICES ASSUME PoolInv PROVE UsesAreLive
    OBVIOUS
  <2>1. ASSUME NEW w \in Workers, NEW j \in Jobs \ abandoned, Performing(w, j)
        PROVE  task[j] # "returned"
    BY <2>1, WorkerFacts DEF Performing, PoolInv, TaskOk
  <2>2. ASSUME main = "closed", abandoned = {}, NEW w \in Workers
        PROVE  worker[w].pc \in {"none", "dead"}
    <3>1. SUFFICES ASSUME worker[w].pc \notin {"none", "dead"} PROVE FALSE
      OBVIOUS
    <3>2. worker[w] \in Thread /\ ~Idle(w)
      BY <2>2, ElemsEmpty DEF PoolInv, WorkerTypes, Idle
    <3>3. worker[w].job \in Jobs /\ running[worker[w].job] = w
      BY <3>1, <3>2 DEF PoolInv, WorkerOk, Thread, WorkerPlaces
    <3>4. PICK j \in Jobs : running[j] = w /\ running[j] # None
      BY <3>3, PoolAssumption
    <3>5. task[j] # "new" /\ task[j] # "returned" /\ ~Active(j)
      BY <2>2, <3>4 DEF PoolInv, JobOk, TaskOk
    <3>6. QED
      BY <3>5 DEF PoolInv, TaskTypes, Active
  <2>3. QED
    BY <2>1, <2>2 DEF UsesAreLive
<1>2. QED
  BY <1>1, PoolInvariant, PTL
==============================================================================
