---------------------------- MODULE WebhookProofs ----------------------------
(***************************************************************************)
(* What the table of deliveries says is true, however many runs of         *)
(* send_pending overlap or die; and one run at a time that does not die    *)
(* keeps to the limit of attempts and to the growing waits between them:   *)
(* it implements what Delivery promises.                                   *)
(***************************************************************************)
EXTENDS Webhooks, WellFoundedInduction, TLAPS

(* A set of numbers that is not empty has a least one.                     *)
LEMMA LeastNumber ==
  ASSUME NEW S, S \subseteq Nat, S # {}
  PROVE  \E n \in S : \A k \in Nat : k < n => k \notin S
<1> DEFINE R == OpToRel(<, Nat)
<1>1. IsWellFoundedOn(R, Nat)
  BY NatLessThanWellFounded
<1>2. PICK n \in S : \A k \in S : <<k, n>> \notin R
  <2> HIDE DEF R
  <2> QED BY <1>1, WFMin
<1>3. \A k \in S : ~(k < n)
  BY <1>2 DEF OpToRel
<1> QED BY <1>3

(* Induction over the numbers, about a set instead of a predicate.         *)
LEMMA Induction ==
  ASSUME NEW S, 0 \in S, \A n \in Nat : n \in S => n + 1 \in S
  PROVE  Nat \subseteq S
<1>1. SUFFICES ASSUME Nat \ S # {} PROVE FALSE
  OBVIOUS
<1>2. PICK n \in Nat \ S : \A k \in Nat : k < n => k \notin Nat \ S
  BY <1>1, LeastNumber
<1>3. n # 0 /\ n - 1 \in Nat /\ n - 1 < n /\ (n - 1) + 1 = n
  BY <1>2
<1> QED BY <1>2, <1>3

(* A table of the powers up to n.                                          *)
Powers(g, n) ==
  /\ g \in [0..n -> Nat] /\ g[0] = 1
  /\ \A i \in 1..n : g[i] = 2 * g[i - 1]

LEMMA PowersExist == \A n \in Nat : \E g : Powers(g, n)
<1> DEFINE S == {n \in Nat : \E g : Powers(g, n)}
<1>1. 0 \in S
  <2> DEFINE g == [i \in 0..0 |-> 1]
  <2>1. Powers(g, 0)
    BY DEF Powers
  <2> QED BY <2>1
<1>2. ASSUME NEW n \in Nat, n \in S PROVE n + 1 \in S
  <2>1. PICK g : Powers(g, n)
    BY <1>2
  <2> DEFINE h == [i \in 0..(n + 1) |-> IF i = n + 1 THEN 2 * g[n] ELSE g[i]]
  <2>2. \A i \in 0..n : g[i] \in Nat /\ h[i] = g[i]
    BY <2>1 DEF Powers
  <2>3. h \in [0..(n + 1) -> Nat]
    <3>1. \A i \in 0..(n + 1) : i = n + 1 \/ i \in 0..n
      OBVIOUS
    <3>2. 2 * g[n] \in Nat
      <4>1. n \in 0..n
        OBVIOUS
      <4>2. g[n] \in Nat
        BY <2>2, <4>1
      <4> QED BY <4>2
    <3>3. \A i \in 0..n : g[i] \in Nat
      BY <2>2
    <3> QED BY <3>1, <3>2, <3>3
  <2>4. h[n + 1] = 2 * h[n]
    BY <2>2
  <2>5. ASSUME NEW i \in 1..(n + 1) PROVE h[i] = 2 * h[i - 1]
    <3>1. CASE i = n + 1
      BY <2>4, <3>1
    <3>2. CASE i \in 1..n
      <4>1. i - 1 \in 0..n /\ i \in 0..n
        BY <3>2
      <4>2. g[i] = 2 * g[i - 1]
        BY <2>1, <3>2 DEF Powers
      <4> HIDE DEF h
      <4> QED BY <2>2, <4>1, <4>2
    <3> QED BY <3>1, <3>2
  <2>6. h[0] = 1
    <3>1. 0 \in 0..n /\ g[0] = 1
      BY <2>1 DEF Powers
    <3> HIDE DEF h
    <3> QED BY <2>2, <3>1
  <2> HIDE DEF h
  <2>7. Powers(h, n + 1)
    BY <2>3, <2>5, <2>6 DEF Powers
  <2> QED BY <2>7
<1> HIDE DEF S
<1>3. Nat \subseteq S
  BY <1>1, <1>2, Induction
<1> QED BY <1>3 DEF S

LEMMA PowersUnique ==
  ASSUME NEW m \in Nat, NEW n \in Nat, NEW g, NEW h, Powers(g, m), Powers(h, n)
  PROVE  \A i \in Nat : i <= m /\ i <= n => g[i] = h[i]
<1> DEFINE S == {i \in Nat : i <= m /\ i <= n => g[i] = h[i]}
<1>1. 0 \in S
  BY DEF Powers
<1>2. ASSUME NEW i \in Nat, i \in S PROVE i + 1 \in S
  <2> SUFFICES ASSUME i + 1 <= m, i + 1 <= n PROVE g[i + 1] = h[i + 1]
    OBVIOUS
  <2>1. g[i] = h[i]
    BY <1>2
  <2>2. g[i + 1] = 2 * g[i] /\ h[i + 1] = 2 * h[i]
    <3>1. i + 1 \in 1..m /\ i + 1 \in 1..n /\ (i + 1) - 1 = i
      OBVIOUS
    <3> QED BY <3>1 DEF Powers
  <2> QED BY <2>1, <2>2
<1> HIDE DEF S
<1>3. Nat \subseteq S
  BY <1>1, <1>2, Induction
<1> QED BY <1>3 DEF S

LEMMA BackoffFacts ==
  /\ Backoff \in [Nat -> Nat] /\ Backoff[0] = 1
  /\ \A n \in Nat : Backoff[n + 1] = 2 * Backoff[n]
<1> DEFINE G(n) == CHOOSE g : Powers(g, n)
           F == [n \in Nat |-> G(n)[n]]
<1>1. \A n \in Nat : Powers(G(n), n)
  BY PowersExist
<1> HIDE DEF G
<1>2. F[0] = 1 /\ F \in [Nat -> Nat]
  BY <1>1 DEF Powers
<1>3. ASSUME NEW n \in Nat PROVE F[n + 1] = 2 * F[n]
  <2>1. G(n + 1)[n + 1] = 2 * G(n + 1)[n]
    <3>1. Powers(G(n + 1), n + 1)
      BY <1>1
    <3>2. n + 1 \in 1..(n + 1) /\ (n + 1) - 1 = n
      OBVIOUS
    <3> QED BY <3>1, <3>2 DEF Powers
  <2>2. G(n + 1)[n] = G(n)[n]
    BY <1>1, PowersUnique
  <2> QED BY <2>1, <2>2
<1> HIDE DEF F
<1>4. F = [n \in Nat |-> IF n = 0 THEN 1 ELSE 2 * F[n - 1]]
  <2>1. ASSUME NEW n \in Nat PROVE F[n] = IF n = 0 THEN 1 ELSE 2 * F[n - 1]
    <3>1. n # 0 => n - 1 \in Nat /\ (n - 1) + 1 = n
      OBVIOUS
    <3> QED BY <1>2, <1>3, <3>1
  <2>2. F = [n \in Nat |-> F[n]]
    BY <1>2
  <2> QED BY <2>1, <2>2
<1>5. Backoff = [n \in Nat |-> IF n = 0 THEN 1 ELSE 2 * Backoff[n - 1]]
  BY <1>4 DEF Backoff
<1>6. ASSUME NEW n \in Nat PROVE Backoff[n + 1] = 2 * Backoff[n]
  <2>1. n + 1 \in Nat /\ n + 1 # 0 /\ (n + 1) - 1 = n
    OBVIOUS
  <2> QED BY <1>5, <2>1
<1>7. Backoff[0] = 1
  BY <1>5
<1>8. Backoff \in [Nat -> Nat]
  <2> DEFINE S == {n \in Nat : Backoff[n] \in Nat}
  <2>1. 0 \in S
    BY <1>7
  <2>2. ASSUME NEW n \in Nat, n \in S PROVE n + 1 \in S
    BY <1>6, <2>2
  <2> HIDE DEF S
  <2>3. Nat \subseteq S
    BY <2>1, <2>2, Induction
  <2>4. \A n \in Nat : Backoff[n] \in Nat
    BY <2>3 DEF S
  <2> QED BY <1>5, <2>4
<1> QED BY <1>6, <1>7, <1>8

(* The powers of two grow.                                                 *)
LEMMA BackoffGrows ==
  \A m, n \in Nat : m <= n => Backoff[m] <= Backoff[n] /\ Backoff[m] > 0
<1>1. \A n \in Nat : Backoff[n] \in Nat /\ Backoff[n + 1] = 2 * Backoff[n]
  BY BackoffFacts
<1>2. \A n \in Nat : Backoff[n] <= Backoff[n + 1]
  BY <1>1
<1> DEFINE S == {n \in Nat : \A m \in 0..n : Backoff[m] <= Backoff[n]}
<1>3. 0 \in S
  BY <1>1
<1>4. ASSUME NEW n \in Nat, n \in S PROVE n + 1 \in S
  <2> SUFFICES ASSUME NEW m \in 0..(n + 1) PROVE Backoff[m] <= Backoff[n + 1]
    OBVIOUS
  <2>1. CASE m = n + 1
    BY <1>1, <2>1
  <2>2. CASE m \in 0..n
    <3>1. Backoff[m] <= Backoff[n]
      BY <1>4, <2>2
    <3> QED BY <1>1, <1>2, <2>2, <3>1
  <2> QED BY <2>1, <2>2
<1> HIDE DEF S
<1>5. Nat \subseteq S
  BY <1>3, <1>4, Induction
<1>6. \A m, n \in Nat : m <= n => Backoff[m] <= Backoff[n]
  <2> SUFFICES ASSUME NEW m \in Nat, NEW n \in Nat, m <= n PROVE Backoff[m] <= Backoff[n]
    OBVIOUS
  <2>1. n \in S /\ m \in 0..n
    BY <1>5
  <2> QED BY <2>1 DEF S
<1>7. \A n \in Nat : Backoff[n] > 0
  BY <1>1, <1>6, BackoffFacts
<1> QED BY <1>6, <1>7
-----------------------------------------------------------------------------
Statuses == {"none", "pending", "delivered", "failed"}

Row == [status : Statuses, url : Urls, attempts : 0..MaxAttempts, wait : Nat]

WorkerState == [at : {"idle", "loop", "save"}, todo : SUBSET Deliveries,
                seen : [Deliveries -> 0..MaxAttempts], age : 0..MaxAge,
                fresh : BOOLEAN, now : SUBSET Deliveries, ok : BOOLEAN]

Shape ==
  /\ config \in [on : BOOLEAN, url : Urls]
  /\ delivery \in [Deliveries -> Row]
  /\ worker \in [Workers -> WorkerState]
  /\ posted \in [Deliveries -> Nat]
  /\ heard \in [Deliveries -> SUBSET Ends]

(* There is an attempt left for what is pending, and for what a run read.  *)
Left ==
  /\ \A d \in Deliveries :
       delivery[d].status \in {"none", "pending"} => delivery[d].attempts < MaxAttempts
  /\ \A w \in Workers :
       /\ worker[w].now \subseteq worker[w].todo
       /\ \A d \in worker[w].todo : worker[w].seen[d] < MaxAttempts

(* What a run read, and what it is about to save, was POSTed.              *)
Held ==
  \A w \in Workers :
    /\ \A d \in Deliveries : worker[w].seen[d] <= posted[d]
    /\ worker[w].at = "save" =>
         \A d \in worker[w].now : worker[w].seen[d] < posted[d] /\ (worker[w].ok => Acked[d])

LEMMA Constants == MaxAttempts \in Nat /\ MaxAttempts > 0
<1>1. MaxAttempts \in Nat \ {0}
  BY WebhookAssumption, Zenon DEF WebhookAssumption
<1> QED BY <1>1

LEMMA SameAcked == UNCHANGED heard => UNCHANGED Acked
BY DEF Acked

LEMMA IdleFacts ==
  /\ IdleWorker \in WorkerState /\ IdleWorker.at = "idle"
  /\ IdleWorker.todo = {} /\ IdleWorker.now = {}
  /\ \A d \in Deliveries : IdleWorker.seen[d] = 0
<1>1. 0 \in 0..MaxAttempts /\ 0 \in 0..MaxAge
  BY Constants DEF MaxAge
<1> DEFINE zero == [d \in Deliveries |-> 0]
<1>2. zero \in [Deliveries -> 0..MaxAttempts]
  BY <1>1
<1>3. \A d \in Deliveries : zero[d] = 0
  OBVIOUS
<1>4. IdleWorker = [at |-> "idle", todo |-> {}, seen |-> zero,
                    age |-> 0, fresh |-> TRUE, now |-> {}, ok |-> FALSE]
  BY DEF IdleWorker
<1> HIDE DEF zero
<1>5. IdleWorker \in WorkerState
  BY <1>1, <1>2, <1>4 DEF WorkerState
<1> QED BY <1>3, <1>4, <1>5

Inv == Shape /\ Left /\ Held /\ HonestRows

LEMMA SavedRowFacts ==
  ASSUME NEW row \in Row, NEW n \in 1..MaxAttempts, NEW ok \in BOOLEAN, NEW age \in 0..MaxAge
  PROVE  /\ SavedRow(row, n, ok, age) \in Row
         /\ SavedRow(row, n, ok, age).attempts = n
         /\ SavedRow(row, n, ok, age).status =
              IF ok THEN "delivered" ELSE IF n >= MaxAttempts THEN "failed" ELSE "pending"
<1> DEFINE s == IF ok THEN "delivered" ELSE IF n >= MaxAttempts THEN "failed" ELSE "pending"
           wait == IF ok \/ n >= MaxAttempts THEN 0 ELSE Less(Backoff[n], age)
<1>1. SavedRow(row, n, ok, age) = [row EXCEPT !.status = s, !.attempts = n, !.wait = wait]
  BY DEF SavedRow
<1>2. s \in Statuses
  BY DEF Statuses
<1> HIDE DEF s, wait
<1>5. n \in 0..MaxAttempts
  BY Constants
<1>6. wait \in Nat
  <2>1. Backoff[n] \in Nat /\ age \in Nat
    BY BackoffFacts, Constants DEF MaxAge
  <2> QED BY <2>1 DEF wait, Less
<1>3. /\ SavedRow(row, n, ok, age).status = s
      /\ SavedRow(row, n, ok, age).attempts = n
      /\ SavedRow(row, n, ok, age).wait = wait
  BY <1>1 DEF Row
<1>4. SavedRow(row, n, ok, age) \in Row
  BY <1>1, <1>2, <1>5, <1>6 DEF Row
<1> QED BY <1>3, <1>4 DEF s

LEMMA InvInit == Init => Inv
<1> SUFFICES ASSUME Init PROVE Inv
  OBVIOUS
<1>1. "" \in Urls
  BY WebhookAssumption, Zenon DEF WebhookAssumption
<1>2. worker = [w \in Workers |-> IdleWorker]
  BY DEF Init
<1>3. /\ worker \in [Workers -> WorkerState]
      /\ \A w \in Workers : worker[w] = IdleWorker
  BY <1>2, IdleFacts
<1>4. /\ posted \in [Deliveries -> Nat] /\ heard \in [Deliveries -> SUBSET Ends]
      /\ \A d \in Deliveries : posted[d] = 0
  BY DEF Init
<1>5. delivery = [d \in Deliveries |-> delivery[d]]
  BY DEF Init
<1>6. PICK url \in Urls : \A d \in Deliveries :
        delivery[d] = [status |-> "none", url |-> url, attempts |-> 0, wait |-> 0]
  <2>1. delivery = [d \in Deliveries |->
                     [status |-> "none", url |-> "", attempts |-> 0, wait |-> 0]]
    BY DEF Init
  <2>2. \A d \in Deliveries :
          delivery[d] = [status |-> "none", url |-> "", attempts |-> 0, wait |-> 0]
    BY <2>1, Zenon
  <2> QED BY <1>1, <2>2, Zenon
<1>7. config \in [on : BOOLEAN, url : Urls]
  BY <1>1 DEF Init
<1>8. \A d \in Deliveries : delivery[d] \in Row
  <2>1. 0 \in 0..MaxAttempts
    BY Constants
  <2> QED BY <1>6, <2>1 DEF Row, Statuses
<1>9. Shape
  BY <1>3, <1>4, <1>5, <1>7, <1>8 DEF Shape
<1>10. \A d \in Deliveries : delivery[d].status = "none" /\ delivery[d].attempts = 0
  BY <1>6
<1>11. Left /\ Held /\ HonestRows
  BY Constants, <1>3, <1>4, <1>10, IdleFacts DEF Left, Held, HonestRows
<1> QED BY <1>9, <1>11 DEF Inv

LEMMA PutStep ==
  ASSUME Inv, NEW on \in BOOLEAN, NEW url \in Urls, Put(on, url)
  PROVE  Inv'
<1>1. config' \in [on : BOOLEAN, url : Urls] /\ UNCHANGED <<delivery, worker, posted, heard>>
  BY DEF Put
<1> QED BY <1>1, SameAcked DEF Inv, Shape, Left, Held, HonestRows

LEMMA EnqueueStep ==
  ASSUME Inv, NEW d \in Deliveries, NEW callback \in Urls, Enqueue(d, callback)
  PROVE  Inv'
<1>1. UNCHANGED <<config, worker, posted, heard>> /\ delivery[d].status = "none"
  BY DEF Enqueue
<1>2. First(callback, config.url) \in Urls
  BY DEF Inv, Shape, First
<1>3. \A e \in Deliveries : e # d => delivery'[e] = delivery[e]
  BY DEF Enqueue, Inv, Shape
<1>4. delivery'[d] = [delivery[d] EXCEPT !.status = "pending", !.url = First(callback, config.url)]
  BY DEF Enqueue, Inv, Shape
<1>5. /\ delivery'[d].status = "pending" /\ delivery'[d].attempts = delivery[d].attempts
      /\ delivery'[d] \in Row
  BY <1>2, <1>4 DEF Inv, Shape, Row, Statuses
<1>6. delivery' = [e \in Deliveries |-> delivery'[e]]
  BY DEF Enqueue, Inv, Shape
<1>7. Shape'
  BY <1>1, <1>3, <1>5, <1>6 DEF Inv, Shape
<1>8. Left' /\ Held' /\ HonestRows'
  BY <1>1, <1>3, <1>5, SameAcked DEF Inv, Left, Held, HonestRows
<1> QED BY <1>7, <1>8 DEF Inv

(* The steps of a run, of which SendStart and Post only read the table.    *)
LEMMA StartStep ==
  ASSUME Inv, NEW w \in Workers, SendStart(w)
  PROVE  Inv'
<1>1. PICK T \in SUBSET Due :
        worker' = [worker EXCEPT ![w] =
          [IdleWorker EXCEPT !.at = "loop", !.todo = T,
                             !.seen = [d \in Deliveries |-> delivery[d].attempts]]]
  BY DEF SendStart
<1> DEFINE new == [IdleWorker EXCEPT !.at = "loop", !.todo = T,
                                     !.seen = [d \in Deliveries |-> delivery[d].attempts]]
<1>2. UNCHANGED <<config, delivery, posted, heard>>
  BY DEF SendStart
<1>3. /\ new \in WorkerState /\ new.at = "loop" /\ new.now = {} /\ new.todo = T
      /\ \A d \in Deliveries : new.seen[d] = delivery[d].attempts
  <2>1. \A d \in Deliveries : delivery[d].attempts \in 0..MaxAttempts
    BY DEF Inv, Shape, Row
  <2> DEFINE read == [d \in Deliveries |-> delivery[d].attempts]
  <2>2. read \in [Deliveries -> 0..MaxAttempts] /\ T \in SUBSET Deliveries
    BY <2>1 DEF Due
  <2>3. new = [IdleWorker EXCEPT !.at = "loop", !.todo = T, !.seen = read]
    OBVIOUS
  <2>4. \A d \in Deliveries : read[d] = delivery[d].attempts
    OBVIOUS
  <2> HIDE DEF read, new
  <2> QED BY <2>2, <2>3, <2>4, IdleFacts DEF WorkerState
<1>4. worker'[w] = new /\ \A v \in Workers : v # w => worker'[v] = worker[v]
  BY <1>1 DEF Inv, Shape
<1>5. worker' \in [Workers -> WorkerState]
  BY <1>1, <1>3 DEF Inv, Shape
<1> HIDE DEF new
<1>6. Shape' /\ HonestRows'
  BY <1>2, <1>5, SameAcked DEF Inv, Shape, HonestRows
<1>7. Left'
  BY <1>2, <1>3, <1>4 DEF Inv, Left, Due
<1>8. Held'
  BY <1>2, <1>3, <1>4, SameAcked DEF Inv, Held, HonestRows
<1> QED BY <1>6, <1>7, <1>8 DEF Inv

LEMMA PostStep ==
  ASSUME Inv, NEW w \in Workers, NEW d \in Deliveries, NEW end \in Ends, Post(w, d, end)
  PROVE  Inv'
<1> DEFINE ok == end \in Accepted
<1>1. UNCHANGED <<config, delivery>> /\ d \in worker[w].todo /\ ok \in BOOLEAN
  BY DEF Post
<1>2. /\ worker'[w] = [worker[w] EXCEPT !.at = "save", !.now = {d}, !.ok = ok, !.fresh = FALSE]
      /\ \A v \in Workers : v # w => worker'[v] = worker[v]
      /\ worker' = [worker EXCEPT ![w] = worker'[w]]
  BY DEF Post, Inv, Shape
<1>0. ok => end \in Accepted
  OBVIOUS
<1> HIDE DEF ok
<1>3. worker[w] \in WorkerState
  BY DEF Inv, Shape
<1>4. /\ worker'[w] \in WorkerState /\ worker'[w].at = "save" /\ worker'[w].now = {d}
      /\ worker'[w].todo = worker[w].todo /\ worker'[w].seen = worker[w].seen
      /\ worker'[w].ok = ok
  <2>1. {d} \in SUBSET Deliveries
    OBVIOUS
  <2> DEFINE now == {d}
  <2>2. worker'[w] = [worker[w] EXCEPT !.at = "save", !.now = now, !.ok = ok, !.fresh = FALSE]
    BY <1>2
  <2> HIDE DEF now
  <2>3. worker'[w] \in WorkerState
    BY <1>1, <1>3, <2>1, <2>2 DEF WorkerState, now
  <2>4. /\ worker'[w].at = "save" /\ worker'[w].now = now
        /\ worker'[w].todo = worker[w].todo /\ worker'[w].seen = worker[w].seen
        /\ worker'[w].ok = ok
    BY <1>3, <2>2 DEF WorkerState
  <2> QED BY <2>3, <2>4 DEF now
<1>5. worker' \in [Workers -> WorkerState]
  BY <1>2, <1>4 DEF Inv, Shape
<1>6. /\ posted' \in [Deliveries -> Nat] /\ posted'[d] = posted[d] + 1
      /\ \A e \in Deliveries : posted'[e] >= posted[e]
  BY DEF Post, Inv, Shape
<1>7. /\ heard' \in [Deliveries -> SUBSET Ends] /\ (ok => Acked'[d])
      /\ \A e \in Deliveries : Acked[e] => Acked'[e]
  <2>1. heard' = [heard EXCEPT ![d] = @ \cup {end}] /\ heard \in [Deliveries -> SUBSET Ends]
    BY DEF Post, Inv, Shape
  <2>2. \A e \in Deliveries : heard[e] \subseteq heard'[e]
    BY <2>1
  <2>3. end \in heard'[d]
    BY <2>1
  <2> QED BY <1>0, <2>1, <2>2, <2>3 DEF Acked
<1>8. \A e \in Deliveries : posted[e] \in Nat /\ posted'[e] \in Nat
  BY <1>6 DEF Inv, Shape
<1>9. Shape' /\ Left'
  <2>1. Shape'
    BY <1>1, <1>5, <1>6, <1>7 DEF Inv, Shape
  <2>2. Left'
    BY <1>1, <1>2, <1>4 DEF Inv, Left
  <2> QED BY <2>1, <2>2
<1>10. \A v \in Workers : worker[v] \in WorkerState
  BY DEF Inv, Shape
<1>11. Held'
  <2> SUFFICES ASSUME NEW v \in Workers
               PROVE  /\ \A e \in Deliveries : worker'[v].seen[e] <= posted'[e]
                      /\ worker'[v].at = "save" =>
                           \A e \in worker'[v].now : worker'[v].seen[e] < posted'[e]
                                                     /\ (worker'[v].ok => Acked'[e])
    BY DEF Held
  <2>1. \A e \in Deliveries : worker[v].seen[e] \in Nat /\ worker[v].seen[e] <= posted[e]
    BY <1>10 DEF WorkerState, Inv, Held
  <2>2. CASE v = w
    BY <1>4, <1>6, <1>7, <1>8, <2>1, <2>2
  <2>3. CASE v # w
    <3>1. worker'[v] = worker[v] /\ worker[v].now \subseteq Deliveries
      BY <1>2, <1>10, <2>3 DEF WorkerState
    <3>2. worker[v].at = "save" =>
            \A e \in worker[v].now : worker[v].seen[e] < posted[e]
                                     /\ (worker[v].ok => Acked[e])
      BY DEF Inv, Held
    <3> QED BY <1>6, <1>7, <1>8, <2>1, <3>1, <3>2
  <2> QED BY <2>2, <2>3
<1>12. HonestRows'
  <2>1. \A e \in Deliveries : delivery[e].attempts \in Nat
    BY DEF Inv, Shape, Row
  <2>2. MaxAttempts \in Nat
    BY Constants
  <2> QED BY <1>1, <1>6, <1>7, <1>8, <2>1, <2>2 DEF Inv, HonestRows
<1> QED BY <1>9, <1>11, <1>12 DEF Inv

LEMMA SaveStep ==
  ASSUME Inv, NEW w \in Workers, SendSave(w)
  PROVE  Inv'
<1>1. UNCHANGED <<config, posted, heard>> /\ worker[w].at = "save" /\ worker[w] \in WorkerState
  BY DEF SendSave, Inv, Shape
<1> DEFINE ok == worker[w].ok
           n == [d \in Deliveries |-> worker[w].seen[d] + 1]
<1>2. /\ worker'[w] = [worker[w] EXCEPT !.at = "loop", !.todo = @ \ worker[w].now, !.now = {}]
      /\ \A v \in Workers : v # w => worker'[v] = worker[v]
      /\ worker' = [worker EXCEPT ![w] = worker'[w]]
  BY DEF SendSave, Inv, Shape
<1>3. /\ worker'[w] \in WorkerState /\ worker'[w].at = "loop" /\ worker'[w].now = {}
      /\ worker'[w].todo \subseteq worker[w].todo /\ worker'[w].seen = worker[w].seen
  BY <1>1, <1>2 DEF WorkerState
<1>4. worker' \in [Workers -> WorkerState]
  BY <1>2, <1>3 DEF Inv, Shape
<1>5. /\ \A d \in Deliveries \ worker[w].now : delivery'[d] = delivery[d]
      /\ \A d \in Deliveries \cap worker[w].now :
           delivery'[d] = SavedRow(delivery[d], n[d], ok, worker[w].age)
      /\ delivery' = [d \in Deliveries |-> delivery'[d]]
  BY DEF SendSave
<1>6. \A d \in Deliveries \cap worker[w].now :
        /\ n[d] \in 1..MaxAttempts /\ n[d] <= posted[d] /\ (ok => Acked[d])
  <2> SUFFICES ASSUME NEW d \in Deliveries \cap worker[w].now
               PROVE  /\ n[d] \in 1..MaxAttempts /\ n[d] <= posted[d] /\ (ok => Acked[d])
    OBVIOUS
  <2>1. worker[w].seen[d] \in 0..MaxAttempts
    BY <1>1 DEF WorkerState
  <2>2. worker[w].seen[d] < MaxAttempts
    BY DEF Inv, Left
  <2>3. worker[w].seen[d] < posted[d] /\ (ok => Acked[d])
    BY <1>1 DEF Inv, Held
  <2>4. posted[d] \in Nat /\ MaxAttempts \in Nat
    BY Constants DEF Inv, Shape
  <2> QED BY <2>1, <2>2, <2>3, <2>4
<1>7. \A d \in Deliveries \cap worker[w].now :
        /\ delivery'[d] \in Row /\ delivery'[d].attempts = n[d]
        /\ delivery'[d].status =
             IF ok THEN "delivered" ELSE IF n[d] >= MaxAttempts THEN "failed" ELSE "pending"
  <2>1. ok \in BOOLEAN /\ worker[w].age \in 0..MaxAge /\ \A d \in Deliveries : delivery[d] \in Row
    BY <1>1 DEF WorkerState, Inv, Shape
  <2> HIDE DEF ok, n
  <2> QED BY <1>5, <1>6, <2>1, SavedRowFacts
<1> HIDE DEF n, ok
<1>8. Shape'
  BY <1>1, <1>4, <1>5, <1>7 DEF Inv, Shape
<1>9. Left'
  <2>1. MaxAttempts \in Nat
    BY Constants
  <2>2. \A d \in Deliveries : delivery'[d].status \in {"none", "pending"}
                              => delivery'[d].attempts < MaxAttempts
    BY <1>5, <1>6, <1>7, <2>1 DEF Inv, Left
  <2>3. \A v \in Workers : worker'[v].now \subseteq worker'[v].todo
                           /\ \A d \in worker'[v].todo : worker'[v].seen[d] < MaxAttempts
    BY <1>2, <1>3 DEF Inv, Left
  <2> QED BY <2>2, <2>3 DEF Left
<1>10. Held'
  BY <1>1, <1>2, <1>3, SameAcked DEF Inv, Held
<1>11. HonestRows'
  <2>1. MaxAttempts \in Nat /\ \A d \in Deliveries : posted[d] \in Nat
    BY Constants DEF Inv, Shape
  <2> QED BY <1>1, <1>5, <1>6, <1>7, <2>1, SameAcked DEF Inv, HonestRows
<1> QED BY <1>8, <1>9, <1>10, <1>11 DEF Inv

LEMMA EndStep ==
  ASSUME Inv, NEW w \in Workers, SendEnd(w) \/ Crash(w)
  PROVE  Inv'
<1>1. UNCHANGED <<config, delivery, posted, heard>> /\ worker' = [worker EXCEPT ![w] = IdleWorker]
  BY DEF SendEnd, Crash
<1>2. MaxAttempts \in Nat /\ MaxAttempts > 0 /\ \A d \in Deliveries : posted[d] \in Nat
  BY Constants DEF Inv, Shape
<1>4. worker'[w] = IdleWorker /\ \A v \in Workers : v # w => worker'[v] = worker[v]
  BY <1>1 DEF Inv, Shape
<1>5. Shape' /\ HonestRows'
  BY <1>1, IdleFacts, SameAcked DEF Inv, Shape, HonestRows
<1>6. Left' /\ Held'
  BY <1>1, <1>2, <1>4, IdleFacts, SameAcked DEF Inv, Left, Held
<1> QED BY <1>5, <1>6 DEF Inv

LEMMA MinuteStep ==
  ASSUME Inv, Minute
  PROVE  Inv'
<1>1. UNCHANGED <<config, posted, heard>>
  BY DEF Minute
<1>2. delivery' = [d \in Deliveries |-> delivery'[d]]
  BY DEF Minute
<1>3. \A d \in Deliveries : /\ delivery'[d] \in Row
                            /\ delivery'[d].status = delivery[d].status
                            /\ delivery'[d].attempts = delivery[d].attempts
  <2> SUFFICES ASSUME NEW d \in Deliveries
               PROVE  /\ delivery'[d] \in Row
                      /\ delivery'[d].status = delivery[d].status
                      /\ delivery'[d].attempts = delivery[d].attempts
    OBVIOUS
  <2>1. delivery'[d] = [delivery[d] EXCEPT !.wait = Less(@, 1)] /\ delivery[d] \in Row
    BY DEF Minute, Inv, Shape
  <2>2. Less(delivery[d].wait, 1) \in Nat
    BY <2>1 DEF Row, Less
  <2> QED BY <2>1, <2>2 DEF Row
<1>4. \A w \in Workers : /\ worker'[w] \in WorkerState
                         /\ worker'[w].at = worker[w].at /\ worker'[w].todo = worker[w].todo
                         /\ worker'[w].seen = worker[w].seen /\ worker'[w].now = worker[w].now
                         /\ worker'[w].ok = worker[w].ok
  <2> SUFFICES ASSUME NEW w \in Workers
               PROVE  /\ worker'[w] \in WorkerState
                      /\ worker'[w].at = worker[w].at /\ worker'[w].todo = worker[w].todo
                      /\ worker'[w].seen = worker[w].seen /\ worker'[w].now = worker[w].now
                      /\ worker'[w].ok = worker[w].ok
    OBVIOUS
  <2>1. /\ worker[w] \in WorkerState /\ worker[w].age < MaxAge
        /\ \/ worker'[w] = worker[w]
           \/ worker'[w] = [worker[w] EXCEPT !.age = @ + 1]
    BY DEF Minute, Inv, Shape
  <2> QED BY <2>1 DEF WorkerState, MaxAge
<1>5. worker' \in [Workers -> WorkerState]
  <2>1. worker' = [w \in Workers |-> worker'[w]]
    BY DEF Minute
  <2> QED BY <1>4, <2>1
<1>6. Shape'
  BY <1>1, <1>2, <1>3, <1>5 DEF Inv, Shape
<1>7. Left' /\ Held' /\ HonestRows'
  BY <1>1, <1>3, <1>4, SameAcked DEF Inv, Left, Held, HonestRows
<1> QED BY <1>6, <1>7 DEF Inv

LEMMA InvStep == Inv /\ [Next]_vars => Inv'
<1> SUFFICES ASSUME Inv, [Next]_vars PROVE Inv'
  OBVIOUS
<1>1. CASE UNCHANGED vars
  BY <1>1, SameAcked DEF vars, Inv, Shape, Left, Held, HonestRows
<1>2. ASSUME NEW w \in Workers, Work(w) \/ Crash(w) PROVE Inv'
  BY <1>2, StartStep, PostStep, SaveStep, EndStep DEF Work
<1> QED BY <1>1, <1>2, PutStep, EnqueueStep, MinuteStep DEF Next

LEMMA Invariance == Spec => []Inv
BY InvInit, InvStep, PTL DEF Spec

(* delivered and failed rows, and the attempts of every row, tell what     *)
(* happened, however many runs overlap, stop or die.                       *)
THEOREM RowsAreHonest == Spec => []HonestRows
<1>1. Inv => HonestRows
  BY DEF Inv
<1> QED BY <1>1, Invariance, PTL

(* No row ever counts more attempts than the limit, and a row that is      *)
(* pending has one left: the query never selects what is exhausted.        *)
THEOREM AttemptLeft ==
  Spec => [](\A d \in Deliveries :
    /\ delivery[d].attempts \in 0..MaxAttempts
    /\ delivery[d].status = "pending" => delivery[d].attempts < MaxAttempts)
<1>1. Inv => \A d \in Deliveries :
        /\ delivery[d].attempts \in 0..MaxAttempts
        /\ delivery[d].status = "pending" => delivery[d].attempts < MaxAttempts
  BY DEF Inv, Shape, Row, Left
<1> QED BY <1>1, Invariance, PTL
-----------------------------------------------------------------------------
(* The types, with the minutes since the last POST.                        *)
Timed == since \in [Deliveries -> 0..Longest]

LEMMA LongestType == Longest \in Nat /\ \A n \in 0..MaxAttempts : Backoff[n] <= Longest
BY Constants, BackoffFacts, BackoffGrows DEF Longest

LEMMA TimedStep ==
  ASSUME Timed, [Next]_vars
  PROVE  Timed'
<1>1. CASE UNCHANGED since
  BY <1>1 DEF Timed
<1>2. ASSUME NEW w \in Workers, NEW d \in Deliveries, NEW end \in Ends, Post(w, d, end)
      PROVE  Timed'
  BY <1>2, LongestType DEF Post, Timed
<1>3. CASE Minute
  <2>1. \A d \in Deliveries : (IF since[d] < Longest THEN since[d] + 1 ELSE Longest) \in 0..Longest
    BY LongestType DEF Timed
  <2> QED BY <1>3, <2>1 DEF Minute, Timed
<1> QED BY <1>1, <1>2, <1>3 DEF Next, Work, Put, Enqueue, SendStart, SendSave, SendEnd, Crash, vars

LEMMA TimedInit == Init => Timed
<1>1. Longest \in 0..Longest
  BY LongestType
<1> SUFFICES ASSUME Init PROVE Timed
  OBVIOUS
<1>2. since = [d \in Deliveries |-> Longest]
  BY DEF Init
<1> QED BY <1>1, <1>2 DEF Timed

(* Every variable keeps its shape, and no row counts more attempts than    *)
(* the limit.                                                              *)
THEOREM TypeCorrect == Spec => []TypeOK
<1>1. Inv /\ Timed => TypeOK
  BY DEF Inv, Shape, Timed, TypeOK, Row, Statuses, WorkerState
<1>2. Timed /\ [Next]_vars => Timed'
  BY TimedStep
<1> QED BY <1>1, <1>2, TimedInit, Invariance, PTL DEF Spec
-----------------------------------------------------------------------------
(* One run at a time.                                                      *)

Single == \A v, w \in Workers : v = w

(* What the run has yet to do is as it was read, and what is done is at    *)
(* rest.                                                                   *)
Fresh ==
  /\ \A w \in Workers :
       /\ worker[w].at = "idle" => worker[w].todo = {}
       /\ worker[w].at # "save" => worker[w].now = {}
       /\ \A d \in worker[w].todo : /\ delivery[d].status = "pending"
                                    /\ worker[w].seen[d] = delivery[d].attempts
  /\ \A d \in Deliveries : delivery[d].status \in {"delivered", "failed"} => delivery[d].wait = 0

Settled(d) == posted'[d] = posted[d] /\ delivery'[d] = delivery[d]

Rests == \A d \in Deliveries : delivery[d].status \in {"delivered", "failed"} => Settled(d)

LEMMA RowStep ==
  ASSUME Inv, NEW w \in Workers, NEW d \in Deliveries, SendSave(w)
  PROVE  IF d \in worker[w].now
         THEN /\ delivery'[d].attempts = worker[w].seen[d] + 1
              /\ delivery'[d].status \in {"delivered", "failed"} => delivery'[d].wait = 0
         ELSE delivery'[d] = delivery[d]
<1>1. CASE d \notin worker[w].now
  BY <1>1 DEF SendSave
<1>2. CASE d \in worker[w].now
  <2> DEFINE n == worker[w].seen[d] + 1
             ok == worker[w].ok
             wait == IF ok \/ n >= MaxAttempts THEN 0 ELSE Less(Backoff[n], worker[w].age)
             s == IF ok THEN "delivered" ELSE IF n >= MaxAttempts THEN "failed" ELSE "pending"
  <2>1. delivery[d] \in Row
    BY DEF Inv, Shape
  <2>2. delivery'[d] = [delivery[d] EXCEPT !.status = s, !.attempts = n, !.wait = wait]
    BY <1>2 DEF SendSave, SavedRow
  <2>3. s \in {"delivered", "failed"} => wait = 0
    OBVIOUS
  <2> HIDE DEF s, wait
  <2>4. delivery'[d].attempts = n /\ delivery'[d].status = s /\ delivery'[d].wait = wait
    BY <2>1, <2>2 DEF Row
  <2> QED BY <1>2, <2>3, <2>4
<1> QED BY <1>1, <1>2

LEMMA FreshStep ==
  ASSUME Single, Inv, Fresh, [Next]_vars
  PROVE  Fresh' /\ Rests
<1> USE DEF Single
<1>1. ASSUME UNCHANGED <<delivery, worker, posted>> PROVE Fresh' /\ Rests
  BY <1>1 DEF Fresh, Rests, Settled
<1>2. ASSUME NEW d \in Deliveries, NEW callback \in Urls, Enqueue(d, callback)
      PROVE  Fresh' /\ Rests
  <2>1. UNCHANGED <<worker, posted>> /\ delivery[d].status = "none"
    BY <1>2 DEF Enqueue
  <2>2. \A e \in Deliveries : e # d => delivery'[e] = delivery[e]
    BY <1>2 DEF Enqueue, Inv, Shape
  <2>3. delivery'[d].status = "pending"
    BY <1>2 DEF Enqueue, Inv, Shape, Row
  <2>4. \A w \in Workers : worker[w].todo \subseteq Deliveries
    BY DEF Inv, Shape, WorkerState
  <2> QED BY <2>1, <2>2, <2>3, <2>4 DEF Fresh, Rests, Settled
<1>3. ASSUME NEW w \in Workers, SendStart(w) PROVE Fresh' /\ Rests
  <2>1. PICK T \in SUBSET Due :
          worker' = [worker EXCEPT ![w] =
            [IdleWorker EXCEPT !.at = "loop", !.todo = T,
                               !.seen = [d \in Deliveries |-> delivery[d].attempts]]]
    BY <1>3 DEF SendStart
  <2>2. /\ worker'[w].at = "loop" /\ worker'[w].todo = T /\ worker'[w].now = {}
        /\ \A d \in Deliveries : worker'[w].seen[d] = delivery[d].attempts
    BY <2>1 DEF IdleWorker, Inv, Shape
  <2>3. UNCHANGED <<delivery, posted>>
    BY <1>3 DEF SendStart
  <2> QED BY <2>2, <2>3 DEF Fresh, Rests, Settled, Due
<1>4. ASSUME NEW w \in Workers, NEW d \in Deliveries, NEW end \in Ends, Post(w, d, end)
      PROVE  Fresh' /\ Rests
  <2>1. /\ worker'[w].at = "save" /\ worker'[w].todo = worker[w].todo
        /\ worker'[w].seen = worker[w].seen
    BY <1>4 DEF Post, Inv, Shape, WorkerState
  <2>2. UNCHANGED delivery /\ d \in worker[w].todo
    BY <1>4 DEF Post
  <2>3. \A e \in Deliveries : e # d => posted'[e] = posted[e]
    BY <1>4 DEF Post, Inv, Shape
  <2> QED BY <2>1, <2>2, <2>3 DEF Fresh, Rests, Settled
<1>5. ASSUME NEW w \in Workers, SendSave(w) PROVE Fresh' /\ Rests
  <2>1. /\ worker'[w].at = "loop" /\ worker'[w].todo = worker[w].todo \ worker[w].now
        /\ worker'[w].now = {} /\ worker'[w].seen = worker[w].seen
    BY <1>5 DEF SendSave, Inv, Shape, WorkerState
  <2>2. worker[w].todo \subseteq Deliveries /\ worker[w].now \subseteq worker[w].todo
    BY DEF Inv, Shape, Left, WorkerState
  <2>3. UNCHANGED posted
    BY <1>5 DEF SendSave
  <2>4. \A d \in Deliveries \ worker[w].now : delivery'[d] = delivery[d]
    BY <1>5, RowStep
  <2>5. \A d \in worker[w].now :
          delivery'[d].status \in {"delivered", "failed"} => delivery'[d].wait = 0
    BY <1>5, <2>2, RowStep
  <2> QED BY <2>1, <2>2, <2>3, <2>4, <2>5 DEF Fresh, Rests, Settled
<1>6. ASSUME NEW w \in Workers, SendEnd(w) \/ Crash(w) PROVE Fresh' /\ Rests
  <2>1. worker'[w] = IdleWorker /\ UNCHANGED <<delivery, posted>>
    BY <1>6 DEF SendEnd, Crash, Inv, Shape
  <2> QED BY <2>1, IdleFacts DEF Fresh, Rests, Settled
<1>7. CASE Minute
  <2>1. \A d \in Deliveries : delivery'[d] = [delivery[d] EXCEPT !.wait = Less(@, 1)]
    BY <1>7 DEF Minute
  <2>2. \A d \in Deliveries : delivery[d] \in Row
    BY DEF Inv, Shape
  <2>3. \A d \in Deliveries : /\ delivery'[d].status = delivery[d].status
                              /\ delivery'[d].attempts = delivery[d].attempts
                              /\ delivery'[d].wait = Less(delivery[d].wait, 1)
    BY <2>1, <2>2 DEF Row
  <2>4. Less(0, 1) = 0
    BY DEF Less
  <2>5. \A d \in Deliveries : delivery[d].wait = 0 => delivery'[d] = delivery[d]
    BY <2>1, <2>2, <2>4 DEF Row
  <2>6. \A w \in Workers : /\ worker'[w].at = worker[w].at /\ worker'[w].todo = worker[w].todo
                           /\ worker'[w].seen = worker[w].seen /\ worker'[w].now = worker[w].now
    <3> SUFFICES ASSUME NEW w \in Workers
                 PROVE  /\ worker'[w].at = worker[w].at /\ worker'[w].todo = worker[w].todo
                        /\ worker'[w].seen = worker[w].seen /\ worker'[w].now = worker[w].now
      OBVIOUS
    <3>1. \/ worker'[w] = worker[w]
          \/ worker'[w] = [worker[w] EXCEPT !.age = @ + 1]
      BY <1>7 DEF Minute
    <3>2. worker[w] \in WorkerState
      BY DEF Inv, Shape
    <3> QED BY <3>1, <3>2 DEF WorkerState
  <2>7. UNCHANGED posted /\ \A w \in Workers : worker[w].todo \subseteq Deliveries
    BY <1>7 DEF Minute, Inv, Shape, WorkerState
  <2>8. Fresh'
    BY <2>3, <2>5, <2>6, <2>7 DEF Fresh
  <2>9. Rests
    BY <2>5, <2>7 DEF Fresh, Rests, Settled
  <2> QED BY <2>8, <2>9
<1> QED BY <1>1, <1>2, <1>3, <1>4, <1>5, <1>6, <1>7 DEF Next, Work, Put, vars

(* Every POST but the one being saved is counted.                          *)
Counted ==
  \A d \in Deliveries :
    /\ \A w \in Workers : d \in worker[w].now => posted[d] = delivery[d].attempts + 1
    /\ (\A w \in Workers : d \notin worker[w].now) => posted[d] = delivery[d].attempts

LEMMA CountedStep ==
  ASSUME Single, ~Crashes, Inv, Fresh, Counted, [Next]_vars
  PROVE  Counted'
<1> USE DEF Single
<1>1. CASE UNCHANGED <<delivery, worker, posted>>
  BY <1>1 DEF Counted
<1>2. ASSUME NEW d \in Deliveries, NEW callback \in Urls, Enqueue(d, callback) PROVE Counted'
  <2>1. UNCHANGED <<worker, posted>>
    BY <1>2 DEF Enqueue
  <2>2. \A e \in Deliveries : e # d => delivery'[e] = delivery[e]
    BY <1>2 DEF Enqueue, Inv, Shape
  <2>3. delivery'[d].attempts = delivery[d].attempts
    BY <1>2 DEF Enqueue, Inv, Shape, Row
  <2> QED BY <2>1, <2>2, <2>3 DEF Counted
<1>3. ASSUME NEW w \in Workers, SendStart(w) \/ SendEnd(w) PROVE Counted'
  <2>1. UNCHANGED <<delivery, posted>> /\ worker[w].now = {}
    BY <1>3 DEF SendStart, SendEnd, Fresh
  <2>2. worker'[w].now = {}
    <3>1. CASE SendStart(w)
      <4>1. PICK T \in SUBSET Due :
              worker' = [worker EXCEPT ![w] =
                [IdleWorker EXCEPT !.at = "loop", !.todo = T,
                                   !.seen = [d \in Deliveries |-> delivery[d].attempts]]]
        BY <3>1 DEF SendStart
      <4> QED BY <4>1 DEF IdleWorker, Inv, Shape
    <3>2. CASE SendEnd(w)
      BY <3>2, IdleFacts DEF SendEnd, Inv, Shape
    <3> QED BY <1>3, <3>1, <3>2
  <2> QED BY <2>1, <2>2 DEF Counted
<1>4. ASSUME NEW w \in Workers, NEW d \in Deliveries, NEW end \in Ends, Post(w, d, end)
      PROVE  Counted'
  <2>1. worker[w].now = {} /\ UNCHANGED delivery
    BY <1>4 DEF Post, Fresh
  <2>2. worker'[w].now = {d}
    BY <1>4 DEF Post, Inv, Shape, WorkerState
  <2>3. posted'[d] = posted[d] + 1 /\ \A e \in Deliveries : e # d => posted'[e] = posted[e]
    BY <1>4 DEF Post, Inv, Shape
  <2> QED BY <2>1, <2>2, <2>3 DEF Counted
<1>5. ASSUME NEW w \in Workers, SendSave(w) PROVE Counted'
  <2>1. worker'[w].now = {} /\ UNCHANGED posted
    BY <1>5 DEF SendSave, Inv, Shape, WorkerState
  <2>2. \A d \in Deliveries \ worker[w].now : delivery'[d] = delivery[d]
    BY <1>5, RowStep
  <2>3. \A d \in Deliveries \cap worker[w].now : delivery'[d].attempts = worker[w].seen[d] + 1
    BY <1>5, RowStep
  <2>4. \A d \in worker[w].now : worker[w].seen[d] = delivery[d].attempts
    BY DEF Fresh, Inv, Left
  <2> QED BY <2>1, <2>2, <2>3, <2>4 DEF Counted
<1>6. ASSUME NEW w \in Workers, Crash(w) PROVE Counted'
  BY <1>6 DEF Crash
<1>7. CASE Minute
  <2>1. \A d \in Deliveries : delivery'[d].attempts = delivery[d].attempts
    BY <1>7 DEF Minute, Inv, Shape, Row
  <2>2. \A w \in Workers : worker'[w].now = worker[w].now
    BY <1>7 DEF Minute, Inv, Shape, WorkerState
  <2> QED BY <1>7, <2>1, <2>2 DEF Minute, Counted
<1> QED BY <1>1, <1>2, <1>3, <1>4, <1>5, <1>6, <1>7 DEF Next, Work, Put, vars

LEMMA FreshInit == Init => Fresh
<1> SUFFICES ASSUME Init PROVE Fresh
  OBVIOUS
<1>1. worker = [w \in Workers |-> IdleWorker]
  BY DEF Init
<1>2. delivery = [d \in Deliveries |->
                   [status |-> "none", url |-> "", attempts |-> 0, wait |-> 0]]
  BY DEF Init
<1>3. \A d \in Deliveries : delivery[d].wait = 0
  BY <1>2
<1> QED BY <1>1, <1>3, IdleFacts DEF Fresh

LEMMA CountedInit == Init => Counted
<1> SUFFICES ASSUME Init PROVE Counted
  OBVIOUS
<1>1. worker = [w \in Workers |-> IdleWorker]
  BY DEF Init
<1>2. delivery = [d \in Deliveries |->
                   [status |-> "none", url |-> "", attempts |-> 0, wait |-> 0]]
  BY DEF Init
<1>3. posted = [d \in Deliveries |-> 0]
  BY DEF Init
<1> QED BY <1>1, <1>2, <1>3, IdleFacts DEF Counted

(* One run at a time: what is delivered or given up is never sent again,   *)
(* though the run may die between a POST and its save.                     *)
THEOREM DoneStays == ASSUME Single PROVE Spec => DoneIsDone
<1>1. Inv /\ Fresh /\ [Next]_vars => Fresh' /\ Rests
  BY FreshStep
<1>2. Rests =>
        [\A d \in Deliveries : delivery[d].status \in {"delivered", "failed"} =>
           posted'[d] = posted[d] /\ delivery'[d] = delivery[d]]_vars
  BY DEF Rests, Settled
<1> QED BY <1>1, <1>2, FreshInit, Invariance, PTL DEF Spec, DoneIsDone

(* An event is POSTed at most MAX_ATTEMPTS times in all.                   *)
Bounded == \A d \in Deliveries : posted[d] <= MaxAttempts

(* One run at a time that does not die: no event is POSTed more often than *)
(* the limit.                                                              *)
THEOREM PostsBounded == ASSUME Single, ~Crashes PROVE Spec => []Bounded
<1>1. Inv /\ Fresh /\ Counted /\ [Next]_vars => Fresh' /\ Counted'
  BY FreshStep, CountedStep
<1>2. Inv /\ Fresh /\ Counted => Bounded
  <2> SUFFICES ASSUME Inv, Fresh, Counted, NEW d \in Deliveries PROVE posted[d] <= MaxAttempts
    BY DEF Bounded
  <2>1. delivery[d].attempts \in 0..MaxAttempts
    BY DEF Inv, Shape, Row
  <2>2. ASSUME NEW w \in Workers, d \in worker[w].now PROVE posted[d] <= MaxAttempts
    <3>1. d \in worker[w].todo /\ worker[w].seen[d] < MaxAttempts
      BY <2>2 DEF Inv, Left
    <3>2. posted[d] = delivery[d].attempts + 1 /\ delivery[d].attempts < MaxAttempts
      BY <2>2, <3>1 DEF Counted, Fresh
    <3> QED BY <2>1, <3>2, Constants
  <2>3. CASE \A w \in Workers : d \notin worker[w].now
    BY <2>1, <2>3 DEF Counted
  <2> QED BY <2>2, <2>3
<1> QED BY <1>1, <1>2, FreshInit, CountedInit, Invariance, PTL DEF Spec
-----------------------------------------------------------------------------
(* The time between two POSTs.  What is neither done nor being POSTed has  *)
(* waited long enough, or will have when its next_retry_at has come; what  *)
(* the run still has to do needs to wait no longer.                        *)
Idle(d) == \A w \in Workers : d \notin worker[w].now

Spaced ==
  \A d \in Deliveries :
    delivery[d].status \in {"none", "pending"} /\ Idle(d) =>
      /\ Backoff[posted[d]] <= since[d] + delivery[d].wait + MaxAge
      /\ \A w \in Workers : d \in worker[w].todo => delivery[d].wait = 0

LEMMA SpacedInit == Init => Spaced
<1> SUFFICES ASSUME Init, NEW d \in Deliveries
             PROVE  /\ Backoff[posted[d]] <= since[d] + delivery[d].wait + MaxAge
                    /\ \A w \in Workers : d \in worker[w].todo => delivery[d].wait = 0
  BY DEF Spaced
<1>1. delivery = [e \in Deliveries |->
                   [status |-> "none", url |-> "", attempts |-> 0, wait |-> 0]]
  BY DEF Init
<1>2. delivery[d].wait = 0
  BY <1>1
<1>3. posted[d] = 0 /\ since[d] = Longest
  BY DEF Init
<1> QED BY <1>2, <1>3, BackoffFacts, LongestType DEF MaxAge

LEMMA SpacedSaved ==
  ASSUME Single, Inv, Timed, Fresh, Counted, NEW w \in Workers, SendSave(w),
         NEW d \in worker[w].now, delivery'[d].status = "pending"
  PROVE  Backoff[posted[d]] <= since[d] + delivery'[d].wait + MaxAge
<1> DEFINE n == worker[w].seen[d] + 1
           age == worker[w].age
<1>1. d \in worker[w].todo /\ worker[w].seen[d] < MaxAttempts /\ d \in Deliveries
  BY DEF Inv, Left, Shape, WorkerState
<1>2. /\ worker[w].seen[d] \in 0..MaxAttempts /\ age \in 0..MaxAge
      /\ worker[w].ok \in BOOLEAN
  BY <1>1 DEF Inv, Shape, WorkerState
<1>3. n \in 1..MaxAttempts
  BY <1>1, <1>2, Constants
<1>4. posted[d] = n
  BY <1>1 DEF Fresh, Counted
<1>5. delivery[d] \in Row /\ since[d] \in Nat
  BY <1>1, LongestType DEF Inv, Shape, Timed
<1>6. delivery'[d] = SavedRow(delivery[d], n, worker[w].ok, age)
  BY <1>1 DEF SendSave
<1> HIDE DEF n, age
<1>7. ~worker[w].ok /\ ~(n >= MaxAttempts)
  BY <1>2, <1>3, <1>5, <1>6, SavedRowFacts
<1>8. delivery'[d] = [delivery[d] EXCEPT !.status = "pending", !.attempts = n,
                                         !.wait = Less(Backoff[n], age)]
  BY <1>6, <1>7 DEF SavedRow
<1>9. delivery'[d].wait = Less(Backoff[n], age)
  BY <1>5, <1>8 DEF Row
<1>10. Backoff[n] \in Nat
  BY <1>3, BackoffFacts
<1> QED BY <1>2, <1>4, <1>5, <1>9, <1>10 DEF Less, MaxAge

LEMMA SpacedMinute ==
  ASSUME Inv, Timed, Counted, Spaced, Minute
  PROVE  Spaced'
<1>1. \A w \in Workers : worker'[w].todo = worker[w].todo /\ worker'[w].now = worker[w].now
  BY DEF Minute, Inv, Shape, WorkerState
<1> SUFFICES ASSUME NEW d \in Deliveries, delivery'[d].status \in {"none", "pending"},
                    Idle(d)
             PROVE  /\ Backoff[posted[d]] <= since'[d] + delivery'[d].wait + MaxAge
                    /\ \A w \in Workers : d \in worker[w].todo => delivery'[d].wait = 0
  BY <1>1 DEF Spaced, Idle, Minute
<1>2. delivery[d] \in Row
  BY DEF Inv, Shape
<1>3. delivery'[d] = [delivery[d] EXCEPT !.wait = Less(@, 1)]
  BY DEF Minute
<1>4. /\ delivery'[d].status = delivery[d].status
      /\ delivery'[d].wait = Less(delivery[d].wait, 1)
  BY <1>2, <1>3 DEF Row
<1>5. /\ Backoff[posted[d]] <= since[d] + delivery[d].wait + MaxAge
      /\ \A w \in Workers : d \in worker[w].todo => delivery[d].wait = 0
  BY <1>4 DEF Spaced
<1>6. posted[d] = delivery[d].attempts
  BY DEF Counted, Idle
<1>7. Backoff[posted[d]] <= Longest /\ Backoff[posted[d]] \in Nat
  <2>1. posted[d] \in 0..MaxAttempts
    BY <1>2, <1>6 DEF Row
  <2> QED BY <2>1, LongestType, BackoffFacts, Constants
<1>8. since'[d] = IF since[d] < Longest THEN since[d] + 1 ELSE Longest
  BY DEF Minute
<1>9. since[d] \in 0..Longest /\ delivery[d].wait \in Nat
  BY <1>2 DEF Timed, Row
<1>10. Less(0, 1) = 0
  BY DEF Less
<1>11. \A w \in Workers : d \in worker[w].todo => delivery'[d].wait = 0
  BY <1>4, <1>5, <1>10
<1>12. Backoff[posted[d]] <= since'[d] + delivery'[d].wait + MaxAge
  BY <1>4, <1>5, <1>7, <1>8, <1>9, LongestType DEF Less, MaxAge
<1> QED BY <1>11, <1>12

LEMMA SpacedStep ==
  ASSUME Single, ~Crashes, Inv, Timed, Fresh, Counted, Spaced, [Next]_vars
  PROVE  Spaced'
<1> USE DEF Single
<1>1. CASE UNCHANGED <<delivery, worker, posted, since>>
  BY <1>1 DEF Spaced, Idle
<1>2. ASSUME NEW d \in Deliveries, NEW callback \in Urls, Enqueue(d, callback) PROVE Spaced'
  <2>1. UNCHANGED <<worker, posted, since>> /\ delivery[d].status = "none"
    BY <1>2 DEF Enqueue
  <2>2. \A e \in Deliveries : e # d => delivery'[e] = delivery[e]
    BY <1>2 DEF Enqueue, Inv, Shape
  <2>3. delivery'[d].wait = delivery[d].wait
    BY <1>2 DEF Enqueue, Inv, Shape, Row
  <2> QED BY <2>1, <2>2, <2>3 DEF Spaced, Idle
<1>3. ASSUME NEW w \in Workers, SendStart(w) \/ SendEnd(w) PROVE Spaced'
  <2>1. UNCHANGED <<delivery, posted, since>> /\ worker[w].now = {}
    BY <1>3 DEF SendStart, SendEnd, Fresh
  <2>2. worker'[w].now = {} /\ worker'[w].todo \subseteq Due
    <3>1. CASE SendStart(w)
      <4>1. PICK T \in SUBSET Due :
              worker' = [worker EXCEPT ![w] =
                [IdleWorker EXCEPT !.at = "loop", !.todo = T,
                                   !.seen = [d \in Deliveries |-> delivery[d].attempts]]]
        BY <3>1 DEF SendStart
      <4> QED BY <4>1 DEF IdleWorker, Inv, Shape
    <3>2. CASE SendEnd(w)
      BY <3>2, IdleFacts DEF SendEnd, Inv, Shape
    <3> QED BY <1>3, <3>1, <3>2
  <2> QED BY <2>1, <2>2 DEF Spaced, Idle, Due
<1>4. ASSUME NEW w \in Workers, NEW d \in Deliveries, NEW end \in Ends, Post(w, d, end)
      PROVE  Spaced'
  <2>1. worker[w].now = {} /\ UNCHANGED delivery
    BY <1>4 DEF Post, Fresh
  <2>2. worker'[w].now = {d} /\ worker'[w].todo = worker[w].todo
    BY <1>4 DEF Post, Inv, Shape, WorkerState
  <2>3. \A e \in Deliveries : e # d => posted'[e] = posted[e] /\ since'[e] = since[e]
    BY <1>4 DEF Post, Inv, Shape, Timed
  <2> QED BY <2>1, <2>2, <2>3 DEF Spaced, Idle
<1>5. ASSUME NEW w \in Workers, SendSave(w) PROVE Spaced'
  <2>1. /\ worker'[w].now = {} /\ worker'[w].todo = worker[w].todo \ worker[w].now
        /\ UNCHANGED <<posted, since>>
    BY <1>5 DEF SendSave, Inv, Shape, WorkerState
  <2>2. \A d \in Deliveries \ worker[w].now : delivery'[d] = delivery[d]
    BY <1>5, RowStep
  <2>3. \A d \in worker[w].now : delivery'[d].status = "pending" =>
          Backoff[posted[d]] <= since[d] + delivery'[d].wait + MaxAge
    BY <1>5, SpacedSaved
  <2>4. \A d \in Deliveries \cap worker[w].now : delivery'[d].status # "none"
    <3> SUFFICES ASSUME NEW d \in Deliveries \cap worker[w].now
                 PROVE  delivery'[d].status # "none"
      OBVIOUS
    <3>1. worker[w].seen[d] \in 0..MaxAttempts /\ worker[w].seen[d] < MaxAttempts
      BY DEF Inv, Left, Shape, WorkerState
    <3>2. /\ worker[w].seen[d] + 1 \in 1..MaxAttempts /\ worker[w].ok \in BOOLEAN
          /\ worker[w].age \in 0..MaxAge /\ delivery[d] \in Row
      BY <3>1, Constants DEF Inv, Shape, WorkerState
    <3>3. delivery'[d] = SavedRow(delivery[d], worker[w].seen[d] + 1, worker[w].ok, worker[w].age)
      BY <1>5 DEF SendSave
    <3> QED BY <3>2, <3>3, SavedRowFacts
  <2> QED BY <2>1, <2>2, <2>3, <2>4 DEF Spaced, Idle
<1>6. ASSUME NEW w \in Workers, Crash(w) PROVE Spaced'
  BY <1>6 DEF Crash
<1>7. CASE Minute
  BY <1>7, SpacedMinute
<1> QED BY <1>1, <1>2, <1>3, <1>4, <1>5, <1>6, <1>7 DEF Next, Work, Put, vars

LEMMA SpacedPost ==
  ASSUME Single, Inv, Timed, Fresh, Spaced, NEW w \in Workers, NEW d \in Deliveries,
         NEW end \in Ends, Post(w, d, end)
  PROVE  \A e \in Deliveries : posted'[e] > posted[e] =>
           since[e] >= Less(Backoff[posted[e]], MaxAge)
<1>1. \A e \in Deliveries : e # d => posted'[e] = posted[e]
  BY DEF Post, Inv, Shape
<1>2. d \in worker[w].todo /\ delivery[d].status = "pending" /\ Idle(d)
  BY DEF Post, Fresh, Idle, Single
<1>3. Backoff[posted[d]] <= since[d] + delivery[d].wait + MaxAge /\ delivery[d].wait = 0
  BY <1>2 DEF Spaced
<1>4. posted[d] \in Nat /\ since[d] \in Nat
  BY LongestType DEF Inv, Shape, Timed
<1>5. Backoff[posted[d]] \in Nat
  BY <1>4, BackoffFacts
<1>6. since[d] >= Less(Backoff[posted[d]], MaxAge)
  BY <1>3, <1>4, <1>5 DEF Less, MaxAge
<1>7. \A e \in Deliveries : posted[e] \in Nat
  BY DEF Inv, Shape
<1> QED BY <1>1, <1>6, <1>7

(* One run at a time that does not die: before the POST that follows the   *)
(* n-th of a delivery at least 2^n minutes pass since that one, less the   *)
(* minute the run may have been at work when it saved.                     *)
THEOREM RetriesSpaced == ASSUME Single, ~Crashes PROVE Spec => BackedOff
<1> DEFINE All == Inv /\ Timed /\ Fresh /\ Counted /\ Spaced
           Waits == \A d \in Deliveries : posted'[d] > posted[d] =>
                      since[d] >= Less(Backoff[posted[d]], MaxAge)
<1>1. Init => All
  BY InvInit, TimedInit, FreshInit, CountedInit, SpacedInit
<1>2. All /\ [Next]_vars => All'
  BY InvStep, TimedStep, FreshStep, CountedStep, SpacedStep
<1>3. All /\ [Next]_vars => [Waits]_vars
  <2> SUFFICES ASSUME All, Next PROVE Waits
    OBVIOUS
  <2>1. \A d \in Deliveries : posted[d] \in Nat
    BY DEF Inv, Shape
  <2>2. CASE UNCHANGED posted
    BY <2>1, <2>2
  <2>3. ASSUME NEW w \in Workers, NEW d \in Deliveries, NEW end \in Ends, Post(w, d, end)
        PROVE  Waits
    BY <2>3, SpacedPost
  <2> QED BY <2>2, <2>3 DEF Next, Work, Put, Enqueue, SendStart, SendSave, SendEnd, Crash, Minute
<1> HIDE DEF All, Waits
<1>4. Spec => [][Waits]_vars
  BY <1>1, <1>2, <1>3, PTL DEF Spec
<1> QED BY <1>4 DEF Waits, BackedOff
-----------------------------------------------------------------------------
(* The promise: the runs implement Delivery.                               *)

(* A run saves one delivery at a time.                                     *)
OneAtATime == \A w \in Workers : \A d, e \in worker[w].now : d = e

LEMMA OneAtATimeStep ==
  ASSUME Inv, OneAtATime, [Next]_vars
  PROVE  OneAtATime'
<1>1. CASE UNCHANGED worker
  BY <1>1 DEF OneAtATime
<1>2. ASSUME NEW w \in Workers, SendStart(w) PROVE OneAtATime'
  <2>1. PICK T \in SUBSET Due :
          worker' = [worker EXCEPT ![w] =
            [IdleWorker EXCEPT !.at = "loop", !.todo = T,
                               !.seen = [d \in Deliveries |-> delivery[d].attempts]]]
    BY <1>2 DEF SendStart
  <2>2. worker'[w].now = {}
    BY <2>1 DEF IdleWorker, Inv, Shape
  <2>3. \A v \in Workers \ {w} : worker'[v] = worker[v]
    BY <2>1 DEF Inv, Shape
  <2> QED BY <2>2, <2>3 DEF OneAtATime
<1>3. ASSUME NEW w \in Workers, NEW d \in Deliveries, NEW end \in Ends, Post(w, d, end)
      PROVE  OneAtATime'
  <2>1. worker'[w].now = {d}
    BY <1>3 DEF Post, Inv, Shape, WorkerState
  <2>2. \A v \in Workers \ {w} : worker'[v] = worker[v]
    BY <1>3 DEF Post, Inv, Shape
  <2> QED BY <2>1, <2>2 DEF OneAtATime
<1>4. ASSUME NEW w \in Workers, SendSave(w) \/ SendEnd(w) \/ Crash(w) PROVE OneAtATime'
  <2>1. worker'[w].now = {}
    BY <1>4, IdleFacts DEF SendSave, SendEnd, Crash, Inv, Shape, WorkerState
  <2>2. \A v \in Workers \ {w} : worker'[v] = worker[v]
    BY <1>4 DEF SendSave, SendEnd, Crash, Inv, Shape
  <2> QED BY <2>1, <2>2 DEF OneAtATime
<1>5. CASE Minute
  <2>1. \A w \in Workers : worker'[w].now = worker[w].now
    BY <1>5 DEF Minute, Inv, Shape, WorkerState
  <2> QED BY <2>1 DEF OneAtATime
<1> QED BY <1>1, <1>2, <1>3, <1>4, <1>5 DEF Next, Work, Put, Enqueue, vars

LEMMA AcceptStep ==
  ASSUME Inv, NEW d \in Deliveries, NEW callback \in Urls, Enqueue(d, callback)
  PROVE  P!Accept(d)
<1>1. delivery[d].status = "none" /\ UNCHANGED <<posted, heard>>
  BY DEF Enqueue
<1>2. delivery'[d].status = "pending" /\ \A e \in Deliveries : e # d => delivery'[e] = delivery[e]
  BY DEF Enqueue, Inv, Shape, Row
<1>3. Stage' = [Stage EXCEPT ![d] = "pending"]
  BY <1>2 DEF Stage
<1> QED BY <1>1, <1>3 DEF P!Accept, Stage, Acked

LEMMA TryStep ==
  ASSUME Single, Inv, Fresh, Counted,
         NEW w \in Workers, NEW d \in Deliveries, NEW end \in Ends, Post(w, d, end)
  PROVE  P!Try(d, end \in Accepted)
<1>1. /\ d \in worker[w].todo /\ delivery[d].status = "pending"
      /\ \A v \in Workers : d \notin worker[v].now
  BY DEF Post, Fresh, Single
<1>2. posted[d] < MaxAttempts
  BY <1>1 DEF Counted, Inv, Left
<1>3. UNCHANGED delivery /\ posted' = [posted EXCEPT ![d] = @ + 1]
  BY DEF Post
<1> DEFINE got == end \in Accepted
<1>4. Acked' = [Acked EXCEPT ![d] = @ \/ got]
  <2>1. /\ heard'[d] = heard[d] \cup {end}
        /\ \A e \in Deliveries : e # d => heard'[e] = heard[e]
    BY DEF Post, Inv, Shape
  <2>2. \A e \in Deliveries :
          (heard'[e] \cap Accepted # {}) =
            (IF e = d THEN heard[d] \cap Accepted # {} \/ got ELSE heard[e] \cap Accepted # {})
    BY <2>1
  <2> HIDE <2>1 DEF got
  <2> QED BY <2>2, Zenon DEF Acked
<1> HIDE DEF got
<1> QED BY <1>1, <1>2, <1>3, <1>4 DEF P!Try, Stage, got

LEMMA SettleStep ==
  ASSUME Single, Inv, Fresh, Counted, OneAtATime, NEW w \in Workers, SendSave(w)
  PROVE  \/ UNCHANGED <<Stage, posted, Acked>>
         \/ \E d \in Deliveries, end \in {"delivered", "failed"} : P!Settle(d, end)
<1>1. UNCHANGED <<posted, heard>> /\ worker[w].at = "save"
  BY DEF SendSave
<1>2. \A e \in Deliveries \ worker[w].now : delivery'[e] = delivery[e]
  BY DEF SendSave
<1>3. CASE \A d \in Deliveries : delivery'[d].status = delivery[d].status
  BY <1>1, <1>3 DEF Stage, Acked
<1>4. ASSUME NEW d \in Deliveries, delivery'[d].status # delivery[d].status
      PROVE  \E end \in {"delivered", "failed"} : P!Settle(d, end)
  <2> DEFINE n == worker[w].seen[d] + 1
             end == delivery'[d].status
  <2>1. d \in worker[w].now /\ d \in worker[w].todo
    BY <1>2, <1>4 DEF Inv, Left
  <2>2. /\ delivery[d].status = "pending" /\ worker[w].seen[d] = delivery[d].attempts
        /\ posted[d] = n
    BY <2>1 DEF Fresh, Counted
  <2>3. n \in 1..MaxAttempts /\ worker[w].ok \in BOOLEAN /\ worker[w].age \in 0..MaxAge
    <3>1. worker[w].seen[d] \in 0..MaxAttempts /\ worker[w].seen[d] < MaxAttempts
      BY <2>1 DEF Inv, Shape, WorkerState, Left
    <3> QED BY <3>1, Constants DEF Inv, Shape, WorkerState
  <2>4. delivery'[d] = SavedRow(delivery[d], n, worker[w].ok, worker[w].age)
    BY <2>1 DEF SendSave
  <2>5. end = IF worker[w].ok THEN "delivered" ELSE IF n >= MaxAttempts THEN "failed" ELSE "pending"
    BY <2>3, <2>4, SavedRowFacts DEF Inv, Shape
  <2>6. worker[w].ok => Acked[d]
    BY <1>1, <2>1 DEF Inv, Held
  <2>7. \/ end = "delivered" /\ Acked[d]
        \/ end = "failed" /\ posted[d] = MaxAttempts
    BY <1>4, <2>2, <2>3, <2>5, <2>6, Constants
  <2>8. \A e \in Deliveries : e # d => delivery'[e] = delivery[e]
    BY <1>2, <2>1 DEF OneAtATime
  <2>9. Stage' = [Stage EXCEPT ![d] = end]
    BY <2>8 DEF Stage
  <2> HIDE DEF end
  <2>10. Stage[d] = "pending" /\ UNCHANGED Acked
    BY <1>1, <2>2 DEF Stage, Acked
  <2> QED BY <1>1, <2>7, <2>9, <2>10 DEF P!Settle
<1> QED BY <1>3, <1>4

LEMMA PromiseStep ==
  ASSUME Single, ~Crashes, Inv, Fresh, Counted, OneAtATime, [Next]_vars
  PROVE  [P!Next]_(P!vars)
<1> DEFINE Same == UNCHANGED <<Stage, posted, Acked>>
<1>1. ASSUME UNCHANGED <<delivery, posted, heard>> PROVE Same
  BY <1>1 DEF Stage, Acked
<1>2. CASE Minute
  <2>1. \A d \in Deliveries : delivery'[d].status = delivery[d].status
    BY <1>2 DEF Minute, Inv, Shape, Row
  <2>2. Same
    BY <1>2, <2>1 DEF Minute, Stage, Acked
  <2> QED BY <2>2 DEF P!vars
<1>3. ASSUME NEW d \in Deliveries, NEW callback \in Urls, Enqueue(d, callback) PROVE P!Next
  BY <1>3, AcceptStep DEF P!Next
<1>4. ASSUME NEW w \in Workers, Work(w) \/ Crash(w) PROVE Same \/ P!Next
  <2>1. CASE SendStart(w) \/ SendEnd(w) \/ Crash(w)
    BY <1>1, <2>1 DEF SendStart, SendEnd, Crash
  <2>2. ASSUME NEW d \in Deliveries, NEW end \in Ends, Post(w, d, end)
        PROVE  P!Next
    <3>1. P!Try(d, end \in Accepted) /\ (end \in Accepted) \in BOOLEAN
      BY <2>2, TryStep
    <3> QED BY <3>1 DEF P!Next
  <2>3. CASE SendSave(w)
    BY <2>3, SettleStep DEF P!Next
  <2> QED BY <1>4, <2>1, <2>2, <2>3 DEF Work
<1>5. CASE UNCHANGED vars
  BY <1>1, <1>5 DEF vars, P!vars
<1>6. ASSUME NEW on, NEW url, Put(on, url) PROVE Same
  BY <1>1, <1>6 DEF Put
<1> HIDE DEF Same
<1>7. Same => UNCHANGED P!vars
  BY DEF Same, P!vars
<1> QED BY <1>2, <1>3, <1>4, <1>5, <1>6, <1>7 DEF Next

(* One run at a time that does not die: what the runs do to the table is,  *)
(* step by step, what Delivery promises, so every event ends delivered and *)
(* acknowledged, or failed after all its attempts, and is tried in no      *)
(* other case.                                                             *)
THEOREM ImplementsPromise == ASSUME Single, ~Crashes PROVE Spec => KeepsPromise
<1> DEFINE All == Inv /\ Fresh /\ Counted /\ OneAtATime
<1>1. Init => All
  <2>1. Init => OneAtATime
    BY IdleFacts DEF Init, OneAtATime
  <2> QED BY <2>1, InvInit, FreshInit, CountedInit
<1>2. All /\ [Next]_vars => All' /\ [P!Next]_(P!vars)
  BY InvStep, FreshStep, CountedStep, OneAtATimeStep, PromiseStep
<1>3. Init => P!Init
  <2> SUFFICES ASSUME Init PROVE P!Init
    OBVIOUS
  <2>1. \A d \in Deliveries : delivery[d].status = "none" /\ posted[d] = 0 /\ heard[d] = {}
    BY DEF Init
  <2>2. posted = [d \in Deliveries |-> 0]
    BY DEF Init
  <2>3. Stage = [d \in Deliveries |-> "none"]
    BY <2>1 DEF Stage
  <2>4. \A d \in Deliveries : (heard[d] \cap Accepted # {}) = FALSE
    BY <2>1
  <2>5. Acked = [d \in Deliveries |-> FALSE]
    BY <2>4, Zenon DEF Acked
  <2> QED BY <2>2, <2>3, <2>5 DEF P!Init
<1> HIDE DEF All
<1> QED BY <1>1, <1>2, <1>3, PTL DEF Spec, KeepsPromise, P!Spec
=============================================================================
