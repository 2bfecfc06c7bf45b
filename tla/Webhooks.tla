------------------------------ MODULE Webhooks ------------------------------
(***************************************************************************)
(* The delivery of webhook events: the table of deliveries that enqueue    *)
(* fills and the runs of send_pending, which cron starts every minute and  *)
(* which may overlap when a run outlasts its interval or two hosts run it. *)
(* A run reads the due deliveries once, POSTs each and saves what came of  *)
(* it from the copy it read; there is no lock.  The endpoint (outside this *)
(* repository) may take the POST or not, its answer may get lost, and it   *)
(* may redirect to another url.                                            *)
(*                                                                         *)
(* Time is in minutes.  next_retry_at is kept as the minutes left until it *)
(* and the start of a run as the run's age.                                *)
(***************************************************************************)
EXTENDS Naturals, FiniteSets

CONSTANTS
  Deliveries,     \* primary keys of webhook deliveries
  Workers,        \* processes that may run send_pending
  MaxAttempts,    \* MAX_ATTEMPTS
  Limit,          \* deliveries a run reads at most (100)
  Crashes,        \* may a process die between a POST and its save?
  Urls,           \* urls of webhooks and messages, "" where none is given
  Public          \* those that lead to a public http(s) host

ASSUME WebhookAssumption ==
  /\ MaxAttempts \in Nat \ {0} /\ Limit \in Nat \ {0}
  /\ Crashes \in BOOLEAN
  /\ "" \in Urls /\ Public \subseteq Urls \ {""}

VARIABLES
  config,         \* the account's webhook: is it enabled, and where does it point?
  delivery,       \* the table: status, url, attempts, minutes until next_retry_at
  worker,         \* the runs of send_pending
  posted,         \* how often each delivery was POSTed ...
  heard,          \* ... and what came of it
  since           \* minutes since its last POST, up to Longest

vars == <<config, delivery, worker, posted, heard, since>>

(* A run stops 50 seconds after its start, plus one POST of 5 seconds: the *)
(* clock passes a full minute at most once while it is at work.            *)
MaxAge == 1

(* 2 ** n, in minutes.                                                     *)
Backoff[n \in Nat] == IF n = 0 THEN 1 ELSE 2 * Backoff[n - 1]

Longest == Backoff[MaxAttempts]
-----------------------------------------------------------------------------
(* _check_url, of a url and of what it redirects to: other schemes,        *)
(* private addresses and names that do not resolve do not pass.            *)
Passes(url) == url \in Public

(* The view reads the row, which get_or_create_config makes, changes what  *)
(* the request names and saves all three columns.                          *)
Put(on, url) ==
  /\ config' = [on |-> on, url |-> url]
  /\ UNCHANGED <<delivery, worker, posted, heard, since>>

First(callback, url) == IF callback # "" THEN callback ELSE url

(* An event makes a delivery when the webhook is enabled and subscribed to *)
(* it at that moment, for the message's callback_url if it has one.  The   *)
(* delivery keeps its url, and stays due, whatever becomes of the webhook. *)
Enqueue(d, callback) ==
  /\ config.on
  /\ First(callback, config.url) # ""
  /\ delivery[d].status = "none"
  /\ delivery' = [delivery EXCEPT ![d].status = "pending", ![d].url = First(callback, config.url)]
  /\ UNCHANGED <<config, worker, posted, heard, since>>
-----------------------------------------------------------------------------
(* A run: at rest, in its loop, or between a POST and its save.  todo are  *)
(* the deliveries read and not yet done, seen the attempts as read.        *)
IdleWorker == [at |-> "idle", todo |-> {}, seen |-> [d \in Deliveries |-> 0],
               age |-> 0, fresh |-> TRUE, now |-> {}, ok |-> FALSE]

DueTooOften ==      \* mutant: the query has lost its status="pending"
  {d \in Deliveries : delivery[d].status # "none" /\ delivery[d].wait = 0}

DueFresh ==      \* mutant: only deliveries never tried are selected
  {d \in Deliveries : delivery[d].status = "pending" /\ delivery[d].attempts = 0}

Due == {d \in Deliveries : delivery[d].status = "pending" /\ delivery[d].wait = 0}

(* The query is limited and not ordered: which Limit deliveries it returns *)
(* is the database's choice.                                               *)
SendStart(w) ==
  /\ worker[w].at = "idle"
  /\ \E T \in SUBSET Due :
       /\ Cardinality(T) = IF Cardinality(Due) < Limit THEN Cardinality(Due) ELSE Limit
       /\ T # {}
       /\ worker' = [worker EXCEPT ![w] =
            [IdleWorker EXCEPT !.at = "loop", !.todo = T,
                               !.seen = [d \in Deliveries |-> delivery[d].attempts]]]
  /\ UNCHANGED <<config, delivery, posted, heard, since>>

(* What may come of a POST: nothing, for the url is blocked, down or slow; *)
(* the event was taken and its answer lost; a 2xx answer; or a redirect    *)
(* (301, 302, 303), which urllib follows with a GET that has no body, and  *)
(* a 2xx answer to that.  A blocked redirect, a 307 or another error is    *)
(* an exception, and the event was not taken.                              *)
Ends == {"nothing", "lost", "ok", "moved"}

(* What raises no exception counts as success.                             *)
Accepted == {"ok", "moved"}

(* To a url that is blocked nothing is sent, which counts as an attempt.   *)
Post(w, d, end) ==
  /\ worker[w].at = "loop" /\ d \in worker[w].todo
  /\ end # "nothing" => Passes(delivery[d].url)
  /\ posted' = [posted EXCEPT ![d] = @ + 1]
  /\ heard' = [heard EXCEPT ![d] = @ \cup {end}]
  /\ since' = [since EXCEPT ![d] = 0]
  /\ worker' = [worker EXCEPT ![w].at = "save", ![w].now = {d}, ![w].ok = end \in Accepted,
                              ![w].fresh = FALSE]
  /\ UNCHANGED <<config, delivery>>

Less(a, b) == IF a > b THEN a - b ELSE 0

SavedUnspaced(row, n, ok, age) ==     \* mutant: next_retry_at is forgotten
  IF ok THEN [row EXCEPT !.status = "delivered", !.attempts = n, !.wait = 0]
  ELSE IF n >= MaxAttempts THEN [row EXCEPT !.status = "failed", !.attempts = n, !.wait = 0]
  ELSE [row EXCEPT !.status = "pending", !.attempts = n, !.wait = 0]

SavedOffByOne(row, n, ok, age) ==     \* mutant: > for >= in the limit
  IF ok THEN [row EXCEPT !.status = "delivered", !.attempts = n, !.wait = 0]
  ELSE IF n > MaxAttempts THEN [row EXCEPT !.status = "failed", !.attempts = n, !.wait = 0]
  ELSE [row EXCEPT !.status = "pending", !.attempts = n, !.wait = Less(Backoff[n], age)]

SavedEarly(row, n, ok, age) ==        \* mutant: gives up one attempt too early
  IF ok THEN [row EXCEPT !.status = "delivered", !.attempts = n, !.wait = 0]
  ELSE IF n + 1 >= MaxAttempts THEN [row EXCEPT !.status = "failed", !.attempts = n, !.wait = 0]
  ELSE [row EXCEPT !.status = "pending", !.attempts = n, !.wait = Less(Backoff[n], age)]

(* What a run saves after the n-th attempt; the next retry counts from the *)
(* start of the run.  A row that is done keeps its next_retry_at, which    *)
(* nothing reads any more.                                                 *)
SavedRow(row, n, ok, age) ==
  IF ok THEN [row EXCEPT !.status = "delivered", !.attempts = n, !.wait = 0]
  ELSE IF n >= MaxAttempts THEN [row EXCEPT !.status = "failed", !.attempts = n, !.wait = 0]
  ELSE [row EXCEPT !.status = "pending", !.attempts = n, !.wait = Less(Backoff[n], age)]

SendSave(w) ==
  /\ worker[w].at = "save"
  /\ delivery' = [d \in Deliveries |->
       IF d \in worker[w].now
       THEN SavedRow(delivery[d], worker[w].seen[d] + 1, worker[w].ok, worker[w].age)
       ELSE delivery[d]]
  /\ worker' = [worker EXCEPT ![w].at = "loop", ![w].todo = @ \ worker[w].now, ![w].now = {}]
  /\ UNCHANGED <<config, posted, heard, since>>

(* The end of the list, or of the 50 seconds; the first POST is in time.   *)
SendEnd(w) ==
  /\ worker[w].at = "loop"
  /\ worker[w].todo = {} \/ ~worker[w].fresh
  /\ worker' = [worker EXCEPT ![w] = IdleWorker]
  /\ UNCHANGED <<config, delivery, posted, heard, since>>

Crash(w) ==
  /\ Crashes
  /\ worker[w].at # "idle"
  /\ worker' = [worker EXCEPT ![w] = IdleWorker]
  /\ UNCHANGED <<config, delivery, posted, heard, since>>

Minute ==
  /\ \A w \in Workers : worker[w].age < MaxAge
  /\ delivery' = [d \in Deliveries |-> [delivery[d] EXCEPT !.wait = Less(@, 1)]]
  /\ worker' = [w \in Workers |->
       IF worker[w].at = "idle" THEN worker[w] ELSE [worker[w] EXCEPT !.age = @ + 1]]
  /\ since' = [d \in Deliveries |-> IF since[d] < Longest THEN since[d] + 1 ELSE Longest]
  /\ UNCHANGED <<config, posted, heard>>
-----------------------------------------------------------------------------
Init ==
  /\ config = [on |-> FALSE, url |-> ""]
  /\ delivery = [d \in Deliveries |-> [status |-> "none", url |-> "", attempts |-> 0, wait |-> 0]]
  /\ worker = [w \in Workers |-> IdleWorker]
  /\ posted = [d \in Deliveries |-> 0]
  /\ heard = [d \in Deliveries |-> {}]
  /\ since = [d \in Deliveries |-> Longest]

Work(w) ==
  \/ SendStart(w)
  \/ \E d \in Deliveries, end \in Ends : Post(w, d, end)
  \/ SendSave(w)
  \/ SendEnd(w)

Next ==
  \/ \E on \in BOOLEAN, url \in Urls : Put(on, url)
  \/ \E d \in Deliveries, callback \in Urls : Enqueue(d, callback)
  \/ \E w \in Workers : Work(w) \/ Crash(w)
  \/ Minute

Spec == Init /\ [][Next]_vars

(* cron starts a run whenever something is due, a run goes on, time passes. *)
FairSpec == Spec /\ WF_vars(Minute) /\ \A w \in Workers : WF_vars(Work(w))
-----------------------------------------------------------------------------
(* Every variable keeps its shape, and no row counts more attempts than    *)
(* the limit, however many runs overlap or die.                            *)
TypeOK ==
  /\ config \in [on : BOOLEAN, url : Urls]
  /\ delivery \in [Deliveries -> [status : {"none", "pending", "delivered", "failed"}, url : Urls,
                                  attempts : 0..MaxAttempts, wait : Nat]]
  /\ worker \in [Workers -> [at : {"idle", "loop", "save"}, todo : SUBSET Deliveries,
                             seen : [Deliveries -> 0..MaxAttempts], age : 0..MaxAge,
                             fresh : BOOLEAN, now : SUBSET Deliveries, ok : BOOLEAN]]
  /\ posted \in [Deliveries -> Nat]
  /\ heard \in [Deliveries -> SUBSET Ends]
  /\ since \in [Deliveries -> 0..Longest]

Acked == [d \in Deliveries |-> heard[d] \cap Accepted # {}]

(* What a row says happened: delivered means that a POST of this event was *)
(* answered with 2xx, by its url or by what that redirects to - then the   *)
(* event itself may be taken by nobody -, failed that it was POSTed as     *)
(* often as promised, and the attempts of the row are POSTs that were      *)
(* made; with overlapping runs and crashes too.                            *)
HonestRows ==
  \A d \in Deliveries :
    /\ delivery[d].status = "delivered" => Acked[d]
    /\ delivery[d].status = "failed" => posted[d] >= MaxAttempts
    /\ delivery[d].attempts <= posted[d]

Stage == [d \in Deliveries |-> delivery[d].status]

P == INSTANCE Delivery WITH stage <- Stage, tries <- posted, acked <- Acked

(* One run at a time that does not die: every step of the runs, which read *)
(* a batch and save each row from the copy they read, is a step of the     *)
(* promise - an attempt of a pending event within the limit, an end that   *)
(* what was POSTed justifies - or changes nothing the promise speaks of.   *)
KeepsPromise == P!Spec

(* One run at a time: what is delivered or given up is never sent again.   *)
DoneIsDone ==
  [][\A d \in Deliveries : delivery[d].status \in {"delivered", "failed"} =>
       posted'[d] = posted[d] /\ delivery'[d] = delivery[d]]_vars

(* One run at a time that does not die: before the POST that follows the   *)
(* n-th at least 2^n minutes pass, less what the run had been at work.     *)
BackedOff ==
  [][\A d \in Deliveries : posted'[d] > posted[d] =>
       since[d] >= Less(Backoff[posted[d]], MaxAge)]_vars

(* Every event that was enqueued is delivered or given up, whatever the    *)
(* endpoint does and although runs stop after 50 seconds.                  *)
EverySettles ==
  \A d \in Deliveries : delivery[d].status = "pending" ~> delivery[d].status \in {"delivered", "failed"}
=============================================================================
