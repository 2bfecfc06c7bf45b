------------------------------ MODULE Dispatch ------------------------------
(***************************************************************************)
(* The heart of ownsms: the table of messages and everything that moves a  *)
(* row of it from "queued" to its end.  The actors are                     *)
(*   - the device's connections, each a long poll that claims jobs;        *)
(*   - the web threads that serve the device's status reports;             *)
(*   - the runs of the ownsms_housekeeping command, which cron starts;     *)
(*   - the developer's calls that insert and cancel messages and pause,    *)
(*     resume or cancel the campaign some messages belong to;              *)
(*   - the phone (outside this repository), which sends and reports.       *)
(*                                                                         *)
(* One action is one SQL statement or one transaction, with the Python     *)
(* around it: that is the grain at which the code's threads interleave     *)
(* (no view sets ATOMIC_REQUESTS).  Deadlines are kept as the time left    *)
(* until them, which Tick counts down: "created_at + ttl <= now" reads     *)
(* "left.ttl = 0".                                                         *)
(***************************************************************************)
EXTENDS Naturals, FiniteSets

CONSTANTS
  Msgs,           \* primary keys of the message table
  Devices,        \* the paired devices
  Conns,          \* long polls a device may have open, with those it has given up
  Owner,          \* the device of each message and of each connection
  CampaignMsgs,   \* the messages of the one campaign (the others have none)
  Reports,        \* web threads serving status reports
  Runs,           \* housekeeping processes
  BatchSize,      \* POLL_BATCH_SIZE
  LeaseTime,      \* LEASE_SECONDS
  Ttls, Delays,   \* values of "ttl", and of "send_at" less the time of the call
  Overlap,        \* may two reports on one message be served at the same time?
  Faults          \* what may go wrong, see below

FaultKinds == {"lost_reply", "crash", "phone_dies", "deactivate"}

ASSUME DispatchAssumption ==
  /\ Msgs \subseteq Nat
  /\ CampaignMsgs \subseteq Msgs
  /\ Owner \in [Msgs \cup Conns -> Devices]
  /\ BatchSize \in Nat /\ LeaseTime \in Nat
  /\ Ttls \subseteq Nat /\ Delays \subseteq Nat
  /\ Overlap \in BOOLEAN
  /\ Faults \subseteq FaultKinds

VARIABLES
  rows,     \* the message table: the columns save() writes
  left,     \* time left until created_at + ttl, scheduled_at, lease_expires_at
  gate,     \* is the campaign's status one that claim_jobs excludes?
  control,  \* the developer's thread inside campaigns.control
  active,   \* Device.status = "active"
  poll,     \* the long polls
  report,   \* the web threads serving reports
  run,      \* the housekeeping processes
  phone,    \* what the phone knows of each job
  radio,    \* how often the SMS went out over the SIM
  outbox    \* calls of webhooks.enqueue, by message and event

vars == <<rows, left, gate, control, active, poll, report, run, phone, radio, outbox>>
-----------------------------------------------------------------------------
(* The message table.                                                      *)

Status == {"none", "queued", "dispatched", "sent", "delivered", "failed", "expired", "canceled"}
Errors == {"", "lease_timeout", "send_failed"}
Events == {"sent", "delivered", "failed", "expired"}

(* "none": the row is not there yet.  sent and delivered: is the timestamp *)
(* sent_at, delivered_at set?                                              *)
Row == [status : Status, error : Errors, sent : BOOLEAN, delivered : BOOLEAN]

Deadlines == [ttl : Nat, due : Nat, lease : Nat]

NewRow == [status |-> "none", error |-> "", sent |-> FALSE, delivered |-> FALSE]

(* UPDATE ... SET status = s WHERE id IN S                                 *)
SetStatus(S, s) ==
  rows' = [m \in Msgs |-> IF m \in S THEN [rows[m] EXCEPT !.status = s] ELSE rows[m]]

InStatus(s) == {m \in Msgs : rows[m].status = s}

Enqueue(m, event) == outbox' = [outbox EXCEPT ![m][event] = @ + 1]
-----------------------------------------------------------------------------
(* The developer's calls.                                                  *)

(* What one call inserts: a message, or all those of the campaign.  Only   *)
(* live messages are here: one of a test key is inserted as delivered, no  *)
(* device is given it, no event told, and nothing changes it afterwards.   *)
Batches == {{m} : m \in Msgs \ CampaignMsgs} \cup ({CampaignMsgs} \ {{}})

Insert(S, ttl, delay) ==
  /\ \A m \in S : rows[m].status = "none"
  /\ SetStatus(S, "queued")
  /\ left' = [m \in Msgs |-> IF m \in S THEN [ttl |-> ttl, due |-> delay, lease |-> 0]
                             ELSE left[m]]
  /\ UNCHANGED <<gate, control, active, poll, report, run, phone, radio, outbox>>

CancelUnguarded(m) ==     \* mutant: the UPDATE has lost its status="queued"
  /\ rows[m].status # "none"
  /\ SetStatus({m}, "canceled")
  /\ UNCHANGED <<left, gate, control, active, poll, report, run, phone, radio, outbox>>

MessageCancel(m) ==
  /\ rows[m].status = "queued"
  /\ SetStatus({m}, "canceled")
  /\ UNCHANGED <<left, gate, control, active, poll, report, run, phone, radio, outbox>>

(* An administrator cancels what is queued among the messages of a list.   *)
CancelQueued(S) ==
  /\ S # {}
  /\ SetStatus(S \cap InStatus("queued"), "canceled")
  /\ UNCHANGED <<left, gate, control, active, poll, report, run, phone, radio, outbox>>

Created == CampaignMsgs # {} /\ \A m \in CampaignMsgs : rows[m].status # "none"

(* Pause and resume are one UPDATE of the campaign row; cancel is two      *)
(* statements, first the messages and then the campaign, and any thread    *)
(* may pause or resume between them.                                       *)
ControlSave(g) ==
  /\ Created
  /\ gate' = g
  /\ UNCHANGED <<rows, left, control, active, poll, report, run, phone, radio, outbox>>

ControlCancelMessages ==
  /\ Created /\ control = "idle"
  /\ SetStatus(CampaignMsgs \cap InStatus("queued"), "canceled")
  /\ control' = "canceling"
  /\ UNCHANGED <<left, gate, active, poll, report, run, phone, radio, outbox>>

ControlCancelSave ==
  /\ control = "canceling"
  /\ gate' = "shut" /\ control' = "idle"
  /\ UNCHANGED <<rows, left, active, poll, report, run, phone, radio, outbox>>

DeviceAction(d, a) ==
  /\ "deactivate" \in Faults
  /\ active' = [active EXCEPT ![d] = a]
  /\ UNCHANGED <<rows, left, gate, control, poll, report, run, phone, radio, outbox>>
-----------------------------------------------------------------------------
(* Long polls.  A connection is idle, looping or about to reply with jobs. *)
(* A device that lost its connection polls again on another one while the  *)
(* server still loops for the first.                                       *)

PollState == [at : {"idle", "loop", "reply"}, jobs : SUBSET Msgs]

IdlePoll == [at |-> "idle", jobs |-> {}]

Claimable(d) ==
  {m \in InStatus("queued") : /\ Owner[m] = d
                              /\ left[m].due = 0
                              /\ m \in CampaignMsgs => gate = "open"}

(* ORDER BY id LIMIT BatchSize *)
FirstBatch(S) == {m \in S : Cardinality({n \in S : n < m}) < BatchSize}

PollStart(c) ==
  /\ poll[c].at = "idle"
  /\ active[Owner[c]]
  /\ poll' = [poll EXCEPT ![c].at = "loop"]
  /\ UNCHANGED <<rows, left, gate, control, active, report, run, phone, radio, outbox>>

ClaimPublic(c) ==     \* mutant: the row is given the status's public name
  LET ids == FirstBatch(Claimable(Owner[c])) IN
  /\ poll[c].at = "loop"
  /\ ids # {}
  /\ SetStatus(ids, "sending")
  /\ left' = [m \in Msgs |-> IF m \in ids THEN [left[m] EXCEPT !.lease = LeaseTime]
                             ELSE left[m]]
  /\ poll' = [poll EXCEPT ![c] = [at |-> "reply", jobs |-> ids]]
  /\ UNCHANGED <<gate, control, active, report, run, phone, radio, outbox>>

(* claim_jobs: SELECT ... FOR UPDATE and UPDATE in one transaction.        *)
ClaimJobs(c) ==
  LET ids == FirstBatch(Claimable(Owner[c])) IN
  /\ poll[c].at = "loop"
  /\ ids # {}
  /\ SetStatus(ids, "dispatched")
  /\ left' = [m \in Msgs |-> IF m \in ids THEN [left[m] EXCEPT !.lease = LeaseTime]
                             ELSE left[m]]
  /\ poll' = [poll EXCEPT ![c] = [at |-> "reply", jobs |-> ids]]
  /\ UNCHANGED <<gate, control, active, report, run, phone, radio, outbox>>

PollTimeout(c) ==
  /\ poll[c].at = "loop"
  /\ poll' = [poll EXCEPT ![c] = IdlePoll]
  /\ UNCHANGED <<rows, left, gate, control, active, report, run, phone, radio, outbox>>

PollReply(c) ==
  /\ poll[c].at = "reply"
  /\ phone' = [m \in Msgs |-> IF m \in poll[c].jobs THEN "held" ELSE phone[m]]
  /\ poll' = [poll EXCEPT ![c] = IdlePoll]
  /\ UNCHANGED <<rows, left, gate, control, active, report, run, radio, outbox>>

PollReplyLost(c) ==
  /\ "lost_reply" \in Faults
  /\ poll[c].at = "reply"
  /\ poll' = [poll EXCEPT ![c] = IdlePoll]
  /\ UNCHANGED <<rows, left, gate, control, active, report, run, phone, radio, outbox>>
-----------------------------------------------------------------------------
(* Status reports.  The thread reads the row, decides on what it read, and *)
(* later writes the four columns of save(update_fields=...) from the copy  *)
(* it holds; there is no lock and no transaction around the two.           *)

IdleReport == [at |-> "idle"]
Copy == [at : {"save", "notify"}, msg : Msgs, want : Events, row : Row]

(* The statuses the row may have for a report to be taken.                 *)
Allowed(want) ==
  CASE want = "sent"      -> {"dispatched"}
    [] want = "delivered" -> {"sent"}
    [] OTHER              -> {"dispatched", "sent"}

NeverRecovers(row) == FALSE        \* mutant: lease_timeout is taken for the truth
RecoversAll(row) == row.status = "failed"    \* mutant: any failure may be corrected

(* A lease_timeout is a guess; any report of the device corrects it.       *)
Recovering(row) == row.status = "failed" /\ row.error = "lease_timeout"

SavedWithoutBackfill(row, want) ==     \* mutant: sent_at is not filled in
  CASE want = "sent" -> [row EXCEPT !.status = "sent", !.sent = TRUE, !.error = ""]
    [] want = "delivered" -> [row EXCEPT !.status = "delivered", !.delivered = TRUE, !.error = ""]
    [] OTHER -> [row EXCEPT !.status = "failed", !.error = "send_failed"]

Saved(row, want) ==
  CASE want = "sent" -> [row EXCEPT !.status = "sent", !.sent = TRUE, !.error = ""]
    [] want = "delivered" ->
         [status |-> "delivered", error |-> "", sent |-> TRUE, delivered |-> TRUE]
    [] OTHER -> [row EXCEPT !.status = "failed", !.error = "send_failed"]

(* What the phone may report of a job, retries and stragglers included:    *)
(* every outcome the job has had so far.                                   *)
Outcomes(state) ==
  CASE state = "sent"        -> {"sent"}
    [] state = "delivered"   -> {"sent", "delivered"}
    [] state = "undelivered" -> {"sent", "failed"}
    [] state = "failed"      -> {"failed"}
    [] OTHER                 -> {}

Serving(m) == \E r \in Reports : report[r].at # "idle" /\ report[r].msg = m

ReportRead(r, m, want) ==
  /\ report[r].at = "idle"
  /\ Overlap \/ ~Serving(m)
  /\ want \in Outcomes(phone[m])
  /\ active[Owner[m]]
  /\ rows[m].status \in Allowed(want) \/ Recovering(rows[m])
  /\ report' = [report EXCEPT ![r] = [at |-> "save", msg |-> m, want |-> want, row |-> rows[m]]]
  /\ UNCHANGED <<rows, left, gate, control, active, poll, run, phone, radio, outbox>>

ReportSave(r) ==
  /\ report[r].at = "save"
  /\ rows' = [rows EXCEPT ![report[r].msg] = Saved(report[r].row, report[r].want)]
  /\ report' = [report EXCEPT ![r].at = "notify"]
  /\ UNCHANGED <<left, gate, control, active, poll, run, phone, radio, outbox>>

ReportNotify(r) ==
  /\ report[r].at = "notify"
  /\ Enqueue(report[r].msg, report[r].want)
  /\ report' = [report EXCEPT ![r] = IdleReport]
  /\ UNCHANGED <<rows, left, gate, control, active, poll, run, phone, radio>>

ReportCrash(r) ==
  /\ "crash" \in Faults
  /\ report[r].at # "idle"
  /\ report' = [report EXCEPT ![r] = IdleReport]
  /\ UNCHANGED <<rows, left, gate, control, active, poll, run, phone, radio, outbox>>
-----------------------------------------------------------------------------
(* Housekeeping.  A run takes the time and reads the queued rows once; it  *)
(* then expires the overdue ones one UPDATE at a time, enqueueing an event *)
(* for each row the UPDATE changed, and last reclaims the lapsed leases.   *)

RunState == [at : {"idle", "expire"}, overdue : SUBSET Msgs,
             lapsed : SUBSET Msgs, untold : SUBSET Msgs]

IdleRun == [at |-> "idle", overdue |-> {}, lapsed |-> {}, untold |-> {}]

OverdueUnlessHeld ==     \* mutant: messages of a paused campaign are spared
  {m \in InStatus("queued") : left[m].ttl = 0 /\ (m \in CampaignMsgs => gate = "open")}

Overdue == {m \in InStatus("queued") : left[m].ttl = 0}
Lapsed  == {m \in InStatus("dispatched") : left[m].lease = 0}

RunStart(k) ==
  /\ run[k].at = "idle"
  /\ run' = [run EXCEPT ![k] =
              [at |-> "expire", overdue |-> Overdue, lapsed |-> Lapsed, untold |-> {}]]
  /\ UNCHANGED <<rows, left, gate, control, active, poll, report, phone, radio, outbox>>

ExpireUnguarded(k, m) ==   \* mutant: the UPDATE trusts the rows read earlier
  /\ m \in run[k].overdue /\ run[k].untold = {}
  /\ SetStatus({m}, "expired")
  /\ run' = [run EXCEPT ![k].overdue = @ \ {m}, ![k].untold = {m}]
  /\ UNCHANGED <<left, gate, control, active, poll, report, phone, radio, outbox>>

ExpireSilent(k, m) ==      \* mutant: nobody is told of the expiry
  LET hit == {m} \cap InStatus("queued") IN
  /\ m \in run[k].overdue /\ run[k].untold = {}
  /\ SetStatus(hit, "expired")
  /\ run' = [run EXCEPT ![k].overdue = @ \ {m}]
  /\ UNCHANGED <<left, gate, control, active, poll, report, phone, radio, outbox>>

RunExpire(k, m) ==
  LET hit == {m} \cap InStatus("queued") IN
  /\ m \in run[k].overdue /\ run[k].untold = {}
  /\ SetStatus(hit, "expired")
  /\ run' = [run EXCEPT ![k].overdue = @ \ {m}, ![k].untold = hit]
  /\ UNCHANGED <<left, gate, control, active, poll, report, phone, radio, outbox>>

RunNotify(k, m) ==
  /\ m \in run[k].untold
  /\ Enqueue(m, "expired")
  /\ run' = [run EXCEPT ![k].untold = {}]
  /\ UNCHANGED <<rows, left, gate, control, active, poll, report, phone, radio>>

ReclaimToQueue(k) ==       \* mutant: a lapsed job goes back to the queue
  /\ run[k].at = "expire" /\ run[k].overdue = {} /\ run[k].untold = {}
  /\ SetStatus(run[k].lapsed \cap InStatus("dispatched"), "queued")
  /\ run' = [run EXCEPT ![k] = IdleRun]
  /\ UNCHANGED <<left, gate, control, active, poll, report, phone, radio, outbox>>

RunReclaim(k) ==
  /\ run[k].at = "expire" /\ run[k].overdue = {} /\ run[k].untold = {}
  /\ rows' = [m \in Msgs |-> IF m \in run[k].lapsed \cap InStatus("dispatched")
                              THEN [rows[m] EXCEPT !.status = "failed", !.error = "lease_timeout"]
                              ELSE rows[m]]
  /\ run' = [run EXCEPT ![k] = IdleRun]
  /\ UNCHANGED <<left, gate, control, active, poll, report, phone, radio, outbox>>

RunCrash(k) ==
  /\ "crash" \in Faults
  /\ run[k].at # "idle"
  /\ run' = [run EXCEPT ![k] = IdleRun]
  /\ UNCHANGED <<rows, left, gate, control, active, poll, report, phone, radio, outbox>>
-----------------------------------------------------------------------------
(* The phone and the clock.                                                *)

PhoneStates == {"none", "held", "sent", "failed", "delivered", "undelivered", "lost"}

(* The phone tries each job it holds once.                                 *)
PhoneSend(m, ok) ==
  /\ phone[m] = "held"
  /\ phone' = [phone EXCEPT ![m] = IF ok THEN "sent" ELSE "failed"]
  /\ radio' = [radio EXCEPT ![m] = IF ok THEN @ + 1 ELSE @]
  /\ UNCHANGED <<rows, left, gate, control, active, poll, report, run, outbox>>

PhoneReceipt(m, ok) ==
  /\ phone[m] = "sent"
  /\ phone' = [phone EXCEPT ![m] = IF ok THEN "delivered" ELSE "undelivered"]
  /\ UNCHANGED <<rows, left, gate, control, active, poll, report, run, radio, outbox>>

(* The system kills the sender app: it forgets the jobs it still held.     *)
PhoneDies(d) ==
  /\ "phone_dies" \in Faults
  /\ phone' = [m \in Msgs |-> IF Owner[m] = d /\ phone[m] = "held" THEN "lost" ELSE phone[m]]
  /\ UNCHANGED <<rows, left, gate, control, active, poll, report, run, radio, outbox>>

CountDown(n) == IF n = 0 THEN 0 ELSE n - 1

Tick ==
  /\ left' = [m \in Msgs |-> [ttl   |-> CountDown(left[m].ttl),
                              due   |-> CountDown(left[m].due),
                              lease |-> CountDown(left[m].lease)]]
  /\ UNCHANGED <<rows, gate, control, active, poll, report, run, phone, radio, outbox>>
-----------------------------------------------------------------------------
Init ==
  /\ rows = [m \in Msgs |-> NewRow]
  /\ left = [m \in Msgs |-> [ttl |-> 0, due |-> 0, lease |-> 0]]
  /\ gate = "open" /\ control = "idle"
  /\ active = [d \in Devices |-> TRUE]
  /\ poll = [c \in Conns |-> IdlePoll]
  /\ report = [r \in Reports |-> IdleReport]
  /\ run = [k \in Runs |-> IdleRun]
  /\ phone = [m \in Msgs |-> "none"]
  /\ radio = [m \in Msgs |-> 0]
  /\ outbox = [m \in Msgs |-> [e \in Events |-> 0]]

Developer ==
  \/ \E S \in Batches, t \in Ttls, d \in Delays : Insert(S, t, d)
  \/ \E m \in Msgs : MessageCancel(m)
  \/ \E S \in SUBSET Msgs : CancelQueued(S)
  \/ \E g \in {"open", "shut"} : ControlSave(g)
  \/ ControlCancelMessages
  \/ ControlCancelSave
  \/ \E d \in Devices, a \in BOOLEAN : DeviceAction(d, a)

Polling(c) == PollStart(c) \/ ClaimJobs(c) \/ PollTimeout(c) \/ PollReply(c) \/ PollReplyLost(c)

Reporting(r) ==
  \/ \E m \in Msgs, want \in Events : ReportRead(r, m, want)
  \/ ReportSave(r) \/ ReportNotify(r) \/ ReportCrash(r)

Progress(k) ==
  \/ RunStart(k)
  \/ \E m \in Msgs : RunExpire(k, m) \/ RunNotify(k, m)
  \/ RunReclaim(k)

Phone ==
  \/ \E m \in Msgs, ok \in BOOLEAN : PhoneSend(m, ok) \/ PhoneReceipt(m, ok)
  \/ \E d \in Devices : PhoneDies(d)

Next ==
  \/ Developer
  \/ \E c \in Conns : Polling(c)
  \/ \E r \in Reports : Reporting(r)
  \/ \E k \in Runs : Progress(k) \/ RunCrash(k)
  \/ Phone
  \/ Tick

Spec == Init /\ [][Next]_vars

(* What the deployment and the phone owe for progress: time passes; cron   *)
(* starts housekeeping again and again and a run goes on; a thread that    *)
(* serves a report goes on; the phone repeats each report it may make      *)
(* until some thread takes it.  Nothing is asked of the developer, of the  *)
(* polls, or of the phone's sending.                                       *)
Fairness ==
  /\ WF_vars(Tick)
  /\ \A k \in Runs : WF_vars(Progress(k))
  /\ \A r \in Reports : WF_vars(ReportSave(r)) /\ WF_vars(ReportNotify(r))
  /\ \A m \in Msgs, want \in Events : SF_vars(\E r \in Reports : ReportRead(r, m, want))

FairSpec == Spec /\ Fairness
-----------------------------------------------------------------------------
(* Correctness.                                                            *)

(* Every variable has the shape the code gives it: rows only have the      *)
(* statuses and errors of the table, and never the public name "sending".  *)
TypeOK ==
  /\ rows \in [Msgs -> Row]
  /\ left \in [Msgs -> Deadlines]
  /\ gate \in {"open", "shut"} /\ control \in {"idle", "canceling"}
  /\ active \in [Devices -> BOOLEAN]
  /\ poll \in [Conns -> PollState]
  /\ report \in [Reports -> {IdleReport} \cup Copy]
  /\ run \in [Runs -> RunState]
  /\ phone \in [Msgs -> PhoneStates]
  /\ radio \in [Msgs -> Nat]
  /\ outbox \in [Msgs -> [Events -> Nat]]

(* No SMS goes out twice, whatever is lost, crashes or overlaps: a claimed *)
(* job is never claimed again, not even when its lease lapses (README:     *)
(* "at-most-once (a job left uncertain by a crash is failed, never         *)
(* resent)").                                                              *)
AtMostOnce == \A m \in Msgs : radio[m] <= 1

(* The statuses of a message no device was ever given.                     *)
Unclaimed == {"none", "queued", "expired", "canceled"}

(* A message the API calls queued, canceled or expired is in no device's   *)
(* hands, on no reply to one and in no report of one: what cancel answered *)
(* stays true (message_cancel: "races claim_jobs so we never report        *)
(* 'canceled' for a message the device has already picked up").            *)
NeverHandedOut ==
  \A m \in Msgs : rows[m].status \in Unclaimed =>
     /\ phone[m] = "none"
     /\ \A c \in Conns : m \notin poll[c].jobs
     /\ ~Serving(m)

(* The timestamps and the error of a row agree with its status, so that    *)
(* counting by sent_at (device_status) counts what was sent: sent and      *)
(* delivered rows have sent_at, only delivered rows delivered_at, only     *)
(* failed rows an error; also after a lease_timeout is corrected by        *)
(* "delivered" alone, and after a save from a stale copy.                  *)
RowConsistent(row) ==
  /\ row.status \in {"sent", "delivered"} => row.sent
  /\ row.delivered <=> row.status = "delivered"
  /\ row.error # "" <=> row.status = "failed"
  /\ row.status \in Unclaimed \cup {"dispatched"} => ~row.sent

RowsConsistent == \A m \in Msgs : RowConsistent(rows[m])

(* Rows and events claim only what the phone did: sent_at means the SMS    *)
(* went out, delivered that its receipt came, send_failed that the phone   *)
(* reported a failure, and the same of each event enqueued.                *)
NothingInvented ==
  \A m \in Msgs :
    /\ rows[m].sent \/ outbox[m]["sent"] > 0 => radio[m] > 0
    /\ rows[m].delivered \/ outbox[m]["delivered"] > 0 => phone[m] = "delivered"
    /\ rows[m].error = "send_failed" \/ outbox[m]["failed"] > 0
         => phone[m] \in {"failed", "undelivered"}

(* However many housekeeping runs overlap, a message expires once, is told *)
(* so once, and only if no other end (cancel, claim) came first.           *)
ExpiredEventOnce ==
  \A m \in Msgs : /\ outbox[m]["expired"] <= 1
                  /\ outbox[m]["expired"] = 1 => rows[m].status = "expired"

(* canceled and expired are final: no report, cancel, claim or             *)
(* housekeeping run, whatever it read before, changes such a row again.    *)
FinalRows ==
  [][\A m \in Msgs : rows[m].status \in {"canceled", "expired"} => rows'[m] = rows[m]]_vars

(* When the reports on a message come one at a time each event is enqueued *)
(* at most once, however often the phone repeats a report.                 *)
EventOnce == ~Overlap => \A m \in Msgs, e \in Events : outbox[m][e] <= 1

Presumed(row) == row.status = "failed" /\ row.error = "lease_timeout"

Untold(m, e) ==
  \/ \E r \in Reports : report[r].at = "notify" /\ report[r].msg = m /\ report[r].want = e
  \/ e = "expired" /\ \E k \in Runs : m \in run[k].untold

(* While no process dies between its save and its enqueue, the status a    *)
(* row shows has been told or some thread is about to tell it, except for  *)
(* the lease timeouts, which the reclaim statement tells nobody.           *)
NoLostEvent ==
  "crash" \notin Faults =>
    \A m \in Msgs : rows[m].status \in Events /\ ~Presumed(rows[m]) =>
      outbox[m][rows[m].status] > 0 \/ Untold(m, rows[m].status)

Stage == [m \in Msgs |->
  IF Presumed(rows[m]) THEN "presumed"
  ELSE IF rows[m].status = "dispatched" THEN "sending" ELSE rows[m].status]

L == INSTANCE Lifecycle WITH stage <- Stage

(* With reports one at a time per message, every step of the whole system  *)
(* moves messages along the edges of the public lifecycle.                 *)
Refines == L!Spec

(* A message leaves "queued" and "sending": the phone may be dead, the     *)
(* campaign paused and the device inactive, housekeeping settles it.       *)
EverySettles ==
  \A m \in Msgs : rows[m].status \in {"queued", "dispatched"}
                    ~> rows[m].status \notin {"queued", "dispatched"}

(* A delivery the phone knows of ends up in the row, even when the lease   *)
(* lapsed and the row said "failed" before the phone could report.         *)
TruthPrevails ==
  \A m \in Msgs : phone[m] = "delivered" ~> rows[m].status = "delivered"
-----------------------------------------------------------------------------
(* What documents say and the code does not do.                            *)

(* A message can only expire when it could have been sent (openapi.yaml:   *)
(* send_at schedules for later): its time has come before its ttl ends.    *)
ExpireOnlyAfterDue == \A m \in Msgs : rows[m].status = "expired" => left[m].due = 0

(* Every status a row settles in is told by a webhook, or will be by a     *)
(* thread that is at it (README: "retried delivery on status               *)
(* transitions").                                                          *)
EveryFailureTold ==
  \A m \in Msgs : rows[m].status = "failed" =>
    outbox[m]["failed"] > 0 \/ Untold(m, "failed")

(* A failure the device reported is never undone                           *)
(* (test_dispatch_service.py: "a real send_failed must stay failed").      *)
GenuineFailureStays ==
  [][\A m \in Msgs : rows[m].status = "failed" /\ ~Presumed(rows[m])
       => rows'[m].status = "failed"]_vars
=============================================================================
