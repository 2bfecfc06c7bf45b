--------------------------- MODULE DispatchProofs ---------------------------
(***************************************************************************)
(* What holds of Dispatch for every set of messages, devices, connections, *)
(* threads and housekeeping runs, for every batch size, lease, ttl and     *)
(* delay, with overlapping reports and with every fault.                   *)
(***************************************************************************)
EXTENDS Dispatch, TLAPS

LEMMA CountDownType == \A n \in Nat : CountDown(n) \in Nat
  BY DEF CountDown

LEMMA RowType ==
  ASSUME NEW row \in Row
  PROVE  /\ \A s \in Status : [row EXCEPT !.status = s] \in Row
         /\ \A want \in Events : Saved(row, want) \in Row
         /\ [row EXCEPT !.status = "failed", !.error = "lease_timeout"] \in Row
  BY DEF Row, Saved, Status, Errors, Events

LEMMA SetStatusType ==
  ASSUME rows \in [Msgs -> Row], NEW S, NEW s \in Status, SetStatus(S, s)
  PROVE  rows' \in [Msgs -> Row]
  BY RowType DEF SetStatus

LEMMA EnqueueType ==
  ASSUME outbox \in [Msgs -> [Events -> Nat]], NEW m \in Msgs, NEW e \in Events, Enqueue(m, e)
  PROVE  outbox' \in [Msgs -> [Events -> Nat]]
  BY DEF Enqueue

LEMMA RunType ==
  ASSUME run \in [Runs -> RunState], NEW k \in Runs
  PROVE  /\ \A S, T \in SUBSET Msgs :
              [run EXCEPT ![k].overdue = S, ![k].untold = T] \in [Runs -> RunState]
         /\ [run EXCEPT ![k].untold = {}] \in [Runs -> RunState]
<1>1. ASSUME NEW S \in SUBSET Msgs, NEW T \in SUBSET Msgs
      PROVE  [run EXCEPT ![k].overdue = S, ![k].untold = T] \in [Runs -> RunState]
  <2>1. \A x \in RunState : [x EXCEPT !.overdue = S, !.untold = T] \in RunState
    BY DEF RunState
  <2>2. [run EXCEPT ![k].overdue = S, ![k].untold = T]
           = [run EXCEPT ![k] = [run[k] EXCEPT !.overdue = S, !.untold = T]]
    OBVIOUS
  <2> QED BY <2>1, <2>2
<1>2. [run EXCEPT ![k].untold = {}] \in [Runs -> RunState]
  <2>1. \A x \in RunState : [x EXCEPT !.untold = {}] \in RunState
    BY DEF RunState
  <2>2. [run EXCEPT ![k].untold = {}] = [run EXCEPT ![k] = [run[k] EXCEPT !.untold = {}]]
    OBVIOUS
  <2> QED BY <2>1, <2>2
<1> QED BY <1>1, <1>2

LEMMA TypeInit == Init => TypeOK
<1>1. NewRow \in Row
  BY DEF NewRow, Row, Status, Errors
<1>2. IdlePoll \in PollState
  BY DEF IdlePoll, PollState
<1>3. IdleRun \in RunState
  BY DEF IdleRun, RunState
<1>4. [m \in Msgs |-> [e \in Events |-> 0]] \in [Msgs -> [Events -> Nat]]
  OBVIOUS
<1>5. [r \in Reports |-> IdleReport] \in [Reports -> {IdleReport} \cup Copy]
  OBVIOUS
<1>6. [ttl |-> 0, due |-> 0, lease |-> 0] \in Deadlines
  BY DEF Deadlines
<1> SUFFICES ASSUME Init PROVE TypeOK
  OBVIOUS
<1>7. rows \in [Msgs -> Row] /\ left \in [Msgs -> Deadlines]
  BY <1>1, <1>6 DEF Init
<1>8. poll \in [Conns -> PollState] /\ run \in [Runs -> RunState]
  BY <1>2, <1>3 DEF Init
<1>9. outbox \in [Msgs -> [Events -> Nat]] /\ report \in [Reports -> {IdleReport} \cup Copy]
  BY <1>4, <1>5 DEF Init
<1>10. radio \in [Msgs -> Nat] /\ phone \in [Msgs -> PhoneStates]
  BY DEF Init, PhoneStates
<1>11. active \in [Devices -> BOOLEAN] /\ gate = "open" /\ control = "idle"
  BY DEF Init
<1> QED
  BY <1>7, <1>8, <1>9, <1>10, <1>11 DEF TypeOK

LEMMA TypeStep == TypeOK /\ [Next]_vars => TypeOK'
<1> SUFFICES ASSUME TypeOK, [Next]_vars PROVE TypeOK'
  OBVIOUS
<1> USE DispatchAssumption
<1>1. ASSUME NEW S \in Batches, NEW t \in Ttls, NEW d \in Delays, Insert(S, t, d)
      PROVE  TypeOK'
  <2>1. rows' \in [Msgs -> Row]
    BY <1>1, SetStatusType DEF TypeOK, Insert, Status
  <2>2. left' \in [Msgs -> Deadlines]
    BY <1>1 DEF TypeOK, Insert, Deadlines
  <2> QED BY <1>1, <2>1, <2>2 DEF TypeOK, Insert
<1>2. ASSUME NEW m \in Msgs, MessageCancel(m) PROVE TypeOK'
  <2>1. rows' \in [Msgs -> Row]
    BY <1>2, SetStatusType DEF TypeOK, MessageCancel, Status
  <2> QED BY <1>2, <2>1 DEF TypeOK, MessageCancel
<1>2a. ASSUME NEW S \in SUBSET Msgs, CancelQueued(S) PROVE TypeOK'
  <2>1. rows' \in [Msgs -> Row]
    BY <1>2a, SetStatusType DEF TypeOK, CancelQueued, Status
  <2> QED BY <1>2a, <2>1 DEF TypeOK, CancelQueued
<1>3. ASSUME NEW g \in {"open", "shut"}, ControlSave(g) PROVE TypeOK'
  BY <1>3 DEF TypeOK, ControlSave
<1>4. CASE ControlCancelMessages
  <2>1. rows' \in [Msgs -> Row]
    BY <1>4, SetStatusType DEF TypeOK, ControlCancelMessages, Status
  <2> QED BY <1>4, <2>1 DEF TypeOK, ControlCancelMessages
<1>5. CASE ControlCancelSave
  BY <1>5 DEF TypeOK, ControlCancelSave
<1>6. ASSUME NEW d \in Devices, NEW a \in BOOLEAN, DeviceAction(d, a) PROVE TypeOK'
  BY <1>6 DEF TypeOK, DeviceAction
<1>7. ASSUME NEW c \in Conns, PollStart(c) PROVE TypeOK'
  BY <1>7 DEF TypeOK, PollStart, PollState
<1>8. ASSUME NEW c \in Conns, ClaimJobs(c) PROVE TypeOK'
  <2> DEFINE ids == FirstBatch(Claimable(Owner[c]))
  <2>1. ids \subseteq Msgs
    <3>1. Claimable(Owner[c]) \subseteq Msgs
      BY DEF Claimable, InStatus
    <3>2. \A S : FirstBatch(S) \subseteq S
      BY Zenon DEF FirstBatch
    <3> QED BY <3>1, <3>2, Zenon
  <2>2. rows' \in [Msgs -> Row]
    <3>1. SetStatus(ids, "dispatched")
      BY <1>8 DEF ClaimJobs
    <3> HIDE DEF ids
    <3> QED BY <3>1, SetStatusType DEF TypeOK, Status
  <2>3. left' \in [Msgs -> Deadlines]
    <3>1. left' = [m \in Msgs |-> IF m \in ids THEN [left[m] EXCEPT !.lease = LeaseTime]
                                  ELSE left[m]]
      BY <1>8 DEF ClaimJobs
    <3>2. \A x \in Deadlines : [x EXCEPT !.lease = LeaseTime] \in Deadlines
      BY DEF DispatchAssumption, Deadlines
    <3> HIDE DEF ids
    <3> QED BY <3>1, <3>2 DEF TypeOK
  <2>4. poll' \in [Conns -> PollState]
    <3>1. poll' = [poll EXCEPT ![c] = [at |-> "reply", jobs |-> ids]]
      BY <1>8 DEF ClaimJobs
    <3> HIDE DEF ids
    <3> QED BY <2>1, <3>1 DEF TypeOK, PollState
  <2>5. UNCHANGED <<gate, control, active, report, run, phone, radio, outbox>>
    BY <1>8 DEF ClaimJobs
  <2> QED BY <2>2, <2>3, <2>4, <2>5 DEF TypeOK
<1>9. ASSUME NEW c \in Conns, PollTimeout(c) PROVE TypeOK'
  BY <1>9 DEF TypeOK, PollTimeout, PollState, IdlePoll
<1>10. ASSUME NEW c \in Conns, PollReply(c) PROVE TypeOK'
  BY <1>10 DEF TypeOK, PollReply, PollState, IdlePoll, PhoneStates
<1>11. ASSUME NEW c \in Conns, PollReplyLost(c) PROVE TypeOK'
  BY <1>11 DEF TypeOK, PollReplyLost, PollState, IdlePoll
<1>12. ASSUME NEW r \in Reports, NEW m \in Msgs, NEW want \in Events, ReportRead(r, m, want)
       PROVE  TypeOK'
  BY <1>12 DEF TypeOK, ReportRead, Copy
<1>13. ASSUME NEW r \in Reports, ReportSave(r) PROVE TypeOK'
  <2>1. report[r] \in Copy
    BY <1>13 DEF TypeOK, ReportSave, IdleReport
  <2>2. Saved(report[r].row, report[r].want) \in Row
    BY <2>1, RowType DEF Copy
  <2>3. rows' \in [Msgs -> Row]
    BY <1>13, <2>1, <2>2 DEF TypeOK, ReportSave, Copy
  <2>4. report' \in [Reports -> {IdleReport} \cup Copy]
    BY <1>13, <2>1 DEF TypeOK, ReportSave, Copy
  <2> QED BY <1>13, <2>3, <2>4 DEF TypeOK, ReportSave
<1>14. ASSUME NEW r \in Reports, ReportNotify(r) PROVE TypeOK'
  <2>1. report[r] \in Copy
    BY <1>14 DEF TypeOK, ReportNotify, IdleReport
  <2>2. outbox' \in [Msgs -> [Events -> Nat]]
    BY <1>14, <2>1, EnqueueType DEF TypeOK, ReportNotify, Copy
  <2> QED BY <1>14, <2>2 DEF TypeOK, ReportNotify
<1>15. ASSUME NEW r \in Reports, ReportCrash(r) PROVE TypeOK'
  BY <1>15 DEF TypeOK, ReportCrash
<1>16. ASSUME NEW k \in Runs, RunStart(k) PROVE TypeOK'
  BY <1>16 DEF TypeOK, RunStart, RunState, Overdue, Lapsed, InStatus
<1>17. ASSUME NEW k \in Runs, NEW m \in Msgs, RunExpire(k, m) PROVE TypeOK'
  <2>1. rows' \in [Msgs -> Row]
    <3>1. SetStatus({m} \cap InStatus("queued"), "expired")
      BY <1>17 DEF RunExpire
    <3> QED BY <3>1, SetStatusType DEF TypeOK, Status
  <2>2. run' \in [Runs -> RunState]
    <3>1. {m} \cap InStatus("queued") \in SUBSET Msgs
      BY DEF InStatus
    <3>2. run' = [run EXCEPT ![k].overdue = @ \ {m},
                             ![k].untold = {m} \cap InStatus("queued")]
      BY <1>17 DEF RunExpire
    <3>3. run[k].overdue \ {m} \in SUBSET Msgs /\ run \in [Runs -> RunState]
      BY DEF TypeOK, RunState
    <3> DEFINE S == run[k].overdue \ {m}
               T == {m} \cap InStatus("queued")
    <3>4. [run EXCEPT ![k].overdue = S, ![k].untold = T] \in [Runs -> RunState]
      <4>1. S \in SUBSET Msgs /\ T \in SUBSET Msgs
        BY <3>1, <3>3
      <4> HIDE DEF S, T
      <4> QED BY <4>1, <3>3, RunType
    <3> QED BY <3>2, <3>4
  <2> QED BY <1>17, <2>1, <2>2 DEF TypeOK, RunExpire
<1>18. ASSUME NEW k \in Runs, NEW m \in Msgs, RunNotify(k, m) PROVE TypeOK'
  <2>1. outbox' \in [Msgs -> [Events -> Nat]]
    BY <1>18, EnqueueType DEF TypeOK, RunNotify, Events
  <2>2. run' \in [Runs -> RunState]
    <3>1. run \in [Runs -> RunState] /\ run' = [run EXCEPT ![k].untold = {}]
      BY <1>18 DEF TypeOK, RunNotify
    <3> QED BY <3>1, RunType
  <2> QED BY <1>18, <2>1, <2>2 DEF TypeOK, RunNotify
<1>19. ASSUME NEW k \in Runs, RunReclaim(k) PROVE TypeOK'
  <2>1. rows' \in [Msgs -> Row]
    BY <1>19, RowType DEF TypeOK, RunReclaim
  <2> QED BY <1>19, <2>1 DEF TypeOK, RunReclaim, RunState, IdleRun
<1>20. ASSUME NEW k \in Runs, RunCrash(k) PROVE TypeOK'
  BY <1>20 DEF TypeOK, RunCrash, RunState, IdleRun
<1>21. ASSUME NEW m \in Msgs, NEW ok \in BOOLEAN, PhoneSend(m, ok) PROVE TypeOK'
  BY <1>21 DEF TypeOK, PhoneSend, PhoneStates
<1>22. ASSUME NEW m \in Msgs, NEW ok \in BOOLEAN, PhoneReceipt(m, ok) PROVE TypeOK'
  BY <1>22 DEF TypeOK, PhoneReceipt, PhoneStates
<1>23. ASSUME NEW d \in Devices, PhoneDies(d) PROVE TypeOK'
  BY <1>23 DEF TypeOK, PhoneDies, PhoneStates
<1>24. CASE Tick
  BY <1>24, CountDownType DEF TypeOK, Tick, Deadlines
<1>25. CASE UNCHANGED vars
  BY <1>25 DEF TypeOK, vars
<1> QED
  BY <1>1, <1>2, <1>2a, <1>3, <1>4, <1>5, <1>6, <1>7, <1>8, <1>9, <1>10, <1>11, <1>12, <1>13, <1>14,
     <1>15, <1>16, <1>17, <1>18, <1>19, <1>20, <1>21, <1>22, <1>23, <1>24, <1>25
  DEF Next, Developer, Polling, Reporting, Progress, Phone

(* Type correctness: every variable keeps its shape, and every deadline    *)
(* counts down to 0 and stays there.                                       *)
THEOREM TypeCorrect == Spec => []TypeOK
  BY TypeInit, TypeStep, PTL DEF Spec
-----------------------------------------------------------------------------
(* The inductive invariant behind the safety properties, in four parts.    *)

(* Where a message is: with nobody, on one poll's reply, or with the       *)
(* phone; the SMS is out exactly when the phone says so.                   *)
Hands ==
  /\ \A m \in Msgs :
       /\ rows[m].status \in Unclaimed =>
            phone[m] = "none" /\ (\A c \in Conns : m \notin poll[c].jobs)
       /\ \A c \in Conns : m \in poll[c].jobs =>
            phone[m] = "none" /\ \A d \in Conns : m \in poll[d].jobs => d = c
       /\ radio[m] = IF phone[m] \in {"sent", "delivered", "undelivered"} THEN 1 ELSE 0
  /\ \A c \in Conns : poll[c].at # "reply" => poll[c].jobs = {}

(* What a row may say of message m, given what the phone did.              *)
Truthful(m, row) ==
  /\ row.sent => radio[m] > 0
  /\ row.delivered => phone[m] = "delivered"
  /\ row.error = "send_failed" => phone[m] \in {"failed", "undelivered"}

(* A thread serves a report the phone may make, of a claimed message, and  *)
(* the copy it is to save was read in a status that lets the report in.    *)
Copies ==
  \A r \in Reports : report[r].at # "idle" =>
    /\ report[r].want \in Outcomes(phone[report[r].msg])
    /\ rows[report[r].msg].status \notin Unclaimed
    /\ report[r].at = "save" =>
         /\ RowConsistent(report[r].row)
         /\ report[r].row.sent => radio[report[r].msg] > 0
         /\ report[r].row.status \in Allowed(report[r].want) \/ Recovering(report[r].row)

Truth ==
  \A m \in Msgs :
    /\ RowConsistent(rows[m])
    /\ Truthful(m, rows[m])
    /\ outbox[m]["sent"] > 0 => radio[m] > 0
    /\ outbox[m]["delivered"] > 0 => phone[m] = "delivered"
    /\ outbox[m]["failed"] > 0 => phone[m] \in {"failed", "undelivered"}

(* An expired message is about to be told by one run, or was told once.    *)
Expiry ==
  \A m \in Msgs :
    /\ \A k \in Runs : m \in run[k].untold =>
         /\ rows[m].status = "expired" /\ outbox[m]["expired"] = 0
         /\ \A l \in Runs : m \in run[l].untold => l = k
    /\ outbox[m]["expired"] <= 1
    /\ outbox[m]["expired"] = 1 => rows[m].status = "expired"

IInv == TypeOK /\ Hands /\ Copies /\ Truth /\ Expiry
-----------------------------------------------------------------------------
LEMMA IInit == Init => IInv
<1> SUFFICES ASSUME Init PROVE IInv
  OBVIOUS
<1>1. TypeOK
  BY TypeInit
<1>2. Hands
  BY DEF Hands, Init, IdlePoll
<1>3. Copies
  BY DEF Copies, Init, IdleReport
<1>4. Truth
  <2> SUFFICES ASSUME NEW m \in Msgs
               PROVE  /\ RowConsistent(rows[m]) /\ Truthful(m, rows[m])
                      /\ \A e \in Events : outbox[m][e] = 0
    BY DEF Truth, Events
  <2>1. rows[m] = NewRow /\ outbox[m] = [e \in Events |-> 0]
    BY DEF Init
  <2>2. RowConsistent(NewRow) /\ Truthful(m, NewRow)
    BY DEF RowConsistent, Truthful, NewRow, Unclaimed
  <2> QED BY <2>1, <2>2
<1>5. Expiry
  BY DEF Expiry, Init, IdleRun, Events
<1> QED BY <1>1, <1>2, <1>3, <1>4, <1>5 DEF IInv

LEMMA StatusOnly ==
  ASSUME NEW row \in Row, NEW s, NEW x, x = [row EXCEPT !.status = s]
  PROVE  x.status = s /\ x.sent = row.sent /\ x.delivered = row.delivered /\ x.error = row.error
BY DEF Row

LEMMA QueuedConsistent ==
  ASSUME NEW row \in Row, RowConsistent(row), row.status \in {"none", "queued"},
         NEW s \in Unclaimed \cup {"dispatched"},
         NEW x, x = [row EXCEPT !.status = s]
  PROVE  RowConsistent(x)
<1>1. x.status = s /\ x.sent = row.sent /\ x.delivered = row.delivered /\ x.error = row.error
  BY StatusOnly
<1> QED BY <1>1 DEF RowConsistent, Unclaimed

(* The rows of S were queued, or not there, and become s, a status of a    *)
(* message nobody was given: what insert, cancel and expire do.            *)
LEMMA QueuedMoves ==
  ASSUME TypeOK, Hands, Copies, Truth,
         NEW S \in SUBSET Msgs, \A m \in S : rows[m].status \in {"none", "queued"},
         NEW s \in {"queued", "expired", "canceled"},
         SetStatus(S, s), UNCHANGED <<poll, report, phone, radio, outbox>>
  PROVE  Hands' /\ Copies' /\ Truth'
<1>1. \A m \in Msgs : /\ rows[m] \in Row
                      /\ m \in S => rows'[m] = [rows[m] EXCEPT !.status = s]
                      /\ m \notin S => rows'[m] = rows[m]
  BY DEF SetStatus, TypeOK
<1>2. \A m \in Msgs : /\ rows'[m].status \in Unclaimed <=> rows[m].status \in Unclaimed
                      /\ rows'[m].sent = rows[m].sent
                      /\ rows'[m].delivered = rows[m].delivered
                      /\ rows'[m].error = rows[m].error
  <2> TAKE m \in Msgs
  <2>1. CASE m \notin S
    BY <1>1, <2>1
  <2>2. CASE m \in S
    <3>1. rows[m] \in Row /\ rows'[m] = [rows[m] EXCEPT !.status = s]
      BY <1>1, <2>2
    <3>2. /\ rows'[m].status = s /\ rows'[m].sent = rows[m].sent
          /\ rows'[m].delivered = rows[m].delivered /\ rows'[m].error = rows[m].error
      BY <3>1, StatusOnly
    <3> QED BY <2>2, <3>2 DEF Unclaimed
  <2> QED BY <2>1, <2>2
<1>3. Hands'
  BY <1>2 DEF Hands
<1>4. Copies'
  <2> SUFFICES ASSUME NEW r \in Reports, report[r].at # "idle"
               PROVE  rows'[report[r].msg].status \notin Unclaimed
    BY DEF Copies, Outcomes
  <2>1. report[r].msg \in Msgs
    BY DEF TypeOK, Copy, IdleReport
  <2> QED BY <1>2, <2>1 DEF Copies
<1>5. \A m \in Msgs : RowConsistent(rows'[m])
  <2> TAKE m \in Msgs
  <2>1. CASE m \notin S
    BY <1>1, <2>1 DEF Truth
  <2>2. CASE m \in S
    <3>1. rows[m] \in Row /\ rows'[m] = [rows[m] EXCEPT !.status = s] /\ RowConsistent(rows[m])
      BY <1>1, <2>2 DEF Truth
    <3>2. s \in Unclaimed
      BY DEF Unclaimed
    <3> QED BY <2>2, <3>1, <3>2, QueuedConsistent
  <2> QED BY <2>1, <2>2
<1>6. Truth'
  BY <1>2, <1>5 DEF Truth, Truthful
<1> QED BY <1>3, <1>4, <1>6

(* Steps that touch nothing the first three parts read.                    *)
LEMMA Elsewhere ==
  ASSUME Hands, Copies, Truth, UNCHANGED <<rows, poll, report, phone, radio, outbox>>
  PROVE  Hands' /\ Copies' /\ Truth'
BY DEF Hands, Copies, Truth, Truthful, Outcomes

(* Steps of the phone's side: what may be reported grows, the radio counts *)
(* up, and an outcome stays what it is.                                    *)
LEMMA PhoneMoves ==
  ASSUME TypeOK, Copies, Truth, UNCHANGED <<rows, report, outbox>>,
         \A m \in Msgs : /\ Outcomes(phone[m]) \subseteq Outcomes(phone'[m])
                         /\ radio[m] > 0 => radio'[m] > 0
                         /\ phone[m] \in {"delivered", "failed", "undelivered"}
                              => phone'[m] = phone[m]
  PROVE  Copies' /\ Truth'
<1>1. Copies'
  <2> SUFFICES ASSUME NEW r \in Reports, report[r].at # "idle"
               PROVE  /\ report[r].want \in Outcomes(phone'[report[r].msg])
                      /\ report[r].at = "save" =>
                           (report[r].row.sent => radio'[report[r].msg] > 0)
    BY DEF Copies
  <2>1. report[r].msg \in Msgs
    BY DEF TypeOK, Copy, IdleReport
  <2> QED BY <2>1 DEF Copies
<1>2. Truth'
  <2>1. \A m \in Msgs : rows'[m] = rows[m] /\ outbox'[m] = outbox[m]
    OBVIOUS
  <2>2. \A m \in Msgs : Truthful(m, rows[m])'
    BY <2>1 DEF Truth, Truthful
  <2> QED BY <2>1, <2>2 DEF Truth
<1> QED BY <1>1, <1>2

LEMMA ReplyStep ==
  ASSUME TypeOK, Hands, Copies, Truth, NEW c \in Conns, PollReply(c)
  PROVE  Hands' /\ Copies' /\ Truth'
<1>1. \A m \in Msgs : phone'[m] = IF m \in poll[c].jobs THEN "held" ELSE phone[m]
  BY DEF PollReply
<1>2. \A m \in poll[c].jobs : phone[m] = "none" /\ rows[m].status \notin Unclaimed
  BY DEF Hands, TypeOK, PollState
<1>3. /\ poll'[c] = IdlePoll
      /\ \A d \in Conns \ {c} : poll'[d] = poll[d]
  BY DEF PollReply, TypeOK
<1>4. Hands'
  <2>1. \A d \in Conns, m \in Msgs :
          m \in poll'[d].jobs => m \in poll[d].jobs /\ d # c /\ m \notin poll[c].jobs
    BY <1>3 DEF IdlePoll, Hands
  <2>2. \A d \in Conns : poll'[d].at # "reply" => poll'[d].jobs = {}
    BY <1>3 DEF IdlePoll, Hands
  <2>3. UNCHANGED <<rows, radio>>
    BY DEF PollReply
  <2> QED BY <1>1, <1>2, <2>1, <2>2, <2>3 DEF Hands
<1>5. \A m \in Msgs : Outcomes(phone[m]) \subseteq Outcomes(phone'[m])
  BY <1>1, <1>2 DEF Outcomes
<1>6. UNCHANGED <<rows, report, outbox, radio>>
  BY DEF PollReply
<1>7. \A m \in Msgs : phone[m] \in {"delivered", "failed", "undelivered"} => phone'[m] = phone[m]
  BY <1>1, <1>2
<1> QED BY <1>4, <1>5, <1>6, <1>7, PhoneMoves

LEMMA ClaimStep ==
  ASSUME TypeOK, Hands, Copies, Truth, NEW c \in Conns, ClaimJobs(c)
  PROVE  Hands' /\ Copies' /\ Truth'
<1> DEFINE ids == FirstBatch(Claimable(Owner[c]))
<1>1. ids \in SUBSET Msgs /\ \A m \in ids : rows[m].status = "queued"
  <2>1. \A m \in Claimable(Owner[c]) : m \in Msgs /\ rows[m].status = "queued"
    BY DEF Claimable, InStatus
  <2>2. \A S : FirstBatch(S) \subseteq S
    BY Zenon DEF FirstBatch
  <2> QED BY <2>1, <2>2, Zenon
<1>2. /\ SetStatus(ids, "dispatched")
      /\ poll' = [poll EXCEPT ![c] = [at |-> "reply", jobs |-> ids]]
      /\ poll[c].at = "loop"
      /\ UNCHANGED <<report, phone, radio, outbox>>
  BY DEF ClaimJobs
<1> HIDE DEF ids
<1>3. \A m \in Msgs : /\ m \in ids => rows'[m] = [rows[m] EXCEPT !.status = "dispatched"]
                      /\ m \notin ids => rows'[m] = rows[m]
                      /\ rows[m] \in Row
  BY <1>2 DEF SetStatus, TypeOK
<1>4. ASSUME NEW m \in ids
      PROVE  /\ rows'[m].status = "dispatched" /\ rows'[m].sent = rows[m].sent
             /\ rows'[m].delivered = rows[m].delivered /\ rows'[m].error = rows[m].error
             /\ RowConsistent(rows'[m])
  <2>1. m \in Msgs /\ rows[m] \in Row /\ rows'[m] = [rows[m] EXCEPT !.status = "dispatched"]
    BY <1>1, <1>3
  <2>2. RowConsistent(rows[m]) /\ rows[m].status \in {"none", "queued"}
    BY <1>1, <2>1 DEF Truth
  <2> QED BY <2>1, <2>2, StatusOnly, QueuedConsistent
<1>5. /\ poll'[c].at = "reply" /\ poll'[c].jobs = ids /\ poll[c].jobs = {}
      /\ \A d \in Conns \ {c} : poll'[d] = poll[d]
  BY <1>2 DEF TypeOK, Hands
<1>6. Hands'
  <2>1. \A m \in ids : phone[m] = "none" /\ \A d \in Conns : m \notin poll[d].jobs
    BY <1>1 DEF Hands, Unclaimed
  <2>2. \A d \in Conns : poll'[d].at # "reply" => poll'[d].jobs = {}
    BY <1>5 DEF Hands
  <2>3. \A m \in Msgs : rows'[m].status \in Unclaimed => m \notin ids /\ rows[m].status \in Unclaimed
    BY <1>3, <1>4 DEF Unclaimed
  <2>4. \A m \in Msgs, d \in Conns : m \in poll'[d].jobs =>
          \/ d = c /\ m \in ids
          \/ d # c /\ m \in poll[d].jobs /\ m \notin ids
    BY <1>5, <2>1
  <2>5. ASSUME NEW m \in Msgs, rows'[m].status \in Unclaimed
        PROVE  phone'[m] = "none" /\ \A d \in Conns : m \notin poll'[d].jobs
    BY <1>2, <2>3, <2>4, <2>5 DEF Hands
  <2>6. ASSUME NEW m \in Msgs, NEW d \in Conns, m \in poll'[d].jobs
        PROVE  phone'[m] = "none" /\ \A e \in Conns : m \in poll'[e].jobs => e = d
    BY <1>2, <2>1, <2>4, <2>6 DEF Hands
  <2> QED BY <1>2, <2>2, <2>5, <2>6 DEF Hands
<1>7. Copies'
  <2> SUFFICES ASSUME NEW r \in Reports, report[r].at # "idle"
               PROVE  rows'[report[r].msg].status \notin Unclaimed
    BY <1>2 DEF Copies, Outcomes
  <2>1. report[r].msg \in Msgs
    BY DEF TypeOK, Copy, IdleReport
  <2> QED BY <1>3, <1>4, <2>1 DEF Copies, Unclaimed
<1>8. Truth'
  <2>1. \A m \in Msgs : RowConsistent(rows'[m])
    BY <1>3, <1>4 DEF Truth
  <2>2. \A m \in Msgs : /\ rows'[m].sent = rows[m].sent /\ rows'[m].delivered = rows[m].delivered
                        /\ rows'[m].error = rows[m].error
    BY <1>3, <1>4
  <2> QED BY <1>2, <2>1, <2>2 DEF Truth, Truthful
<1> QED BY <1>6, <1>7, <1>8

(* Starting, giving up or losing a poll hands nothing out.                 *)
LEMMA PollSteps ==
  ASSUME TypeOK, Hands, Copies, Truth, NEW c \in Conns,
         PollStart(c) \/ PollTimeout(c) \/ PollReplyLost(c)
  PROVE  Hands' /\ Copies' /\ Truth'
<1>1. UNCHANGED <<rows, report, phone, radio, outbox>>
  BY DEF PollStart, PollTimeout, PollReplyLost
<1>2. Copies' /\ Truth'
  BY <1>1, PhoneMoves
<1>3. \A d \in Conns : /\ poll'[d].jobs \subseteq poll[d].jobs
                       /\ poll'[d].at # "reply" => poll'[d].jobs = {}
  <2>1. CASE PollStart(c)
    BY <2>1 DEF PollStart, TypeOK, PollState, Hands
  <2>2. CASE poll' = [poll EXCEPT ![c] = IdlePoll]
    BY <2>2 DEF IdlePoll, TypeOK, PollState, Hands
  <2> QED BY <2>1, <2>2 DEF PollTimeout, PollReplyLost
<1>4. Hands'
  BY <1>1, <1>3 DEF Hands
<1> QED BY <1>2, <1>4

LEMMA PhoneSteps ==
  ASSUME TypeOK, Hands, Copies, Truth,
         \/ \E m \in Msgs, ok \in BOOLEAN : PhoneSend(m, ok) \/ PhoneReceipt(m, ok)
         \/ \E d \in Devices : PhoneDies(d)
  PROVE  Hands' /\ Copies' /\ Truth'
<1>1. UNCHANGED <<rows, poll, report, outbox>>
  BY DEF PhoneSend, PhoneReceipt, PhoneDies
<1>2. \A m \in Msgs :
        \/ phone'[m] = phone[m] /\ radio'[m] = radio[m]
        \/ phone[m] = "held" /\ phone'[m] \in {"failed", "lost"} /\ radio'[m] = radio[m]
        \/ phone[m] = "held" /\ phone'[m] = "sent" /\ radio'[m] = radio[m] + 1
        \/ phone[m] = "sent" /\ phone'[m] \in {"delivered", "undelivered"} /\ radio'[m] = radio[m]
  BY DEF PhoneSend, PhoneReceipt, PhoneDies, TypeOK
<1>3. \A m \in Msgs : /\ Outcomes(phone[m]) \subseteq Outcomes(phone'[m])
                      /\ radio[m] > 0 => radio'[m] > 0
                      /\ phone[m] \in {"delivered", "failed", "undelivered"}
                           => phone'[m] = phone[m]
  BY <1>2 DEF Outcomes, TypeOK
<1>4. Copies' /\ Truth'
  BY <1>1, <1>3, PhoneMoves
<1>5. Hands'
  <2>1. \A m \in Msgs : phone[m] = "none" => phone'[m] = "none"
    BY <1>2
  <2>2. \A m \in Msgs :
          radio'[m] = IF phone'[m] \in {"sent", "delivered", "undelivered"} THEN 1 ELSE 0
    BY <1>2 DEF Hands
  <2> QED BY <1>1, <2>1, <2>2 DEF Hands
<1> QED BY <1>4, <1>5

LEMMA ReadStep ==
  ASSUME TypeOK, Hands, Copies, Truth,
         NEW r \in Reports, NEW m \in Msgs, NEW want \in Events, ReportRead(r, m, want)
  PROVE  Hands' /\ Copies' /\ Truth'
<1>1. UNCHANGED <<rows, poll, phone, radio, outbox>>
  BY DEF ReportRead
<1>2. Hands' /\ Truth'
  BY <1>1 DEF Hands, Truth, Truthful
<1>3. /\ report'[r] = [at |-> "save", msg |-> m, want |-> want, row |-> rows[m]]
      /\ \A q \in Reports \ {r} : report'[q] = report[q]
  BY DEF ReportRead, TypeOK
<1>4. want \in Outcomes(phone[m]) /\ (rows[m].status \in Allowed(want) \/ Recovering(rows[m]))
  BY DEF ReportRead
<1>5. RowConsistent(rows[m]) /\ (rows[m].sent => radio[m] > 0)
  BY DEF Truth, Truthful
<1>6. rows[m].status \notin Unclaimed
  BY <1>4 DEF Allowed, Recovering, Unclaimed, Events
<1>7. Copies'
  <2> SUFFICES ASSUME NEW q \in Reports, report'[q].at # "idle"
               PROVE  /\ report'[q].want \in Outcomes(phone[report'[q].msg])
                      /\ rows[report'[q].msg].status \notin Unclaimed
                      /\ report'[q].at = "save" =>
                           /\ RowConsistent(report'[q].row)
                           /\ report'[q].row.sent => radio[report'[q].msg] > 0
                           /\ \/ report'[q].row.status \in Allowed(report'[q].want)
                              \/ Recovering(report'[q].row)
    BY <1>1 DEF Copies
  <2>1. CASE q = r
    BY <1>3, <1>4, <1>5, <1>6, <2>1
  <2>2. CASE q # r
    BY <1>3, <2>2 DEF Copies
  <2> QED BY <2>1, <2>2
<1> QED BY <1>2, <1>7

(* What a report makes of the copy is a consistent, truthful, claimed row. *)
LEMMA SavedRow ==
  ASSUME NEW m \in Msgs, NEW row \in Row, NEW want \in Events,
         Hands, want \in Outcomes(phone[m]),
         RowConsistent(row), row.sent => radio[m] > 0,
         row.status \in Allowed(want) \/ Recovering(row)
  PROVE  /\ RowConsistent(Saved(row, want))
         /\ Truthful(m, Saved(row, want))
         /\ Saved(row, want).status = want
<1>1. want \in {"sent", "delivered", "failed"} /\ ~row.delivered /\ row.error # "send_failed"
  BY DEF Outcomes, RowConsistent, Allowed, Recovering, Events
<1>2. CASE want = "sent"
  <2>1. radio[m] > 0
    BY <1>2 DEF Hands, Outcomes
  <2> QED BY <1>1, <1>2, <2>1 DEF Saved, RowConsistent, Truthful, Row, Unclaimed
<1>3. CASE want = "delivered"
  <2>1. radio[m] > 0 /\ phone[m] = "delivered"
    BY <1>3 DEF Hands, Outcomes
  <2> QED BY <1>3, <2>1 DEF Saved, RowConsistent, Truthful, Row, Unclaimed
<1>4. CASE want = "failed"
  <2>1. phone[m] \in {"failed", "undelivered"}
    BY <1>4 DEF Outcomes
  <2> QED BY <1>1, <1>4, <2>1 DEF Saved, RowConsistent, Truthful, Row, Unclaimed
<1> QED BY <1>1, <1>2, <1>3, <1>4

LEMMA SaveStep ==
  ASSUME TypeOK, Hands, Copies, Truth, NEW r \in Reports, ReportSave(r)
  PROVE  Hands' /\ Copies' /\ Truth'
<1> DEFINE m == report[r].msg
           want == report[r].want
           new == Saved(report[r].row, want)
<1>1. report[r].at = "save" /\ m \in Msgs /\ want \in Events /\ report[r].row \in Row
  BY DEF ReportSave, TypeOK, Copy, IdleReport
<1>2. want \in Outcomes(phone[m]) /\ rows[m].status \notin Unclaimed
  BY <1>1 DEF Copies
<1>3. RowConsistent(new) /\ Truthful(m, new) /\ new.status = want
  <2>1. /\ RowConsistent(report[r].row) /\ (report[r].row.sent => radio[m] > 0)
        /\ report[r].row.status \in Allowed(want) \/ Recovering(report[r].row)
    BY <1>1 DEF Copies
  <2> QED BY <1>1, <1>2, <2>1, SavedRow
<1>4. /\ rows' = [rows EXCEPT ![m] = new] /\ report' = [report EXCEPT ![r].at = "notify"]
      /\ UNCHANGED <<poll, phone, radio, outbox>>
  BY DEF ReportSave
<1>5. new.status \notin Unclaimed
  BY <1>2, <1>3 DEF Outcomes, Unclaimed
<1> HIDE DEF new, want, m
<1>6. rows'[m] = new /\ \A n \in Msgs \ {m} : rows'[n] = rows[n]
  BY <1>1, <1>4 DEF TypeOK
<1>7. Hands'
  BY <1>4, <1>5, <1>6 DEF Hands
<1>8. Copies'
  <2>1. \A q \in Reports : /\ report'[q].at # "idle" => report[q].at # "idle"
                           /\ report'[q].at = "save" => report[q].at = "save"
                           /\ report'[q].at # "idle" => /\ report'[q].msg = report[q].msg
                                                       /\ report'[q].want = report[q].want
                                                       /\ report'[q].row = report[q].row
    BY <1>1, <1>4 DEF TypeOK, Copy, IdleReport
  <2>2. \A n \in Msgs : rows[n].status \notin Unclaimed => rows'[n].status \notin Unclaimed
    BY <1>5, <1>6
  <2>3. \A q \in Reports : report[q].at # "idle" => report[q].msg \in Msgs
    BY DEF TypeOK, Copy, IdleReport
  <2> QED BY <1>4, <2>1, <2>2, <2>3 DEF Copies
<1>9. Truth'
  BY <1>3, <1>4, <1>6 DEF Truth, Truthful
<1> QED BY <1>7, <1>8, <1>9

LEMMA NotifyStep ==
  ASSUME TypeOK, Hands, Copies, Truth, NEW r \in Reports, ReportNotify(r)
  PROVE  Hands' /\ Copies' /\ Truth'
<1>1. report[r].at = "notify" /\ report[r].msg \in Msgs /\ report[r].want \in Events
  BY DEF ReportNotify, TypeOK, Copy, IdleReport
<1>2. /\ Enqueue(report[r].msg, report[r].want) /\ report' = [report EXCEPT ![r] = IdleReport]
      /\ UNCHANGED <<rows, poll, phone, radio>>
  BY DEF ReportNotify
<1>3. report[r].want \in Outcomes(phone[report[r].msg])
  BY <1>1 DEF Copies
<1>4. Hands'
  BY <1>2 DEF Hands
<1>5. Copies'
  <2>1. \A q \in Reports : report'[q].at # "idle" => report'[q] = report[q]
    BY <1>2 DEF IdleReport, TypeOK
  <2> QED BY <1>2, <2>1 DEF Copies
<1>6. \A m \in Msgs, e \in Events :
        outbox'[m][e] # outbox[m][e] => m = report[r].msg /\ e = report[r].want
  BY <1>1, <1>2 DEF Enqueue, TypeOK
<1>7. Truth'
  <2> SUFFICES ASSUME NEW m \in Msgs
               PROVE  /\ outbox'[m]["sent"] > 0 => radio[m] > 0
                      /\ outbox'[m]["delivered"] > 0 => phone[m] = "delivered"
                      /\ outbox'[m]["failed"] > 0 => phone[m] \in {"failed", "undelivered"}
    BY <1>2 DEF Truth, Truthful
  <2>1. CASE outbox'[m]["sent"] # outbox[m]["sent"]
    BY <1>3, <1>6, <2>1 DEF Outcomes, Hands, Events, Truth
  <2>2. CASE outbox'[m]["delivered"] # outbox[m]["delivered"]
    BY <1>3, <1>6, <2>2 DEF Outcomes, Hands, Events, Truth
  <2>3. CASE outbox'[m]["failed"] # outbox[m]["failed"]
    BY <1>3, <1>6, <2>3 DEF Outcomes, Hands, Events, Truth
  <2> QED BY <1>6, <2>1, <2>2, <2>3 DEF Truth, Events
<1> QED BY <1>4, <1>5, <1>7

LEMMA CrashStep ==
  ASSUME TypeOK, Hands, Copies, Truth, NEW r \in Reports, ReportCrash(r)
  PROVE  Hands' /\ Copies' /\ Truth'
<1>1. UNCHANGED <<rows, poll, phone, radio, outbox>>
  BY DEF ReportCrash
<1>2. \A q \in Reports : report'[q].at # "idle" => report'[q] = report[q]
  BY DEF ReportCrash, IdleReport, TypeOK
<1> QED BY <1>1, <1>2 DEF Hands, Copies, Truth, Truthful

LEMMA ReclaimStep ==
  ASSUME TypeOK, Hands, Copies, Truth, NEW k \in Runs, RunReclaim(k)
  PROVE  Hands' /\ Copies' /\ Truth'
<1> DEFINE S == run[k].lapsed \cap InStatus("dispatched")
<1>1. UNCHANGED <<poll, report, phone, radio, outbox>>
  BY DEF RunReclaim
<1>2. ASSUME NEW m \in Msgs, m \notin S PROVE rows'[m] = rows[m]
  BY <1>2 DEF RunReclaim, TypeOK
<1>3. ASSUME NEW m \in Msgs, m \in S
      PROVE  /\ rows[m].status = "dispatched" /\ rows[m] \in Row
             /\ rows'[m] = [rows[m] EXCEPT !.status = "failed", !.error = "lease_timeout"]
  BY <1>3 DEF RunReclaim, InStatus, TypeOK
<1> HIDE DEF S
<1>4. \A m \in Msgs : /\ rows'[m].status \in Unclaimed <=> rows[m].status \in Unclaimed
                      /\ RowConsistent(rows'[m]) /\ Truthful(m, rows'[m])
  <2> SUFFICES ASSUME NEW m \in Msgs
               PROVE  /\ rows'[m].status \in Unclaimed <=> rows[m].status \in Unclaimed
                      /\ RowConsistent(rows'[m]) /\ Truthful(m, rows'[m])
    OBVIOUS
  <2>1. RowConsistent(rows[m]) /\ Truthful(m, rows[m])
    BY DEF Truth
  <2>2. CASE m \notin S
    BY <1>2, <2>1, <2>2
  <2>3. CASE m \in S
    <3>1. /\ rows'[m].status = "failed" /\ rows'[m].error = "lease_timeout"
          /\ rows'[m].sent = rows[m].sent /\ rows'[m].delivered = rows[m].delivered
      BY <1>3, <2>3 DEF Row
    <3> QED BY <1>3, <2>1, <2>3, <3>1 DEF RowConsistent, Truthful, Unclaimed
  <2> QED BY <2>2, <2>3
<1>5. Copies'
  <2>1. \A q \in Reports : report[q].at # "idle" => report[q].msg \in Msgs
    BY DEF TypeOK, Copy, IdleReport
  <2> QED BY <1>1, <1>4, <2>1 DEF Copies
<1> QED BY <1>1, <1>4, <1>5 DEF Hands, Truth, Truthful

(* The event a run enqueues is none of the device's.                       *)
LEMMA RunNotifyStep ==
  ASSUME TypeOK, Hands, Copies, Truth, NEW k \in Runs, NEW m \in Msgs, RunNotify(k, m)
  PROVE  Hands' /\ Copies' /\ Truth'
<1>1. UNCHANGED <<rows, poll, report, phone, radio>>
  BY DEF RunNotify
<1>2. \A n \in Msgs, e \in Events \ {"expired"} : outbox'[n][e] = outbox[n][e]
  BY DEF RunNotify, Enqueue, TypeOK
<1>3. Hands' /\ Copies'
  BY <1>1 DEF Hands, Copies
<1>4. Truth'
  BY <1>1, <1>2 DEF Truth, Truthful, Events
<1> QED BY <1>3, <1>4

LEMMA SafetyStep == TypeOK /\ Hands /\ Copies /\ Truth /\ [Next]_vars => Hands' /\ Copies' /\ Truth'
<1> SUFFICES ASSUME TypeOK, Hands, Copies, Truth, [Next]_vars
             PROVE  Hands' /\ Copies' /\ Truth'
  OBVIOUS
<1> DEFINE Goal == Hands' /\ Copies' /\ Truth'
<1>1. ASSUME NEW S \in Batches, NEW t \in Ttls, NEW d \in Delays, Insert(S, t, d) PROVE Goal
  <2>1. S \in SUBSET Msgs /\ \A n \in S : rows[n].status \in {"none", "queued"}
    BY <1>1, DispatchAssumption DEF Insert, Batches
  <2> QED BY <1>1, <2>1, QueuedMoves DEF Insert
<1>2. ASSUME NEW m \in Msgs, MessageCancel(m) PROVE Goal
  <2>1. {m} \in SUBSET Msgs /\ \A n \in {m} : rows[n].status \in {"none", "queued"}
    BY <1>2 DEF MessageCancel
  <2> QED BY <1>2, <2>1, QueuedMoves DEF MessageCancel
<1>2a. ASSUME NEW Q \in SUBSET Msgs, CancelQueued(Q) PROVE Goal
  <2> DEFINE S == Q \cap InStatus("queued")
  <2>1. S \in SUBSET Msgs /\ \A n \in S : rows[n].status \in {"none", "queued"}
    BY DEF InStatus
  <2>2. SetStatus(S, "canceled") /\ UNCHANGED <<poll, report, phone, radio, outbox>>
    BY <1>2a DEF CancelQueued
  <2> HIDE DEF S
  <2> QED BY <2>1, <2>2, QueuedMoves
<1>3. CASE ControlCancelMessages
  <2> DEFINE S == CampaignMsgs \cap InStatus("queued")
  <2>1. S \in SUBSET Msgs /\ \A n \in S : rows[n].status \in {"none", "queued"}
    BY DEF InStatus
  <2>2. SetStatus(S, "canceled") /\ UNCHANGED <<poll, report, phone, radio, outbox>>
    BY <1>3 DEF ControlCancelMessages
  <2> HIDE DEF S
  <2> QED BY <2>1, <2>2, QueuedMoves
<1>4. ASSUME NEW k \in Runs, NEW m \in Msgs, RunExpire(k, m) PROVE Goal
  <2> DEFINE S == {m} \cap InStatus("queued")
  <2>1. S \in SUBSET Msgs /\ \A n \in S : rows[n].status \in {"none", "queued"}
    BY DEF InStatus
  <2>2. SetStatus(S, "expired") /\ UNCHANGED <<poll, report, phone, radio, outbox>>
    BY <1>4 DEF RunExpire
  <2> HIDE DEF S
  <2> QED BY <2>1, <2>2, QueuedMoves
<1>5. CASE \/ (\E g \in {"open", "shut"} : ControlSave(g)) \/ ControlCancelSave
           \/ (\E d \in Devices, a \in BOOLEAN : DeviceAction(d, a))
           \/ (\E k \in Runs : RunStart(k) \/ RunCrash(k))
           \/ Tick \/ UNCHANGED vars
  <2>1. UNCHANGED <<rows, poll, report, phone, radio, outbox>>
    BY <1>5 DEF ControlSave, ControlCancelSave, DeviceAction, RunStart, RunCrash, Tick, vars
  <2> QED BY <2>1, Elsewhere
<1>6. CASE \E c \in Conns : Polling(c)
  BY <1>6, PollSteps, ClaimStep, ReplyStep DEF Polling
<1>7. CASE \E r \in Reports : Reporting(r)
  BY <1>7, ReadStep, SaveStep, NotifyStep, CrashStep DEF Reporting
<1>8. ASSUME NEW k \in Runs, RunReclaim(k) \/ \E m \in Msgs : RunNotify(k, m) PROVE Goal
  BY <1>8, ReclaimStep, RunNotifyStep
<1>9. CASE Phone
  BY <1>9, PhoneSteps DEF Phone
<1> QED BY <1>1, <1>2, <1>2a, <1>3, <1>4, <1>5, <1>6, <1>7, <1>8, <1>9
        DEF Next, Developer, Progress

(* A row that says canceled or expired is changed by no step.              *)
LEMMA FinalStep ==
  ASSUME TypeOK, Copies, [Next]_vars, NEW m \in Msgs, rows[m].status \in {"canceled", "expired"}
  PROVE  rows'[m] = rows[m]
<1>1. ASSUME NEW S, NEW s, SetStatus(S, s), m \notin S PROVE rows'[m] = rows[m]
  BY <1>1 DEF SetStatus
<1>2. CASE \/ \E n \in Msgs : MessageCancel(n)
           \/ \E S \in Batches, t \in Ttls, d \in Delays : Insert(S, t, d)
           \/ ControlCancelMessages
           \/ \E S \in SUBSET Msgs : CancelQueued(S)
  BY <1>1, <1>2 DEF MessageCancel, CancelQueued, Insert, ControlCancelMessages, InStatus
<1>3. ASSUME NEW c \in Conns, ClaimJobs(c) PROVE rows'[m] = rows[m]
  <2>1. m \notin FirstBatch(Claimable(Owner[c]))
    BY Zenon DEF FirstBatch, Claimable, InStatus
  <2>2. SetStatus(FirstBatch(Claimable(Owner[c])), "dispatched")
    BY <1>3 DEF ClaimJobs
  <2> QED BY <1>1, <2>1, <2>2
<1>4. ASSUME NEW r \in Reports, ReportSave(r) PROVE rows'[m] = rows[m]
  <2>1. report[r].msg # m
    BY <1>4 DEF ReportSave, Copies, Unclaimed
  <2> QED BY <1>4, <2>1 DEF ReportSave, TypeOK
<1>5. ASSUME NEW k \in Runs, RunReclaim(k) PROVE rows'[m] = rows[m]
  BY <1>5 DEF RunReclaim, InStatus
<1>6. CASE Developer
  <2>1. CASE \/ (\E g \in {"open", "shut"} : ControlSave(g)) \/ ControlCancelSave
             \/ \E d \in Devices, a \in BOOLEAN : DeviceAction(d, a)
    BY <2>1 DEF ControlSave, ControlCancelSave, DeviceAction
  <2> QED BY <1>2, <1>6, <2>1 DEF Developer
<1>7. CASE \E c \in Conns : Polling(c)
  <2>1. PICK c \in Conns : Polling(c)
    BY <1>7
  <2>2. CASE PollStart(c) \/ PollTimeout(c) \/ PollReply(c) \/ PollReplyLost(c)
    BY <2>2 DEF PollStart, PollTimeout, PollReply, PollReplyLost
  <2> QED BY <1>3, <2>1, <2>2 DEF Polling
<1>8. CASE \E r \in Reports : Reporting(r)
  BY <1>4, <1>8 DEF Reporting, ReportRead, ReportNotify, ReportCrash
<1>9. CASE \E k \in Runs : Progress(k) \/ RunCrash(k)
  <2>1. PICK k \in Runs : Progress(k) \/ RunCrash(k)
    BY <1>9
  <2>2. CASE RunStart(k) \/ RunCrash(k) \/ \E n \in Msgs : RunNotify(k, n)
    <3>1. rows' = rows
      BY <2>2 DEF RunStart, RunNotify, RunCrash
    <3> QED BY <3>1
  <2>3. CASE \E n \in Msgs : RunExpire(k, n)
    <3>1. PICK n \in Msgs : RunExpire(k, n)
      BY <2>3
    <3>2. SetStatus({n} \cap InStatus("queued"), "expired")
      BY <3>1 DEF RunExpire
    <3>3. m \notin {n} \cap InStatus("queued")
      BY DEF InStatus
    <3> QED BY <1>1, <3>2, <3>3
  <2> QED BY <1>5, <2>1, <2>2, <2>3 DEF Progress
<1>10. CASE Phone \/ Tick \/ UNCHANGED vars
  BY <1>10 DEF Phone, PhoneSend, PhoneReceipt, PhoneDies, Tick, vars
<1> QED BY <1>6, <1>7, <1>8, <1>9, <1>10 DEF Next

LEMMA ExpiryStep == TypeOK /\ Copies /\ Expiry /\ [Next]_vars => Expiry'
<1> SUFFICES ASSUME TypeOK, Copies, Expiry, [Next]_vars PROVE Expiry'
  OBVIOUS
<1>1. \A m \in Msgs : rows[m].status = "expired" => rows'[m] = rows[m]
  BY FinalStep
<1>2. CASE UNCHANGED <<run, outbox>>
  BY <1>1, <1>2 DEF Expiry
<1>3. ASSUME NEW k \in Runs, RunStart(k) \/ RunReclaim(k) \/ RunCrash(k) PROVE Expiry'
  <2>1. outbox' = outbox
    BY <1>3 DEF RunStart, RunReclaim, RunCrash
  <2>2. \A l \in Runs : run'[l].untold \subseteq run[l].untold
    <3>1. ASSUME NEW x, x.untold = {}, run' = [run EXCEPT ![k] = x]
          PROVE  \A l \in Runs : run'[l].untold \subseteq run[l].untold
      BY <3>1 DEF TypeOK
    <3>2. CASE RunStart(k)
      <4> DEFINE x == [at |-> "expire", overdue |-> Overdue, lapsed |-> Lapsed, untold |-> {}]
      <4>1. run' = [run EXCEPT ![k] = x] /\ x.untold = {}
        BY <3>2 DEF RunStart
      <4> HIDE DEF x
      <4> QED BY <3>1, <4>1
    <3>3. CASE RunReclaim(k) \/ RunCrash(k)
      BY <3>1, <3>3 DEF RunReclaim, RunCrash, IdleRun
    <3> QED BY <1>3, <3>2, <3>3
  <2> QED BY <1>1, <2>1, <2>2 DEF Expiry
<1>4. ASSUME NEW k \in Runs, NEW m \in Msgs, RunExpire(k, m) PROVE Expiry'
  <2> DEFINE hit == {m} \cap InStatus("queued")
  <2>1. run[k].untold = {} /\ outbox' = outbox /\ SetStatus(hit, "expired")
    BY <1>4 DEF RunExpire
  <2>2. run'[k].untold = hit /\ \A l \in Runs \ {k} : run'[l].untold = run[l].untold
    BY <1>4 DEF RunExpire, TypeOK, RunState
  <2>3. CASE m \notin InStatus("queued")
    BY <1>1, <2>1, <2>2, <2>3 DEF Expiry
  <2>4. CASE m \in InStatus("queued")
    <3>1. rows[m].status = "queued" /\ hit = {m}
      BY <2>4 DEF InStatus
    <3>2. outbox[m]["expired"] = 0 /\ \A l \in Runs : m \notin run[l].untold
      <4>1. outbox[m]["expired"] \in Nat
        BY DEF TypeOK, Events
      <4>2. outbox[m]["expired"] <= 1 /\ outbox[m]["expired"] # 1
        BY <3>1 DEF Expiry
      <4>3. \A l \in Runs : m \notin run[l].untold
        BY <3>1 DEF Expiry
      <4> QED BY <4>1, <4>2, <4>3
    <3>3. rows'[m].status = "expired"
      BY <2>1, <3>1 DEF SetStatus, TypeOK, Row
    <3> QED BY <1>1, <2>1, <2>2, <3>1, <3>2, <3>3 DEF Expiry
  <2> QED BY <2>3, <2>4
<1>5. ASSUME NEW k \in Runs, NEW m \in Msgs, RunNotify(k, m) PROVE Expiry'
  <2>1. run'[k].untold = {} /\ \A l \in Runs \ {k} : run'[l].untold = run[l].untold
    BY <1>5 DEF RunNotify, TypeOK, RunState
  <2>2. /\ rows[m].status = "expired" /\ outbox[m]["expired"] = 0
        /\ \A l \in Runs \ {k} : m \notin run[l].untold
    BY <1>5 DEF RunNotify, Expiry
  <2>3. outbox'[m]["expired"] = 1 /\ \A n \in Msgs \ {m} : outbox'[n] = outbox[n]
    BY <1>5, <2>2 DEF RunNotify, Enqueue, TypeOK, Events
  <2> QED BY <1>1, <2>1, <2>2, <2>3 DEF Expiry
<1>6. ASSUME NEW r \in Reports, ReportNotify(r) PROVE Expiry'
  <2>1. report[r].msg \in Msgs /\ report[r].want # "expired" /\ report[r].want \in Events
    <3>1. report[r].at = "notify" /\ report[r].msg \in Msgs /\ report[r].want \in Events
      BY <1>6 DEF ReportNotify, TypeOK, Copy, IdleReport
    <3>2. report[r].want \in Outcomes(phone[report[r].msg])
      BY <3>1 DEF Copies
    <3> QED BY <3>1, <3>2 DEF Outcomes
  <2>2. \A m \in Msgs : outbox'[m]["expired"] = outbox[m]["expired"]
    BY <1>6, <2>1 DEF ReportNotify, Enqueue, TypeOK, Events
  <2>3. run' = run
    BY <1>6 DEF ReportNotify
  <2> QED BY <1>1, <2>2, <2>3 DEF Expiry
<1>7. CASE Developer
  BY <1>2, <1>7 DEF Developer, Insert, MessageCancel, CancelQueued, ControlSave, ControlCancelMessages,
                    ControlCancelSave, DeviceAction
<1>8. CASE \E c \in Conns : Polling(c)
  BY <1>2, <1>8 DEF Polling, PollStart, ClaimJobs, PollTimeout, PollReply, PollReplyLost
<1>9. CASE \E r \in Reports : Reporting(r)
  BY <1>2, <1>6, <1>9 DEF Reporting, ReportRead, ReportSave, ReportCrash
<1>10. CASE \E k \in Runs : Progress(k) \/ RunCrash(k)
  BY <1>3, <1>4, <1>5, <1>10 DEF Progress
<1>11. CASE Phone \/ Tick \/ UNCHANGED vars
  BY <1>2, <1>11 DEF Phone, PhoneSend, PhoneReceipt, PhoneDies, Tick, vars
<1> QED BY <1>7, <1>8, <1>9, <1>10, <1>11 DEF Next
-----------------------------------------------------------------------------
LEMMA Invariance == Spec => []IInv
<1>1. IInv /\ [Next]_vars => IInv'
  BY TypeStep, SafetyStep, ExpiryStep DEF IInv
<1> QED BY IInit, <1>1, PTL DEF Spec

(* No SMS goes out twice, whatever is lost, crashes or overlaps.           *)
THEOREM NeverSentTwice == Spec => []AtMostOnce
<1>1. IInv => AtMostOnce
  BY DEF IInv, Hands, AtMostOnce
<1> QED BY Invariance, <1>1, PTL

(* What the API calls queued, canceled or expired no device was given.     *)
THEOREM CancelIsTrue == Spec => []NeverHandedOut
<1>1. IInv => NeverHandedOut
  BY DEF IInv, Hands, Copies, NeverHandedOut, Serving
<1> QED BY Invariance, <1>1, PTL

(* Timestamps and error of every row agree with its status.                *)
THEOREM RowsAgree == Spec => []RowsConsistent
<1>1. IInv => RowsConsistent
  BY DEF IInv, Truth, RowsConsistent
<1> QED BY Invariance, <1>1, PTL

(* Rows and events claim only what the phone did.                          *)
THEOREM OnlyTheTruth == Spec => []NothingInvented
<1>1. IInv => NothingInvented
  BY DEF IInv, Truth, Truthful, NothingInvented
<1> QED BY Invariance, <1>1, PTL

(* A message expires once and is told so once, however many runs overlap.  *)
THEOREM ExpiresOnce == Spec => []ExpiredEventOnce
<1>1. IInv => ExpiredEventOnce
  BY DEF IInv, Expiry, ExpiredEventOnce
<1> QED BY Invariance, <1>1, PTL

(* A canceled or expired row is changed by no step.                        *)
THEOREM FinalStays == Spec => FinalRows
<1>1. IInv /\ [Next]_vars =>
        [\A m \in Msgs : rows[m].status \in {"canceled", "expired"} => rows'[m] = rows[m]]_vars
  BY FinalStep DEF IInv
<1> QED BY Invariance, <1>1, PTL DEF Spec, FinalRows
-----------------------------------------------------------------------------
(* The row shows the last outcome of the phone.                            *)
Shows(row, outcome) ==
  CASE outcome = "sent"      -> row.status = "sent"
    [] outcome = "delivered" -> row.status = "delivered"
    [] OTHER                 -> row.status = "failed" /\ row.error = "send_failed"

(* There is a report of the phone that the server takes.                   *)
Heard(m) ==
  \E want \in Outcomes(phone[m]) : rows[m].status \in Allowed(want) \/ Recovering(rows[m])

(* An outcome the row does not show yet has a report the server takes.     *)
NeverRefused ==
  \A m \in Msgs : phone[m] \in {"sent", "delivered", "undelivered", "failed"} =>
    Shows(rows[m], phone[m]) \/ Heard(m)

(* The phone is never shut out: whatever the row became while a report was *)
(* under way, lost or late - a lease_timeout above all - either it shows   *)
(* what the phone knows, or a report that brings it closer would be taken. *)
(* (TruthPrevails adds that the phone then makes it.)                      *)
THEOREM PhoneIsHeard == Spec => []NeverRefused
<1>1. IInv => NeverRefused
  <2> SUFFICES ASSUME IInv, NEW m \in Msgs,
                      phone[m] \in {"sent", "delivered", "undelivered", "failed"}
               PROVE  Shows(rows[m], phone[m]) \/ Heard(m)
    BY DEF NeverRefused
  <2>1. rows[m] \in Row
    BY DEF IInv, TypeOK
  <2>2. rows[m].status \in {"dispatched", "sent", "delivered", "failed"}
    BY <2>1 DEF IInv, Hands, Row, Status, Unclaimed
  <2>3. RowConsistent(rows[m]) /\ Truthful(m, rows[m])
    BY DEF IInv, Truth
  <2>4. rows[m].sent => phone[m] # "failed"
    BY <2>3 DEF IInv, Hands, Truthful
  <2>5. CASE rows[m].status = "dispatched"
    <3>1. PICK want \in {"sent", "failed"} : want \in Outcomes(phone[m])
      BY DEF Outcomes
    <3> QED BY <2>5, <3>1 DEF Heard, Allowed
  <2>6. CASE rows[m].status = "sent"
    <3>1. phone[m] # "failed"
      BY <2>3, <2>4, <2>6 DEF RowConsistent
    <3>2. CASE phone[m] = "sent"
      BY <2>6, <3>2 DEF Shows
    <3>3. CASE phone[m] \in {"delivered", "undelivered"}
      <4>1. PICK want \in {"delivered", "failed"} : want \in Outcomes(phone[m])
        BY <3>3 DEF Outcomes
      <4> QED BY <2>6, <4>1 DEF Heard, Allowed
    <3> QED BY <3>1, <3>2, <3>3
  <2>7. CASE rows[m].status = "delivered"
    <3>1. phone[m] = "delivered"
      BY <2>3, <2>7 DEF RowConsistent, Truthful
    <3> QED BY <2>7, <3>1 DEF Shows
  <2>8. CASE rows[m].status = "failed"
    <3>1. rows[m].error \in {"lease_timeout", "send_failed"}
      BY <2>1, <2>3, <2>8 DEF RowConsistent, Row, Errors
    <3>2. CASE rows[m].error = "send_failed"
      <4>1. phone[m] \in {"failed", "undelivered"}
        BY <2>3, <3>2 DEF Truthful
      <4> QED BY <2>8, <3>2, <4>1 DEF Shows
    <3>3. CASE rows[m].error = "lease_timeout"
      <4>1. \E want : want \in Outcomes(phone[m])
        BY DEF Outcomes
      <4> QED BY <2>8, <3>3, <4>1 DEF Heard, Recovering
    <3> QED BY <3>1, <3>2, <3>3
  <2> QED BY <2>2, <2>5, <2>6, <2>7, <2>8
<1> QED BY Invariance, <1>1, PTL
-----------------------------------------------------------------------------
(* Reports that come one at a time: what a thread holds is the row itself, *)
(* but for a lease that has lapsed in between.                             *)

(* What a step may do to one row.                                          *)
LEMMA RowStep ==
  ASSUME TypeOK, [Next]_vars, NEW m \in Msgs
  PROVE  \/ rows'[m] = rows[m]
         \/ /\ rows[m].status \in {"none", "queued"}
            /\ \/ rows'[m].status \in {"queued", "dispatched", "canceled"}
               \/ /\ rows'[m].status = "expired"
                  /\ \E k \in Runs : m \in run[k].overdue /\ m \in run'[k].untold
         \/ /\ rows[m].status = "dispatched" /\ Presumed(rows'[m])
            /\ \E k \in Runs : m \in run[k].lapsed
         \/ \E r \in Reports : ReportSave(r) /\ report[r].msg = m
<1> DEFINE Goal ==
     \/ rows'[m] = rows[m]
     \/ /\ rows[m].status \in {"none", "queued"}
        /\ \/ rows'[m].status \in {"queued", "dispatched", "canceled"}
           \/ /\ rows'[m].status = "expired"
              /\ \E k \in Runs : m \in run[k].overdue /\ m \in run'[k].untold
     \/ /\ rows[m].status = "dispatched" /\ Presumed(rows'[m])
        /\ \E k \in Runs : m \in run[k].lapsed
     \/ \E r \in Reports : ReportSave(r) /\ report[r].msg = m
<1>1. ASSUME NEW S, NEW s \in {"queued", "dispatched", "canceled"}, SetStatus(S, s),
             \A n \in S : rows[n].status \in {"none", "queued"}
      PROVE  Goal
  <2>1. rows[m] \in Row
    BY DEF TypeOK
  <2> QED BY <1>1, <2>1 DEF SetStatus, Row
<1>2. CASE Developer
  <2>1. ASSUME NEW S \in Batches, NEW t \in Ttls, NEW d \in Delays, Insert(S, t, d) PROVE Goal
    BY <1>1, <2>1 DEF Insert
  <2>2. ASSUME NEW S, SetStatus(S \cap InStatus("queued"), "canceled") PROVE Goal
    BY <1>1, <2>2 DEF InStatus
  <2>3. ASSUME NEW n \in Msgs, MessageCancel(n) PROVE Goal
    BY <1>1, <2>3 DEF MessageCancel
  <2>4. CASE UNCHANGED rows
    BY <2>4
  <2> QED BY <1>2, <2>1, <2>2, <2>3, <2>4 DEF Developer, CancelQueued, ControlSave,
     ControlCancelMessages, ControlCancelSave, DeviceAction
<1>3. ASSUME NEW c \in Conns, Polling(c) PROVE Goal
  <2>1. CASE ClaimJobs(c)
    <3>1. \A n \in FirstBatch(Claimable(Owner[c])) : rows[n].status \in {"none", "queued"}
      BY DEF FirstBatch, Claimable, InStatus
    <3>2. SetStatus(FirstBatch(Claimable(Owner[c])), "dispatched")
      BY <2>1 DEF ClaimJobs
    <3> QED BY <1>1, <3>1, <3>2
  <2> QED BY <1>3, <2>1 DEF Polling, PollStart, PollTimeout, PollReply, PollReplyLost
<1>4. ASSUME NEW r \in Reports, Reporting(r) PROVE Goal
  <2>1. CASE ReportSave(r)
    BY <2>1 DEF ReportSave, TypeOK
  <2> QED BY <1>4, <2>1 DEF Reporting, ReportRead, ReportNotify, ReportCrash
<1>5. ASSUME NEW k \in Runs, Progress(k) \/ RunCrash(k) PROVE Goal
  <2>1. CASE RunReclaim(k)
    <3>1. rows[m] \in Row
      BY DEF TypeOK
    <3> QED BY <2>1, <3>1 DEF RunReclaim, InStatus, Presumed, Row
  <2>2. ASSUME NEW n \in Msgs, RunExpire(k, n) PROVE Goal
    <3>1. /\ rows' = [l \in Msgs |-> IF l \in {n} \cap InStatus("queued")
                                    THEN [rows[l] EXCEPT !.status = "expired"] ELSE rows[l]]
          /\ run'[k].untold = {n} \cap InStatus("queued") /\ n \in run[k].overdue
      BY <2>2 DEF RunExpire, SetStatus, TypeOK, RunState
    <3>2. rows[m] \in Row
      BY DEF TypeOK
    <3> QED BY <3>1, <3>2 DEF InStatus, Row
  <2> QED BY <1>5, <2>1, <2>2 DEF Progress, RunStart, RunNotify, RunCrash
<1>6. CASE Phone \/ Tick \/ UNCHANGED vars
  BY <1>6 DEF Phone, PhoneSend, PhoneReceipt, PhoneDies, Tick, vars
<1> QED BY <1>2, <1>3, <1>4, <1>5, <1>6 DEF Next

(* What a step may do to one report.                                       *)
LEMMA ReportStep ==
  ASSUME TypeOK, [Next]_vars, NEW r \in Reports, report'[r].at # "idle"
  PROVE  \/ report'[r] = report[r]
         \/ \E m \in Msgs, want \in Events : ReportRead(r, m, want)
         \/ ReportSave(r)
<1> DEFINE Goal ==
     \/ report'[r] = report[r]
     \/ \E m \in Msgs, want \in Events : ReportRead(r, m, want)
     \/ ReportSave(r)
<1>1. ASSUME NEW q \in Reports, Reporting(q) PROVE Goal
  <2>1. CASE q = r
    <3>1. CASE ReportNotify(q) \/ ReportCrash(q)
      <4>1. report'[r] = IdleReport
        BY <2>1, <3>1 DEF ReportNotify, ReportCrash, TypeOK
      <4> QED BY <4>1 DEF IdleReport
    <3> QED BY <1>1, <2>1, <3>1 DEF Reporting
  <2>2. CASE q # r
    BY <1>1, <2>2 DEF Reporting, ReportRead, ReportSave, ReportNotify, ReportCrash, TypeOK
  <2> QED BY <2>1, <2>2
<1>2. CASE report' = report
  BY <1>2
<1>3. CASE Developer
  BY <1>2, <1>3 DEF Developer, Insert, MessageCancel, CancelQueued, ControlSave,
     ControlCancelMessages, ControlCancelSave, DeviceAction
<1>4. ASSUME NEW c \in Conns, Polling(c) PROVE Goal
  BY <1>2, <1>4 DEF Polling, PollStart, ClaimJobs, PollTimeout, PollReply, PollReplyLost
<1>5. ASSUME NEW k \in Runs, Progress(k) \/ RunCrash(k) PROVE Goal
  BY <1>2, <1>5 DEF Progress, RunStart, RunExpire, RunNotify, RunReclaim, RunCrash
<1>6. CASE Phone \/ Tick \/ UNCHANGED vars
  BY <1>2, <1>6 DEF Phone, PhoneSend, PhoneReceipt, PhoneDies, Tick, vars
<1> QED BY <1>1, <1>3, <1>4, <1>5, <1>6 DEF Next

(* A thread that is done has told, or has died.                            *)
LEMMA ReportIdle ==
  ASSUME TypeOK, [Next]_vars, NEW r \in Reports, report[r].at # "idle", report'[r].at = "idle"
  PROVE  ReportNotify(r) \/ ReportCrash(r)
<1>1. ASSUME NEW q \in Reports, Reporting(q) PROVE ReportNotify(r) \/ ReportCrash(r)
  <2>1. CASE q = r
    <3>1. CASE ReportSave(r)
      <4>1. report[r] \in Copy /\ report'[r] = [report[r] EXCEPT !.at = "notify"]
        BY <3>1 DEF ReportSave, TypeOK, IdleReport
      <4> QED BY <4>1 DEF Copy
    <3> QED BY <1>1, <2>1, <3>1 DEF Reporting, ReportRead
  <2>2. CASE q # r
    BY <1>1, <2>2 DEF Reporting, ReportRead, ReportSave, ReportNotify, ReportCrash, TypeOK
  <2> QED BY <2>1, <2>2
<1>2. report' # report
  OBVIOUS
<1>3. ~Developer
  BY <1>2 DEF Developer, Insert, MessageCancel, CancelQueued, ControlSave,
     ControlCancelMessages, ControlCancelSave, DeviceAction
<1>4. \A c \in Conns : ~Polling(c)
  BY <1>2 DEF Polling, PollStart, ClaimJobs, PollTimeout, PollReply, PollReplyLost
<1>5. \A k \in Runs : ~(Progress(k) \/ RunCrash(k))
  BY <1>2 DEF Progress, RunStart, RunExpire, RunNotify, RunReclaim, RunCrash
<1>6. ~Phone /\ ~Tick /\ ~UNCHANGED vars
  BY <1>2 DEF Phone, PhoneSend, PhoneReceipt, PhoneDies, Tick, vars
<1> QED BY <1>1, <1>3, <1>4, <1>5, <1>6 DEF Next

Alone ==
  /\ \A r, q \in Reports :
       report[r].at # "idle" /\ report[q].at # "idle" /\ report[r].msg = report[q].msg => r = q
  /\ \A r \in Reports : report[r].at = "save" =>
       \/ rows[report[r].msg] = report[r].row
       \/ report[r].row.status = "dispatched" /\ Presumed(rows[report[r].msg])

LEMMA ReadFacts ==
  ASSUME ~Overlap, TypeOK, NEW r \in Reports, NEW m \in Msgs, NEW want \in Events, ReportRead(r, m, want)
  PROVE  /\ report'[r].msg = m /\ report'[r].row = rows[m] /\ report'[r].at = "save"
         /\ rows' = rows
         /\ \A q \in Reports : q # r => report'[q] = report[q]
         /\ \A q \in Reports : report[q].at # "idle" => report[q].msg # m
<1>1. /\ report' = [report EXCEPT ![r] = [at |-> "save", msg |-> m, want |-> want, row |-> rows[m]]]
      /\ rows' = rows /\ ~Serving(m)
  BY DEF ReportRead
<1>2. report'[r] = [at |-> "save", msg |-> m, want |-> want, row |-> rows[m]]
  BY <1>1 DEF TypeOK
<1>3. \A q \in Reports : q # r => report'[q] = report[q]
  BY <1>1 DEF TypeOK
<1> QED BY <1>1, <1>2, <1>3 DEF Serving

LEMMA AloneStep ==
  ASSUME ~Overlap, TypeOK, Copies, Alone, [Next]_vars
  PROVE  Alone'
<1>1. ASSUME NEW r \in Reports, ReportSave(r)
      PROVE  report[r].at = "save" /\ report'[r].at = "notify" /\ report'[r].msg = report[r].msg
  <2>1. report[r] \in Copy /\ report'[r] = [report[r] EXCEPT !.at = "notify"]
    BY <1>1 DEF ReportSave, TypeOK, IdleReport
  <2> QED BY <1>1, <2>1 DEF ReportSave, Copy
<1>2. ASSUME NEW r \in Reports, report'[r].at # "idle"
      PROVE  \/ report[r].at # "idle" /\ report'[r].msg = report[r].msg
             \/ \E m \in Msgs, want \in Events : ReportRead(r, m, want)
  BY <1>1, <1>2, ReportStep
<1>3. ASSUME NEW r \in Reports, NEW q \in Reports, r # q,
             report'[r].at # "idle", report'[q].at # "idle", report'[r].msg = report'[q].msg
      PROVE  FALSE
  <2>1. ASSUME NEW x \in Reports, NEW y \in Reports, x # y, report'[y].at # "idle",
               report'[x].msg = report'[y].msg,
               NEW m \in Msgs, NEW want \in Events, ReportRead(x, m, want)
        PROVE  FALSE
    <3>1. report'[x].msg = m /\ report'[y] = report[y] /\ report[y].msg # m
      BY ReadFacts, <2>1
    <3> QED BY <2>1, <3>1
  <2>2. CASE report[r].at # "idle" /\ report[q].at # "idle" /\ report[r].msg = report[q].msg
    BY <1>3, <2>2 DEF Alone
  <2> QED BY <1>2, <1>3, <2>1, <2>2
<1>4. ASSUME NEW r \in Reports, report'[r].at = "save"
      PROVE  \/ rows'[report'[r].msg] = report'[r].row
             \/ report'[r].row.status = "dispatched" /\ Presumed(rows'[report'[r].msg])
  <2>1. CASE \E m \in Msgs, want \in Events : ReportRead(r, m, want)
    <3>1. PICK m \in Msgs, want \in Events : ReportRead(r, m, want)
      BY <2>1
    <3>2. report'[r].msg = m /\ report'[r].row = rows[m] /\ rows' = rows
      BY ReadFacts, <3>1
    <3> QED BY <3>2
  <2>2. CASE report'[r] = report[r]
    <3>1. report[r].msg \in Msgs /\ rows[report[r].msg].status \notin Unclaimed
      BY <1>4, <2>2 DEF TypeOK, IdleReport, Copy, Copies
    <3>2. CASE \E q \in Reports : ReportSave(q) /\ report[q].msg = report[r].msg
      <4>1. PICK q \in Reports : ReportSave(q) /\ report[q].msg = report[r].msg
        BY <3>2
      <4>2. q = r
        BY <1>1, <1>4, <2>2, <4>1 DEF Alone
      <4> QED BY <1>1, <1>4, <4>1, <4>2
    <3>3. \/ rows'[report[r].msg] = rows[report[r].msg]
          \/ rows[report[r].msg].status = "dispatched" /\ Presumed(rows'[report[r].msg])
          \/ \E q \in Reports : ReportSave(q) /\ report[q].msg = report[r].msg
      BY <3>1, RowStep DEF Unclaimed
    <3>4. \/ rows[report[r].msg] = report[r].row
          \/ report[r].row.status = "dispatched" /\ Presumed(rows[report[r].msg])
      BY <1>4, <2>2 DEF Alone
    <3> QED BY <2>2, <3>2, <3>3, <3>4 DEF Presumed
  <2>3. ~ReportSave(r)
    BY <1>1, <1>4
  <2> QED BY <1>4, <2>1, <2>2, <2>3, ReportStep
<1> QED BY <1>3, <1>4 DEF Alone

(* Told of an event a message is past it for good.                         *)
Past(row, e) ==
  CASE e = "sent" -> row.status \in {"sent", "delivered", "failed"} /\ ~Presumed(row)
    [] e = "delivered" -> row.status = "delivered"
    [] OTHER -> row.status = "failed" /\ ~Presumed(row)

Reported == {"sent", "delivered", "failed"}

Once ==
  \A m \in Msgs, e \in Reported :
    /\ outbox[m][e] <= 1
    /\ outbox[m][e] = 1 => Past(rows[m], e)
    /\ \A r \in Reports : report[r].at = "notify" /\ report[r].msg = m /\ report[r].want = e =>
         Past(rows[m], e) /\ outbox[m][e] = 0

LEMMA SavedStatus ==
  ASSUME NEW row \in Row, NEW want \in Reported
  PROVE  /\ Saved(row, want).status = want
         /\ want = "failed" => Saved(row, want).error = "send_failed"
<1>1. CASE want = "sent"
  BY <1>1 DEF Saved, Row
<1>2. CASE want = "delivered"
  BY <1>2 DEF Saved
<1>3. CASE want = "failed"
  BY <1>3 DEF Saved, Row
<1> QED BY <1>1, <1>2, <1>3 DEF Reported

(* A thread about to save holds a report nobody was told of.               *)
LEMMA SaveIsNew ==
  ASSUME ~Overlap, TypeOK, Copies, Alone, NEW r \in Reports, ReportSave(r)
  PROVE  /\ report[r].msg \in Msgs /\ report[r].want \in Reported
         /\ ~Past(rows[report[r].msg], report[r].want)
         /\ Past(rows'[report[r].msg], report[r].want)
         /\ \A e \in Reported :
              Past(rows[report[r].msg], e) => Past(rows'[report[r].msg], e)
<1> DEFINE m == report[r].msg
           row == report[r].row
           want == report[r].want
<1>1. m \in Msgs /\ row \in Row /\ report[r].at = "save"
  BY DEF ReportSave, TypeOK, Copy, IdleReport
<1>2. want \in Reported
  BY <1>1 DEF Copies, Outcomes, Reported
<1>3. row.status \in Allowed(want) \/ Recovering(row)
  BY <1>1 DEF Copies
<1>4. rows[m] = row \/ (row.status = "dispatched" /\ Presumed(rows[m]))
  BY <1>1 DEF Alone
<1>5. rows'[m] = Saved(row, want)
  BY <1>1 DEF ReportSave, TypeOK
<1>6. /\ rows'[m].status = want
      /\ want = "failed" => rows'[m].error = "send_failed"
  BY <1>1, <1>2, <1>5, SavedStatus
<1>7. \A e \in Reported : Past(rows[m], e) => e = "sent" /\ rows[m].status = "sent"
  BY <1>2, <1>3, <1>4 DEF Past, Allowed, Recovering, Presumed, Reported
<1>8. ~Past(rows[m], want)
  BY <1>2, <1>3, <1>4 DEF Past, Allowed, Recovering, Presumed, Reported
<1>9. Past(rows'[m], want) /\ Past(rows'[m], "sent")
  BY <1>2, <1>6 DEF Past, Presumed, Reported
<1> QED BY <1>1, <1>2, <1>7, <1>8, <1>9

LEMMA PastStays ==
  ASSUME ~Overlap, TypeOK, Copies, Alone, [Next]_vars, NEW m \in Msgs, NEW e \in Reported,
         Past(rows[m], e)
  PROVE  Past(rows'[m], e)
<1>1. rows[m].status \in {"sent", "delivered", "failed"}
  BY DEF Past, Reported
<1>2. CASE \E r \in Reports : ReportSave(r) /\ report[r].msg = m
  BY <1>2, SaveIsNew
<1>3. CASE rows'[m] = rows[m]
  BY <1>3
<1> QED BY <1>1, <1>2, <1>3, RowStep

(* What a step may do to the events of the reports.                        *)
LEMMA OutboxStep ==
  ASSUME TypeOK, [Next]_vars
  PROVE  \/ \A m \in Msgs, e \in Reported : outbox'[m][e] = outbox[m][e]
         \/ \E r \in Reports : ReportNotify(r)
<1> DEFINE Goal ==
     \/ \A m \in Msgs, e \in Reported : outbox'[m][e] = outbox[m][e]
     \/ \E r \in Reports : ReportNotify(r)
<1>1. CASE outbox' = outbox
  BY <1>1
<1>2. CASE Developer
  BY <1>1, <1>2 DEF Developer, Insert, MessageCancel, CancelQueued, ControlSave,
     ControlCancelMessages, ControlCancelSave, DeviceAction
<1>3. ASSUME NEW c \in Conns, Polling(c) PROVE Goal
  BY <1>1, <1>3 DEF Polling, PollStart, ClaimJobs, PollTimeout, PollReply, PollReplyLost
<1>4. ASSUME NEW r \in Reports, Reporting(r) PROVE Goal
  BY <1>1, <1>4 DEF Reporting, ReportRead, ReportSave, ReportCrash
<1>5. ASSUME NEW k \in Runs, Progress(k) \/ RunCrash(k) PROVE Goal
  <2>1. ASSUME NEW m \in Msgs, RunNotify(k, m) PROVE Goal
    BY <2>1 DEF RunNotify, Enqueue, TypeOK, Reported, Events
  <2> QED BY <1>1, <1>5, <2>1 DEF Progress, RunStart, RunExpire, RunReclaim, RunCrash
<1>6. CASE Phone \/ Tick \/ UNCHANGED vars
  BY <1>1, <1>6 DEF Phone, PhoneSend, PhoneReceipt, PhoneDies, Tick, vars
<1> QED BY <1>2, <1>3, <1>4, <1>5, <1>6 DEF Next

LEMMA OnceStep ==
  ASSUME ~Overlap, TypeOK, Copies, Alone, Once, [Next]_vars
  PROVE  Once'
<1> SUFFICES ASSUME NEW m \in Msgs, NEW e \in Reported
             PROVE  /\ outbox'[m][e] <= 1
                    /\ outbox'[m][e] = 1 => Past(rows'[m], e)
                    /\ \A r \in Reports :
                         report'[r].at = "notify" /\ report'[r].msg = m /\ report'[r].want = e =>
                           Past(rows'[m], e) /\ outbox'[m][e] = 0
  BY DEF Once
<1>1. Past(rows[m], e) => Past(rows'[m], e)
  BY PastStays
<1>2. outbox[m][e] \in Nat
  BY DEF TypeOK, Reported, Events
<1>3. /\ outbox[m][e] <= 1
      /\ outbox[m][e] = 1 => Past(rows[m], e)
      /\ \A r \in Reports : report[r].at = "notify" /\ report[r].msg = m /\ report[r].want = e =>
            Past(rows[m], e) /\ outbox[m][e] = 0
  BY DEF Once
<1>4. ASSUME NEW r \in Reports, report'[r].at = "notify", report'[r].msg = m, report'[r].want = e,
             outbox'[m][e] = outbox[m][e]
      PROVE  Past(rows'[m], e) /\ outbox'[m][e] = 0
  <2>1. CASE report'[r] = report[r]
    BY <1>1, <1>3, <1>4, <2>1
  <2>2. CASE \E n \in Msgs, want \in Events : ReportRead(r, n, want)
    BY <1>4, <2>2, ReadFacts
  <2>3. CASE ReportSave(r)
    <3>1. report[r] \in Copy /\ report'[r] = [report[r] EXCEPT !.at = "notify"]
      BY <2>3 DEF ReportSave, TypeOK, IdleReport
    <3>2. report[r].msg = m /\ report[r].want = e
      BY <1>4, <3>1 DEF Copy
    <3>3. ~Past(rows[m], e) /\ Past(rows'[m], e)
      BY <2>3, <3>2, SaveIsNew
    <3> QED BY <1>2, <1>3, <1>4, <3>3
  <2> QED BY <1>4, <2>1, <2>2, <2>3, ReportStep
<1>5. CASE outbox'[m][e] = outbox[m][e]
  BY <1>1, <1>3, <1>4, <1>5
<1>6. ASSUME NEW r \in Reports, ReportNotify(r), outbox'[m][e] # outbox[m][e]
      PROVE  /\ outbox'[m][e] = 1 /\ Past(rows'[m], e)
             /\ \A q \in Reports : report'[q].at = "notify" => report'[q].msg # m
  <2>1. /\ report[r].at = "notify" /\ report[r].msg \in Msgs /\ report[r].want \in Events
        /\ rows' = rows
    BY <1>6 DEF ReportNotify, TypeOK, Copy, IdleReport
  <2>2. /\ report[r].msg = m /\ report[r].want = e /\ outbox'[m][e] = outbox[m][e] + 1
    BY <1>6, <2>1 DEF ReportNotify, Enqueue, TypeOK, Reported, Events
  <2>3. report'[r] = IdleReport /\ \A q \in Reports : q # r => report'[q] = report[q]
    BY <1>6 DEF ReportNotify, TypeOK
  <2>4. \A q \in Reports : q # r /\ report[q].at = "notify" => report[q].msg # m
    BY <2>1, <2>2 DEF Alone
  <2> QED BY <1>1, <1>3, <2>1, <2>2, <2>3, <2>4 DEF IdleReport
<1> QED BY <1>5, <1>6, OutboxStep

(* A run has told all it expired before it expires the next.               *)
NoneForgotten ==
  \A k \in Runs : /\ run[k].at = "idle" => run[k].overdue = {} /\ run[k].untold = {}
                  /\ \A m, n \in run[k].untold : m = n

(* What a step may do to one run.                                          *)
LEMMA RunStep ==
  ASSUME TypeOK, [Next]_vars, NEW k \in Runs
  PROVE  \/ run'[k] = run[k]
         \/ RunStart(k) \/ RunReclaim(k) \/ RunCrash(k)
         \/ \E m \in Msgs : RunExpire(k, m) \/ RunNotify(k, m)
<1> DEFINE Goal ==
     \/ run'[k] = run[k]
     \/ RunStart(k) \/ RunReclaim(k) \/ RunCrash(k)
     \/ \E m \in Msgs : RunExpire(k, m) \/ RunNotify(k, m)
<1>1. CASE run' = run
  BY <1>1
<1>2. CASE Developer
  BY <1>1, <1>2 DEF Developer, Insert, MessageCancel, CancelQueued, ControlSave,
     ControlCancelMessages, ControlCancelSave, DeviceAction
<1>3. ASSUME NEW c \in Conns, Polling(c) PROVE Goal
  BY <1>1, <1>3 DEF Polling, PollStart, ClaimJobs, PollTimeout, PollReply, PollReplyLost
<1>4. ASSUME NEW r \in Reports, Reporting(r) PROVE Goal
  BY <1>1, <1>4 DEF Reporting, ReportRead, ReportSave, ReportNotify, ReportCrash
<1>5. ASSUME NEW l \in Runs, Progress(l) \/ RunCrash(l) PROVE Goal
  <2>1. CASE l = k
    BY <1>5, <2>1 DEF Progress
  <2>2. CASE l # k
    BY <1>5, <2>2 DEF Progress, RunStart, RunExpire, RunNotify, RunReclaim, RunCrash, TypeOK
  <2> QED BY <2>1, <2>2
<1>6. CASE Phone \/ Tick \/ UNCHANGED vars
  BY <1>1, <1>6 DEF Phone, PhoneSend, PhoneReceipt, PhoneDies, Tick, vars
<1> QED BY <1>2, <1>3, <1>4, <1>5, <1>6 DEF Next

LEMMA NoneForgottenStep ==
  ASSUME TypeOK, NoneForgotten, [Next]_vars
  PROVE  NoneForgotten'
<1> SUFFICES ASSUME NEW k \in Runs
             PROVE  /\ run'[k].at = "idle" => run'[k].overdue = {} /\ run'[k].untold = {}
                    /\ \A m, n \in run'[k].untold : m = n
  BY DEF NoneForgotten
<1> USE DEF NoneForgotten
<1>1. run \in [Runs -> RunState]
  BY DEF TypeOK
<1>2. CASE RunStart(k)
  BY <1>1, <1>2 DEF RunStart
<1>3. CASE RunReclaim(k) \/ RunCrash(k)
  <2>1. run'[k] = IdleRun
    BY <1>1, <1>3 DEF RunReclaim, RunCrash
  <2> QED BY <2>1 DEF IdleRun
<1>4. ASSUME NEW m \in Msgs, RunExpire(k, m) \/ RunNotify(k, m)
      PROVE  /\ run'[k].at = run[k].at /\ run'[k].overdue \subseteq run[k].overdue
             /\ run'[k].untold \subseteq {m}
             /\ run[k].overdue # {} \/ run[k].untold # {}
  <2>1. run[k] \in RunState
    BY <1>1
  <2> QED BY <1>1, <1>4, <2>1 DEF RunExpire, RunNotify, RunState
<1> QED BY <1>2, <1>3, <1>4, RunStep

LEMMA OutboxGrows ==
  ASSUME TypeOK, [Next]_vars, NEW m \in Msgs, NEW e \in Events
  PROVE  outbox'[m][e] >= outbox[m][e]
<1> DEFINE Goal == outbox'[m][e] >= outbox[m][e]
<1>1. outbox[m][e] \in Nat
  BY DEF TypeOK
<1>2. CASE outbox' = outbox
  BY <1>1, <1>2
<1>3. ASSUME NEW n \in Msgs, NEW f \in Events, Enqueue(n, f) PROVE Goal
  BY <1>1, <1>3 DEF Enqueue, TypeOK
<1>4. CASE Developer
  BY <1>2, <1>4 DEF Developer, Insert, MessageCancel, CancelQueued, ControlSave,
     ControlCancelMessages, ControlCancelSave, DeviceAction
<1>5. ASSUME NEW c \in Conns, Polling(c) PROVE Goal
  BY <1>2, <1>5 DEF Polling, PollStart, ClaimJobs, PollTimeout, PollReply, PollReplyLost
<1>6. ASSUME NEW r \in Reports, Reporting(r) PROVE Goal
  <2>1. CASE ReportNotify(r)
    <3>1. report[r].msg \in Msgs /\ report[r].want \in Events
      BY <2>1 DEF ReportNotify, TypeOK, IdleReport, Copy
    <3> QED BY <1>3, <2>1, <3>1 DEF ReportNotify
  <2> QED BY <1>2, <1>6, <2>1 DEF Reporting, ReportRead, ReportSave, ReportCrash
<1>7. ASSUME NEW k \in Runs, Progress(k) \/ RunCrash(k) PROVE Goal
  <2>1. ASSUME NEW n \in Msgs, RunNotify(k, n) PROVE Goal
    BY <1>3, <2>1 DEF RunNotify, Events
  <2> QED BY <1>2, <1>7, <2>1 DEF Progress, RunStart, RunExpire, RunReclaim, RunCrash
<1>8. CASE Phone \/ Tick \/ UNCHANGED vars
  BY <1>2, <1>8 DEF Phone, PhoneSend, PhoneReceipt, PhoneDies, Tick, vars
<1> QED BY <1>4, <1>5, <1>6, <1>7, <1>8 DEF Next

(* What is to be told is told or remains to be told.                       *)
LEMMA UntoldStep ==
  ASSUME "crash" \notin Faults, TypeOK, NoneForgotten, [Next]_vars, NEW m \in Msgs, NEW e \in Events,
         outbox[m][e] > 0 \/ Untold(m, e)
  PROVE  outbox'[m][e] > 0 \/ Untold(m, e)'
<1>1. outbox[m][e] \in Nat /\ outbox'[m][e] \in Nat /\ outbox'[m][e] >= outbox[m][e]
  BY TypeStep, OutboxGrows DEF TypeOK
<1>2. ASSUME NEW r \in Reports, report[r].at = "notify", report[r].msg = m, report[r].want = e
      PROVE  outbox'[m][e] > 0 \/ report'[r] = report[r]
  <2>1. CASE ReportNotify(r)
    BY <1>1, <1>2, <2>1 DEF ReportNotify, Enqueue, TypeOK
  <2>2. CASE report'[r].at = "idle" /\ ~ReportNotify(r)
    <3>1. report[r].at # "idle"
      BY <1>2
    <3> QED BY <2>2, <3>1, ReportIdle DEF ReportCrash
  <2>3. CASE report'[r].at # "idle"
    BY <1>2, <2>3, ReportStep DEF ReportRead, ReportSave
  <2> QED BY <2>1, <2>2, <2>3
<1>3. ASSUME NEW k \in Runs, m \in run[k].untold
      PROVE  outbox'[m]["expired"] > 0 \/ m \in run'[k].untold
  <2>1. /\ run[k].at = "expire" /\ run[k].untold = {m}
    BY <1>3 DEF NoneForgotten, TypeOK, RunState
  <2>2. ASSUME NEW n \in Msgs, RunNotify(k, n) PROVE outbox'[m]["expired"] > 0
    BY <2>1, <2>2 DEF RunNotify, Enqueue, TypeOK, Events
  <2> QED BY <1>3, <2>1, <2>2, RunStep DEF RunStart, RunReclaim, RunCrash, RunExpire
<1> QED BY <1>1, <1>2, <1>3 DEF Untold

Told ==
  \A m \in Msgs, e \in Events : rows[m].status = e /\ ~Presumed(rows[m]) =>
    outbox[m][e] > 0 \/ Untold(m, e)

LEMMA ToldStep ==
  ASSUME "crash" \notin Faults, TypeOK, Copies, NoneForgotten, Told, [Next]_vars
  PROVE  Told'
<1> SUFFICES ASSUME NEW m \in Msgs, NEW e \in Events, rows'[m].status = e, ~Presumed(rows'[m])
             PROVE  outbox'[m][e] > 0 \/ Untold(m, e)'
  BY DEF Told
<1>1. CASE rows'[m] = rows[m]
  <2>1. outbox[m][e] > 0 \/ Untold(m, e)
    BY <1>1 DEF Told
  <2> QED BY <2>1, UntoldStep
<1>2. ASSUME NEW r \in Reports, ReportSave(r), report[r].msg = m
      PROVE  Untold(m, e)'
  <2>1. report[r] \in Copy /\ report'[r] = [report[r] EXCEPT !.at = "notify"]
    BY <1>2 DEF ReportSave, TypeOK, IdleReport
  <2>2. /\ report'[r].at = "notify" /\ report'[r].msg = m
        /\ report'[r].want = report[r].want
    BY <1>2, <2>1 DEF Copy
  <2>3. report[r].at = "save" /\ report[r].row \in Row
        /\ rows'[m] = Saved(report[r].row, report[r].want)
    BY <1>2, <2>1 DEF ReportSave, TypeOK, Copy
  <2>4. report[r].want \in Reported
    BY <1>2, <2>3 DEF Copies, Outcomes, Reported
  <2>5. report[r].want = e
    BY <2>3, <2>4, SavedStatus
  <2> QED BY <2>2, <2>5 DEF Untold
<1>3. ASSUME NEW k \in Runs, m \in run'[k].untold, e = "expired"
      PROVE  Untold(m, e)'
  BY <1>3 DEF Untold
<1>4. e \notin {"queued", "dispatched", "canceled"}
  BY DEF Events
<1> QED BY <1>1, <1>2, <1>3, <1>4, RowStep

(* While no process dies, no status goes untold but the lease timeouts.    *)
THEOREM NothingUntold == Spec => []NoLostEvent
<1>1. CASE "crash" \in Faults
  <2>1. NoLostEvent
    BY <1>1 DEF NoLostEvent
  <2> QED BY <2>1, PTL
<1>2. CASE "crash" \notin Faults
  <2>1. Init => NoneForgotten /\ Told
    <3>1. Init => NoneForgotten
      BY DEF Init, NoneForgotten, IdleRun
    <3>2. Init => \A m \in Msgs : rows[m].status = "none"
      <4>1. Init => rows = [m \in Msgs |-> NewRow]
        BY DEF Init
      <4>2. NewRow.status = "none"
        BY DEF NewRow
      <4> QED BY <4>1, <4>2
    <3>3. "none" \notin Events
      BY DEF Events
    <3>4. Init => Told
      BY <3>2, <3>3, Zenon DEF Told
    <3> QED BY <3>1, <3>4
  <2>2. IInv /\ NoneForgotten /\ Told /\ [Next]_vars => NoneForgotten' /\ Told'
    BY <1>2, NoneForgottenStep, ToldStep DEF IInv
  <2>3. Told => NoLostEvent
    BY DEF Told, NoLostEvent
  <2> QED BY <2>1, <2>2, <2>3, Invariance, PTL DEF Spec
<1> QED BY <1>1, <1>2

(* While the reports on a message come one at a time, no event is enqueued *)
(* twice.                                                                  *)
THEOREM EventsOnce == Spec => []EventOnce
<1>1. CASE Overlap
  <2>1. EventOnce
    BY <1>1 DEF EventOnce
  <2> QED BY <2>1, PTL
<1>2. CASE ~Overlap
  <2>1. Init => Alone /\ Once
    BY DEF Init, Alone, Once, IdleReport, Reported, Events
  <2>2. IInv /\ Alone /\ Once /\ [Next]_vars => Alone' /\ Once'
    BY <1>2, AloneStep, OnceStep DEF IInv
  <2>3. IInv /\ Once => EventOnce
    BY DEF IInv, Expiry, Once, EventOnce, Reported, Events
  <2> QED BY <2>1, <2>2, <2>3, Invariance, PTL DEF Spec
<1> QED BY <1>1, <1>2
-----------------------------------------------------------------------------
(* The refinement: which edge of the public lifecycle each step takes.     *)

StageOf(row) ==
  IF Presumed(row) THEN "presumed"
  ELSE IF row.status = "dispatched" THEN "sending" ELSE row.status

LEMMA StageIs ==
  \A m \in Msgs : Stage[m] = StageOf(rows[m]) /\ Stage'[m] = StageOf(rows'[m])
BY DEF Stage, StageOf, Presumed

LEMMA RowsMove ==
  ASSUME NEW S \in SUBSET Msgs, NEW a, NEW b, <<a, b>> \in L!Edges,
         \A m \in S : StageOf(rows[m]) = a /\ StageOf(rows'[m]) = b,
         \A m \in Msgs \ S : rows'[m] = rows[m]
  PROVE  L!Next
<1>1. \A m \in S : Stage[m] = a
  BY StageIs
<1>2. \A m \in Msgs : Stage'[m] = IF m \in S THEN b ELSE Stage[m]
  BY StageIs
<1>3. Stage' = [m \in Msgs |-> Stage'[m]]
  BY DEF Stage
<1>4. Stage' = [m \in Msgs |-> IF m \in S THEN b ELSE Stage[m]]
  BY <1>2, <1>3
<1>5. L!Move(S, <<a, b>>)
  BY <1>1, <1>4 DEF L!Move
<1> QED BY <1>5 DEF L!Next

LEMMA StatusMoves ==
  ASSUME TypeOK, NEW S \in SUBSET Msgs, NEW a, NEW s,
         \/ a = "none" /\ s = "queued"
         \/ a = "queued" /\ s \in {"dispatched", "expired", "canceled"},
         \A m \in S : rows[m].status = a,
         SetStatus(S, s)
  PROVE  L!Next
<1> DEFINE b == IF s = "dispatched" THEN "sending" ELSE s
<1>1. <<a, b>> \in L!Edges
  BY DEF L!Edges
<1>2. ASSUME NEW m \in S PROVE StageOf(rows[m]) = a /\ StageOf(rows'[m]) = b
  <2>1. rows[m] \in Row /\ rows'[m] = [rows[m] EXCEPT !.status = s]
    BY DEF SetStatus, TypeOK
  <2>2. rows[m].status = a /\ rows'[m].status = s
    BY <2>1 DEF Row
  <2> QED BY <2>2 DEF StageOf, Presumed
<1>3. \A m \in Msgs \ S : rows'[m] = rows[m]
  BY DEF SetStatus
<1> HIDE DEF b
<1> QED BY <1>1, <1>2, <1>3, RowsMove

LEMMA ReclaimMoves ==
  ASSUME TypeOK, NEW k \in Runs, RunReclaim(k)
  PROVE  L!Next
<1> DEFINE S == run[k].lapsed \cap InStatus("dispatched")
<1>1. <<"sending", "presumed">> \in L!Edges /\ S \in SUBSET Msgs
  BY DEF L!Edges, InStatus
<1>2. ASSUME NEW m \in S PROVE StageOf(rows[m]) = "sending" /\ StageOf(rows'[m]) = "presumed"
  <2>1. /\ rows[m] \in Row /\ rows[m].status = "dispatched"
        /\ rows'[m] = [rows[m] EXCEPT !.status = "failed", !.error = "lease_timeout"]
    BY DEF RunReclaim, TypeOK, InStatus
  <2>2. rows'[m].status = "failed" /\ rows'[m].error = "lease_timeout"
    BY <2>1 DEF Row
  <2> QED BY <2>1, <2>2 DEF StageOf, Presumed
<1>3. \A m \in Msgs \ S : rows'[m] = rows[m]
  BY DEF RunReclaim
<1> HIDE DEF S
<1> QED BY <1>1, <1>2, <1>3, RowsMove

(* The save of a report, for which the row is as it was read, or presumed  *)
(* to have failed since.                                                   *)
LEMMA SaveMoves ==
  ASSUME TypeOK, Copies, Alone, NEW r \in Reports, ReportSave(r)
  PROVE  L!Next
<1> DEFINE m == report[r].msg
           row == report[r].row
           want == report[r].want
<1>1. m \in Msgs /\ row \in Row /\ report[r].at = "save"
  BY DEF ReportSave, TypeOK, Copy, IdleReport
<1>2. want \in Reported
  BY <1>1 DEF Copies, Outcomes, Reported
<1>3. row.status \in Allowed(want) \/ Recovering(row)
  BY <1>1 DEF Copies
<1>4. rows[m] = row \/ (row.status = "dispatched" /\ Presumed(rows[m]))
  BY <1>1 DEF Alone
<1>5. rows'[m] = Saved(row, want) /\ \A n \in Msgs \ {m} : rows'[n] = rows[n]
  BY <1>1 DEF ReportSave, TypeOK
<1>6. StageOf(rows'[m]) = want
  <2>1. /\ rows'[m].status = want
        /\ want = "failed" => rows'[m].error = "send_failed"
    BY <1>1, <1>2, <1>5, SavedStatus
  <2> QED BY <1>2, <2>1 DEF StageOf, Presumed, Reported
<1>7. <<StageOf(rows[m]), want>> \in L!Edges
  <2>1. CASE Presumed(rows[m])
    BY <1>2, <2>1 DEF StageOf, L!Edges, Reported
  <2>2. CASE ~Presumed(rows[m])
    <3>1. rows[m].status \in Allowed(want)
      BY <1>3, <1>4, <2>2 DEF Presumed, Recovering
    <3> QED BY <1>2, <2>2, <3>1 DEF Allowed, StageOf, L!Edges, Reported
  <2> QED BY <2>1, <2>2
<1> DEFINE a == StageOf(rows[m])
<1>8. \A n \in {m} : StageOf(rows[n]) = a /\ StageOf(rows'[n]) = want
  BY <1>6
<1>9. {m} \in SUBSET Msgs /\ <<a, want>> \in L!Edges
  BY <1>1, <1>7
<1> HIDE DEF a, m, want
<1> QED BY <1>5, <1>8, <1>9, RowsMove

LEMMA StageStep ==
  ASSUME TypeOK, Copies, Alone, [Next]_vars
  PROVE  [L!Next]_Stage
<1>1. CASE rows' = rows
  BY <1>1 DEF Stage, Presumed
<1>2. CASE Developer
  <2>1. ASSUME NEW S \in Batches, NEW t \in Ttls, NEW d \in Delays, Insert(S, t, d) PROVE L!Next
    <3>1. S \in SUBSET Msgs
      BY DispatchAssumption DEF Batches
    <3> QED BY <2>1, <3>1, StatusMoves DEF Insert
  <2>2. ASSUME NEW S, SetStatus(S \cap InStatus("queued"), "canceled") PROVE L!Next
    <3>1. /\ S \cap InStatus("queued") \in SUBSET Msgs
          /\ \A m \in S \cap InStatus("queued") : rows[m].status = "queued"
      BY DEF InStatus
    <3> QED BY <2>2, <3>1, StatusMoves
  <2>3. ASSUME NEW m \in Msgs, MessageCancel(m) PROVE L!Next
    <3>1. {m} \in SUBSET Msgs /\ \A n \in {m} : rows[n].status = "queued"
      BY <2>3 DEF MessageCancel
    <3> QED BY <2>3, <3>1, StatusMoves DEF MessageCancel
  <2> QED BY <1>1, <1>2, <2>1, <2>2, <2>3 DEF Developer, CancelQueued, ControlSave,
     ControlCancelMessages, ControlCancelSave, DeviceAction
<1>3. ASSUME NEW c \in Conns, Polling(c) PROVE [L!Next]_Stage
  <2>1. CASE ClaimJobs(c)
    <3> DEFINE S == FirstBatch(Claimable(Owner[c]))
    <3>1. S \in SUBSET Msgs /\ \A m \in S : rows[m].status = "queued"
      BY DEF FirstBatch, Claimable, InStatus
    <3>2. SetStatus(S, "dispatched")
      BY <2>1 DEF ClaimJobs
    <3> HIDE DEF S
    <3> QED BY <3>1, <3>2, StatusMoves
  <2> QED BY <1>1, <1>3, <2>1 DEF Polling, PollStart, PollTimeout, PollReply, PollReplyLost
<1>4. ASSUME NEW r \in Reports, Reporting(r) PROVE [L!Next]_Stage
  BY <1>1, <1>4, SaveMoves DEF Reporting, ReportRead, ReportNotify, ReportCrash
<1>5. ASSUME NEW k \in Runs, Progress(k) \/ RunCrash(k) PROVE [L!Next]_Stage
  <2>1. ASSUME NEW m \in Msgs, RunExpire(k, m) PROVE L!Next
    <3>1. /\ {m} \cap InStatus("queued") \in SUBSET Msgs
          /\ \A n \in {m} \cap InStatus("queued") : rows[n].status = "queued"
          /\ SetStatus({m} \cap InStatus("queued"), "expired")
      BY <2>1 DEF RunExpire, InStatus
    <3> QED BY <3>1, StatusMoves
  <2> QED BY <1>1, <1>5, <2>1, ReclaimMoves DEF Progress, RunStart, RunNotify, RunCrash
<1>6. CASE Phone \/ Tick \/ UNCHANGED vars
  BY <1>1, <1>6 DEF Phone, PhoneSend, PhoneReceipt, PhoneDies, Tick, vars
<1> QED BY <1>2, <1>3, <1>4, <1>5, <1>6 DEF Next

(* While the reports on a message come one at a time, the system           *)
(* implements the public lifecycle: every step moves messages along one of *)
(* its edges or along none.                                                *)
THEOREM ImplementsLifecycle == ASSUME ~Overlap PROVE Spec => Refines
<1>1. Init => L!Init
  <2>1. ASSUME Init PROVE \A m \in Msgs : Stage[m] = "none"
    <3>1. rows = [m \in Msgs |-> NewRow]
      BY <2>1 DEF Init
    <3> QED BY <3>1 DEF Stage, Presumed, NewRow
  <2> QED BY <2>1 DEF L!Init, Stage
<1>2. Init => Alone
  BY DEF Init, Alone, IdleReport
<1>3. IInv /\ Alone /\ [Next]_vars => Alone' /\ [L!Next]_Stage
  BY AloneStep, StageStep DEF IInv
<1> QED BY <1>1, <1>2, <1>3, Invariance, PTL DEF Spec, Refines, L!Spec
-----------------------------------------------------------------------------
(* A failure the device reported stays while reports come one at a time:   *)
(* that they overlap is the only way to lose it.                           *)
THEOREM FailureStays == ASSUME ~Overlap PROVE Spec => GenuineFailureStays
<1> DEFINE Stays == \A m \in Msgs : rows[m].status = "failed" /\ ~Presumed(rows[m])
                                   => rows'[m].status = "failed"
<1>1. Init => Alone
  BY DEF Init, Alone, IdleReport
<1>2. IInv /\ Alone /\ [Next]_vars => Alone'
  BY AloneStep DEF IInv
<1>3. IInv /\ Alone /\ [Next]_vars => [Stays]_vars
  <2> SUFFICES ASSUME IInv, Alone, Next, NEW m \in Msgs,
                      rows[m].status = "failed", ~Presumed(rows[m])
               PROVE  rows'[m].status = "failed"
    OBVIOUS
  <2>1. Past(rows[m], "failed") /\ "failed" \in Reported
    BY DEF Past, Reported
  <2>2. Past(rows'[m], "failed")
    BY <2>1, PastStays DEF IInv
  <2> QED BY <2>2 DEF Past
<1> HIDE DEF Stays
<1>4. Spec => [][Stays]_vars
  BY <1>1, <1>2, <1>3, Invariance, PTL DEF Spec
<1> QED BY <1>4 DEF Stays, GenuineFailureStays
-----------------------------------------------------------------------------
(* Deadlines.  A run acts on what it read; but what had come due by then   *)
(* has not become undue since, for nothing sets a deadline twice.          *)

Claimed(m) == rows[m].status \notin {"none", "queued"}

LEMMA StatusStays ==
  ASSUME TypeOK, Copies, [Next]_vars, NEW m \in Msgs
  PROVE  /\ rows[m].status # "none" => rows'[m].status # "none"
         /\ Claimed(m) => Claimed(m)'
<1>1. ASSUME NEW r \in Reports, ReportSave(r), report[r].msg = m
      PROVE  rows'[m].status \in Reported
  <2>1. m \in Msgs /\ report[r].row \in Row /\ report[r].at = "save"
    BY <1>1 DEF ReportSave, TypeOK, Copy, IdleReport
  <2>2. report[r].want \in Reported
    BY <1>1, <2>1 DEF Copies, Outcomes, Reported
  <2>3. rows'[m] = Saved(report[r].row, report[r].want)
    BY <1>1 DEF ReportSave, TypeOK
  <2> QED BY <2>1, <2>2, <2>3, SavedStatus
<1> QED BY <1>1, RowStep DEF Claimed, Reported, Presumed

(* What a step may do to the deadlines of one message.                     *)
LEMMA LeftStep ==
  ASSUME TypeOK, [Next]_vars, NEW m \in Msgs
  PROVE  \/ /\ left'[m].ttl = left[m].ttl /\ left'[m].due = left[m].due
            /\ Claimed(m) => left'[m].lease = left[m].lease
         \/ /\ rows[m].status = "none"
            /\ \E t \in Ttls, d \in Delays : left'[m] = [ttl |-> t, due |-> d, lease |-> 0]
         \/ left'[m] = [ttl |-> CountDown(left[m].ttl), due |-> CountDown(left[m].due),
                        lease |-> CountDown(left[m].lease)]
<1> DEFINE Goal ==
     \/ /\ left'[m].ttl = left[m].ttl /\ left'[m].due = left[m].due
        /\ Claimed(m) => left'[m].lease = left[m].lease
     \/ /\ rows[m].status = "none"
        /\ \E t \in Ttls, d \in Delays : left'[m] = [ttl |-> t, due |-> d, lease |-> 0]
     \/ left'[m] = [ttl |-> CountDown(left[m].ttl), due |-> CountDown(left[m].due),
                    lease |-> CountDown(left[m].lease)]
<1>1. CASE left' = left
  BY <1>1
<1>2. ASSUME NEW S \in Batches, NEW t \in Ttls, NEW d \in Delays, Insert(S, t, d) PROVE Goal
  <2>1. CASE m \in S
    BY <1>2, <2>1 DEF Insert
  <2>2. CASE m \notin S
    BY <1>2, <2>2 DEF Insert
  <2> QED BY <2>1, <2>2
<1>3. ASSUME NEW c \in Conns, ClaimJobs(c) PROVE Goal
  <2> DEFINE S == FirstBatch(Claimable(Owner[c]))
  <2>1. left' = [n \in Msgs |-> IF n \in S THEN [left[n] EXCEPT !.lease = LeaseTime] ELSE left[n]]
    BY <1>3 DEF ClaimJobs
  <2>2. m \in S => ~Claimed(m)
    BY DEF FirstBatch, Claimable, InStatus, Claimed
  <2>3. left[m] \in Deadlines
    BY DEF TypeOK
  <2> HIDE DEF S
  <2>4. /\ left'[m].ttl = left[m].ttl /\ left'[m].due = left[m].due
        /\ m \notin S => left'[m].lease = left[m].lease
    BY <2>1, <2>3 DEF Deadlines
  <2> QED BY <2>2, <2>4
<1>4. CASE Tick
  BY <1>4 DEF Tick
<1>5. CASE Developer
  BY <1>1, <1>2, <1>5 DEF Developer, MessageCancel, CancelQueued, ControlSave,
     ControlCancelMessages, ControlCancelSave, DeviceAction
<1>6. ASSUME NEW c \in Conns, Polling(c) PROVE Goal
  BY <1>1, <1>3, <1>6 DEF Polling, PollStart, PollTimeout, PollReply, PollReplyLost
<1>7. ASSUME NEW r \in Reports, Reporting(r) PROVE Goal
  BY <1>1, <1>7 DEF Reporting, ReportRead, ReportSave, ReportNotify, ReportCrash
<1>8. ASSUME NEW k \in Runs, Progress(k) \/ RunCrash(k) PROVE Goal
  BY <1>1, <1>8 DEF Progress, RunStart, RunExpire, RunNotify, RunReclaim, RunCrash
<1>9. CASE Phone \/ UNCHANGED vars
  BY <1>1, <1>9 DEF Phone, PhoneSend, PhoneReceipt, PhoneDies, vars
<1> QED BY <1>4, <1>5, <1>6, <1>7, <1>8, <1>9 DEF Next

LEMMA Elapsed ==
  ASSUME TypeOK, [Next]_vars, NEW m \in Msgs
  PROVE  /\ rows[m].status # "none" /\ left[m].ttl = 0 => left'[m].ttl = 0
         /\ rows[m].status # "none" /\ left[m].due = 0 => left'[m].due = 0
         /\ Claimed(m) /\ left[m].lease = 0 => left'[m].lease = 0
<1>1. CountDown(0) = 0
  BY DEF CountDown
<1>2. CASE /\ left'[m].ttl = left[m].ttl /\ left'[m].due = left[m].due
           /\ Claimed(m) => left'[m].lease = left[m].lease
  BY <1>2
<1>3. CASE rows[m].status = "none"
  BY <1>3 DEF Claimed
<1>4. CASE left'[m] = [ttl |-> CountDown(left[m].ttl), due |-> CountDown(left[m].due),
                       lease |-> CountDown(left[m].lease)]
  BY <1>1, <1>4
<1> QED BY <1>2, <1>3, <1>4, LeftStep

(* What the server gave up had run out of time: no message expires before  *)
(* its ttl, and no job is presumed lost while its lease runs, though the   *)
(* run that says so had read the row long before.                          *)
DeadlinesKept ==
  \A m \in Msgs :
    /\ rows[m].status = "expired" => left[m].ttl = 0
    /\ Presumed(rows[m]) => left[m].lease = 0

(* A run holds only what had come due.                                     *)
ReadInTime ==
  \A m \in Msgs, k \in Runs :
    /\ m \in run[k].overdue => rows[m].status # "none" /\ left[m].ttl = 0
    /\ m \in run[k].lapsed => Claimed(m) /\ left[m].lease = 0

LEMMA ReadInTimeStep ==
  ASSUME TypeOK, Copies, ReadInTime, [Next]_vars
  PROVE  ReadInTime'
<1> SUFFICES ASSUME NEW m \in Msgs, NEW k \in Runs
             PROVE  /\ m \in run'[k].overdue => rows'[m].status # "none" /\ left'[m].ttl = 0
                    /\ m \in run'[k].lapsed => Claimed(m)' /\ left'[m].lease = 0
  BY DEF ReadInTime, Claimed
<1>1. /\ m \in run[k].overdue => rows'[m].status # "none" /\ left'[m].ttl = 0
      /\ m \in run[k].lapsed => Claimed(m)' /\ left'[m].lease = 0
  BY StatusStays, Elapsed DEF ReadInTime
<1>2. CASE RunStart(k)
  <2>1. /\ run'[k].overdue = Overdue /\ run'[k].lapsed = Lapsed
        /\ rows' = rows /\ left' = left
    BY <1>2 DEF RunStart, TypeOK
  <2> QED BY <2>1 DEF Overdue, Lapsed, InStatus, Claimed
<1>3. CASE RunReclaim(k) \/ RunCrash(k)
  <2>1. run'[k] = IdleRun
    BY <1>3 DEF RunReclaim, RunCrash, TypeOK
  <2> QED BY <2>1 DEF IdleRun
<1>4. ASSUME NEW n \in Msgs, RunExpire(k, n) \/ RunNotify(k, n)
      PROVE  run'[k].overdue \subseteq run[k].overdue /\ run'[k].lapsed = run[k].lapsed
  <2>1. run \in [Runs -> RunState]
    BY DEF TypeOK
  <2> QED BY <1>4, <2>1 DEF RunExpire, RunNotify, RunState
<1> QED BY <1>1, <1>2, <1>3, <1>4, RunStep

LEMMA DeadlinesKeptStep ==
  ASSUME TypeOK, Copies, Truth, ReadInTime, DeadlinesKept, [Next]_vars
  PROVE  DeadlinesKept'
<1> SUFFICES ASSUME NEW m \in Msgs
             PROVE  /\ rows'[m].status = "expired" => left'[m].ttl = 0
                    /\ Presumed(rows'[m]) => left'[m].lease = 0
  BY DEF DeadlinesKept, Presumed
<1>1. CASE rows'[m] = rows[m]
  BY <1>1, Elapsed DEF DeadlinesKept, Presumed, Claimed
<1>2. CASE /\ rows[m].status \in {"none", "queued"}
           /\ rows'[m].status \in {"queued", "dispatched", "canceled"}
  BY <1>2 DEF Presumed
<1>3. CASE rows'[m].status = "expired" /\ \E k \in Runs : m \in run[k].overdue
  BY <1>3, Elapsed DEF ReadInTime, Presumed
<1>4. CASE Presumed(rows'[m]) /\ \E k \in Runs : m \in run[k].lapsed
  BY <1>4, Elapsed DEF ReadInTime, Presumed
<1>5. ASSUME NEW r \in Reports, ReportSave(r), report[r].msg = m
      PROVE  rows'[m].status # "expired" /\ ~Presumed(rows'[m])
  <2>1. report[r].row \in Row /\ report[r].at = "save"
    BY <1>5 DEF ReportSave, TypeOK, Copy, IdleReport
  <2>2. report[r].want \in Reported
    BY <1>5, <2>1 DEF Copies, Outcomes, Reported
  <2>3. rows'[m] = Saved(report[r].row, report[r].want)
    BY <1>5 DEF ReportSave, TypeOK
  <2> QED BY <2>1, <2>2, <2>3, SavedStatus DEF Reported, Presumed
<1> QED BY <1>1, <1>2, <1>3, <1>4, <1>5, RowStep

LEMMA Deadlined == Spec => [](IInv /\ ReadInTime /\ DeadlinesKept)
<1>1. Init => ReadInTime /\ DeadlinesKept
  <2> SUFFICES ASSUME Init PROVE ReadInTime /\ DeadlinesKept
    OBVIOUS
  <2>1. \A k \in Runs : run[k].overdue = {} /\ run[k].lapsed = {}
    BY DEF Init, IdleRun
  <2>2. \A m \in Msgs : rows[m].status = "none"
    BY DEF Init, NewRow
  <2> QED BY <2>1, <2>2 DEF ReadInTime, DeadlinesKept, Presumed
<1>2. IInv /\ ReadInTime /\ DeadlinesKept /\ [Next]_vars => ReadInTime' /\ DeadlinesKept'
  BY ReadInTimeStep, DeadlinesKeptStep DEF IInv
<1> QED BY <1>1, <1>2, Invariance, PTL DEF Spec

(* Nothing is given up before its time.                                    *)
THEOREM GivenUpInTime == Spec => []DeadlinesKept
BY Deadlined, PTL

(* If no message may be scheduled for later than its ttl, none expires     *)
(* before it could have been sent: that the code does not compare the two  *)
(* is the only way it can.                                                 *)
THEOREM ExpiresAfterDue ==
  ASSUME \A t \in Ttls, d \in Delays : d <= t
  PROVE  Spec => []ExpireOnlyAfterDue
<1> DEFINE DueFirst == \A m \in Msgs : left[m].due <= left[m].ttl
<1>1. Init => DueFirst
  BY DEF Init
<1>2. TypeOK /\ DueFirst /\ [Next]_vars => DueFirst'
  <2> SUFFICES ASSUME TypeOK, DueFirst, [Next]_vars, NEW m \in Msgs
               PROVE  left'[m].due <= left'[m].ttl
    OBVIOUS
  <2>1. left[m].due \in Nat /\ left[m].ttl \in Nat /\ left[m].due <= left[m].ttl
    BY DEF TypeOK, Deadlines
  <2>2. CountDown(left[m].due) <= CountDown(left[m].ttl)
    BY <2>1 DEF CountDown
  <2>3. CASE left'[m].ttl = left[m].ttl /\ left'[m].due = left[m].due
    BY <2>1, <2>3
  <2>4. CASE \E t \in Ttls, d \in Delays : left'[m] = [ttl |-> t, due |-> d, lease |-> 0]
    BY <2>4
  <2>5. CASE left'[m] = [ttl |-> CountDown(left[m].ttl), due |-> CountDown(left[m].due),
                         lease |-> CountDown(left[m].lease)]
    BY <2>2, <2>5
  <2> QED BY <2>3, <2>4, <2>5, LeftStep
<1>3. TypeOK /\ DueFirst /\ DeadlinesKept => ExpireOnlyAfterDue
  BY DEF TypeOK, Deadlines, DeadlinesKept, ExpireOnlyAfterDue
<1> HIDE DEF DueFirst
<1>4. IInv => TypeOK
  BY DEF IInv
<1> QED BY <1>1, <1>2, <1>3, <1>4, Deadlined, PTL DEF Spec
=============================================================================
