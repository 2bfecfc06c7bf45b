--------------------------- MODULE CampaignProofs ---------------------------
(***************************************************************************)
(* A campaign only takes steps of Dispatch, so what is proved of messages  *)
(* holds of the messages of a campaign; and its own status tells the       *)
(* truth: a message that has left the queue never comes back to it, so     *)
(* what a thread saw before it saves the status is still so afterwards.    *)
(***************************************************************************)
EXTENDS Campaigns, DispatchProofs

LEMMA StepsOfDispatch == [CampaignNext]_allVars => [Next]_vars
<1> SUFFICES ASSUME [CampaignNext]_allVars PROVE [Next]_vars
  OBVIOUS
<1>1. ASSUME NEW t \in Ttls, NEW d \in Delays, Create(t, d) PROVE Next
  <2>1. CampaignMsgs \in Batches
    BY CampaignAssumption DEF Batches
  <2> QED BY <1>1, <2>1 DEF Create, Next, Developer
<1>2. CASE Pause \/ Resume \/ Cancel \/ CancelSave
  BY <1>2 DEF Pause, Resume, Cancel, CancelSave, Next, Developer
<1>3. ASSUME NEW v \in Viewers, View(v) PROVE [Next]_vars
  BY <1>3 DEF View, Detail, Check, Complete, Next, Developer
<1>4. CASE Rest
  <2>1. ASSUME NEW m \in Msgs \ CampaignMsgs, NEW t \in Ttls, NEW d \in Delays, Insert({m}, t, d)
        PROVE  Next
    BY <2>1 DEF Batches, Next, Developer
  <2> QED BY <1>4, <2>1 DEF Rest, Next, Developer
<1>5. CASE UNCHANGED allVars
  BY <1>5 DEF allVars
<1> QED BY <1>1, <1>2, <1>3, <1>4, <1>5 DEF CampaignNext, Call

(* Every behaviour of a campaign is one of Dispatch.                       *)
THEOREM CampaignIsDispatch == CampaignSpec => Spec
<1>1. CampaignInit => Init
  BY DEF CampaignInit
<1> QED BY <1>1, StepsOfDispatch, PTL DEF CampaignSpec, Spec
-----------------------------------------------------------------------------
(* No message comes back to where it was: out of nothing it is queued, out *)
(* of the queue dispatched, and nothing else leads to either.              *)
LEMMA Onward ==
  ASSUME TypeOK, [Next]_vars, NEW m \in Msgs
  PROVE  /\ rows'[m].status = "none" => rows[m].status = "none"
         /\ rows'[m].status = "queued" => rows[m].status \in {"none", "queued"}
         /\ rows'[m].status = "dispatched" => rows[m].status \in {"queued", "dispatched"}
<1> DEFINE Goal ==
     /\ rows'[m].status = "none" => rows[m].status = "none"
     /\ rows'[m].status = "queued" => rows[m].status \in {"none", "queued"}
     /\ rows'[m].status = "dispatched" => rows[m].status \in {"queued", "dispatched"}
<1>1. ASSUME NEW S, NEW s, SetStatus(S, s)
      PROVE  rows'[m].status = IF m \in S THEN s ELSE rows[m].status
  <2>1. rows[m] \in Row
    BY DEF TypeOK
  <2> QED BY <1>1, <2>1 DEF SetStatus, Row
<1>2. ASSUME NEW S \in Batches, NEW t \in Ttls, NEW d \in Delays, Insert(S, t, d) PROVE Goal
  BY <1>1, <1>2 DEF Insert
<1>3. ASSUME NEW S, SetStatus(S, "canceled") PROVE Goal
  BY <1>1, <1>3
<1>4. ASSUME NEW c \in Conns, ClaimJobs(c) PROVE Goal
  <2> DEFINE ids == FirstBatch(Claimable(Owner[c]))
  <2>1. SetStatus(ids, "dispatched")
    BY <1>4 DEF ClaimJobs
  <2>2. m \in ids => rows[m].status = "queued"
    BY DEF FirstBatch, Claimable, InStatus
  <2> HIDE DEF ids
  <2> QED BY <1>1, <2>1, <2>2
<1>5. ASSUME NEW r \in Reports, ReportSave(r) PROVE Goal
  <2>1. report[r].row \in Row
    BY <1>5 DEF ReportSave, TypeOK, Copy, IdleReport
  <2>2. Saved(report[r].row, report[r].want).status \in {"sent", "delivered", "failed"}
    BY <2>1 DEF Saved, Row
  <2> QED BY <1>5, <2>2 DEF ReportSave, TypeOK
<1>6. ASSUME NEW k \in Runs, NEW n \in Msgs, RunExpire(k, n) PROVE Goal
  BY <1>1, <1>6 DEF RunExpire
<1>7. ASSUME NEW k \in Runs, RunReclaim(k) PROVE Goal
  <2>1. rows[m] \in Row
    BY DEF TypeOK
  <2> QED BY <1>7, <2>1 DEF RunReclaim, Row
<1>8. CASE rows' = rows
  BY <1>8
<1>9. CASE Developer
  BY <1>2, <1>3, <1>8, <1>9 DEF Developer, MessageCancel, CancelQueued, ControlSave,
     ControlCancelMessages, ControlCancelSave, DeviceAction
<1>10. ASSUME NEW c \in Conns, Polling(c) PROVE Goal
  BY <1>4, <1>8, <1>10 DEF Polling, PollStart, PollTimeout, PollReply, PollReplyLost
<1>11. ASSUME NEW r \in Reports, Reporting(r) PROVE Goal
  BY <1>5, <1>8, <1>11 DEF Reporting, ReportRead, ReportNotify, ReportCrash
<1>12. ASSUME NEW k \in Runs, Progress(k) \/ RunCrash(k) PROVE Goal
  BY <1>6, <1>7, <1>8, <1>12 DEF Progress, RunStart, RunNotify, RunCrash
<1>13. CASE Phone \/ Tick \/ UNCHANGED vars
  BY <1>8, <1>13 DEF Phone, PhoneSend, PhoneReceipt, PhoneDies, Tick, vars
<1> QED BY <1>9, <1>10, <1>11, <1>12, <1>13 DEF Next
-----------------------------------------------------------------------------
Born == \A m \in CampaignMsgs : rows[m].status # "none"
Withdrawn == \A m \in CampaignMsgs : rows[m].status \notin {"none", "queued"}
Over == \A m \in CampaignMsgs : rows[m].status \notin {"none", "queued", "dispatched"}

(* What the campaign's status, a cancel between its two statements and a   *)
(* view between its query and its save know of the messages.               *)
CInv ==
  /\ viewer \in [Viewers -> {"idle", "check", "save"}]
  /\ campaign # "none" => Born
  /\ campaign = "canceled" \/ control = "canceling" => Withdrawn
  /\ campaign = "completed" => Over
  /\ \A v \in Viewers : /\ viewer[v] # "idle" => campaign # "none"
                        /\ viewer[v] = "save" => Over

LEMMA Lasting ==
  ASSUME TypeOK, [Next]_vars
  PROVE  (Born => Born') /\ (Withdrawn => Withdrawn') /\ (Over => Over')
BY Onward, DispatchAssumption DEF Born, Withdrawn, Over

LEMMA CInit == CampaignInit => CInv
BY DEF CampaignInit, Init, CInv

LEMMA CStep == TypeOK /\ CInv /\ [CampaignNext]_allVars => CInv'
<1> SUFFICES ASSUME TypeOK, CInv, [CampaignNext]_allVars PROVE CInv'
  OBVIOUS
<1>1. (Born => Born') /\ (Withdrawn => Withdrawn') /\ (Over => Over')
  BY StepsOfDispatch, Lasting
<1> USE DEF CInv
<1>2. ASSUME NEW t \in Ttls, NEW d \in Delays, Create(t, d) PROVE CInv'
  <2>1. Born' /\ ~Withdrawn /\ ~Over
    <3>1. \A m \in CampaignMsgs : m \in Msgs /\ rows[m] \in Row /\ rows[m].status = "none"
      BY <1>2, DispatchAssumption DEF Create, Insert, TypeOK
    <3>2. \A m \in CampaignMsgs : rows'[m] = [rows[m] EXCEPT !.status = "queued"]
      BY <1>2, <3>1 DEF Create, Insert, SetStatus
    <3>3. \A m \in CampaignMsgs : rows'[m].status = "queued"
      BY <3>1, <3>2 DEF Row
    <3> QED BY <3>1, <3>3, CampaignAssumption DEF Born, Withdrawn, Over
  <2>2. campaign' \in {"scheduled", "running"} /\ viewer' = viewer /\ control' = control
    BY <1>2 DEF Create, Insert
  <2> QED BY <2>1, <2>2
<1>3. CASE Pause \/ Resume
  <2>1. Born /\ viewer' = viewer /\ control' = control /\ campaign' \in {"paused", "scheduled", "running"}
    BY <1>3 DEF Pause, Resume, ControlSave, Created, Born
  <2> QED BY <1>1, <2>1
<1>4. CASE Cancel
  <2>1. Created /\ SetStatus(CampaignMsgs \cap InStatus("queued"), "canceled")
    BY <1>4 DEF Cancel, ControlCancelMessages
  <2>2. ASSUME NEW m \in CampaignMsgs PROVE rows'[m].status \notin {"none", "queued"}
    <3>1. m \in Msgs /\ rows[m] \in Row /\ rows[m].status # "none"
      BY <2>1, DispatchAssumption DEF Created, TypeOK
    <3> QED BY <2>1, <3>1 DEF SetStatus, InStatus, Row
  <2> QED BY <1>1, <1>4, <2>2 DEF Cancel, campaignVars, Withdrawn
<1>5. CASE CancelSave
  <2>1. Withdrawn /\ campaign' = "canceled" /\ viewer' = viewer
    BY <1>5 DEF CancelSave, ControlCancelSave
  <2>2. Withdrawn => Born
    BY DEF Withdrawn, Born
  <2> QED BY <1>1, <2>1, <2>2
<1>6. ASSUME NEW v \in Viewers, Detail(v) \/ Check(v) PROVE CInv'
  <2>1. campaign # "none" /\ UNCHANGED <<rows, control, campaign>>
    BY <1>6 DEF Detail, Check, vars, Open
  <2>2. viewer' \in [Viewers -> {"idle", "check", "save"}]
    BY <1>6 DEF Detail, Check
  <2>3. viewer'[v] = "save" => Over
    <3>1. Active = {} => Over
      <4>1. \A m \in CampaignMsgs : rows[m].status # "none"
        BY <2>1 DEF Born
      <4> QED BY <4>1 DEF Active, Over
    <3> QED BY <1>6, <3>1 DEF Detail, Check
  <2>4. \A w \in Viewers \ {v} : viewer'[w] = viewer[w]
    BY <1>6 DEF Detail, Check
  <2> QED BY <1>1, <2>1, <2>2, <2>3, <2>4
<1>7. ASSUME NEW v \in Viewers, Complete(v) PROVE CInv'
  <2>1. /\ Over /\ campaign' = "completed" /\ control' = control
        /\ viewer' = [viewer EXCEPT ![v] = "idle"]
    BY <1>7 DEF Complete, ControlSave
  <2>2. Over => Born
    BY DEF Over, Born
  <2> QED BY <1>1, <2>1, <2>2
<1>8. CASE Rest
  <2>1. campaign' = campaign /\ viewer' = viewer
    BY <1>8 DEF Rest, campaignVars
  <2>2. control' = control
    BY <1>8 DEF Rest, Insert, MessageCancel, CancelQueued, DeviceAction, Polling, PollStart,
       ClaimJobs, PollTimeout, PollReply, PollReplyLost, Reporting, ReportRead, ReportSave,
       ReportNotify, ReportCrash, Progress, RunStart, RunExpire, RunNotify, RunReclaim, RunCrash,
       Phone, PhoneSend, PhoneReceipt, PhoneDies, Tick
  <2> QED BY <1>1, <2>1, <2>2
<1>9. CASE UNCHANGED allVars
  BY <1>1, <1>9 DEF allVars, campaignVars, vars
<1> QED BY <1>2, <1>3, <1>4, <1>5, <1>6, <1>7, <1>8, <1>9 DEF CampaignNext, Call, View

LEMMA CampaignInvariance == CampaignSpec => [](TypeOK /\ CInv)
<1>1. CampaignInit => TypeOK /\ CInv
  BY TypeInit, CInit DEF CampaignInit
<1>2. TypeOK /\ CInv /\ [CampaignNext]_allVars => (TypeOK /\ CInv)'
  BY StepsOfDispatch, TypeStep, CStep
<1> QED BY <1>1, <1>2, PTL DEF CampaignSpec

(* A job in hand is in a row that waits for it or has given it up.         *)
LEMMA HandsShow ==
  ASSUME TypeOK, Hands, Truth, NEW m \in Msgs, InHand(m)
  PROVE  rows[m].status = "dispatched" \/ Presumed(rows[m])
<1>1. rows[m] \in Row
  BY DEF TypeOK
<1>2. phone[m] \in {"none", "held"}
  BY DEF InHand, Hands
<1>3. ~rows[m].sent /\ ~rows[m].delivered /\ rows[m].error # "send_failed"
  BY <1>2 DEF Hands, Truth, Truthful
<1>4. rows[m].status \notin Unclaimed
  BY DEF InHand, Hands
<1>5. RowConsistent(rows[m])
  BY DEF Truth
<1>6. rows[m].status \in {"dispatched", "failed"}
  BY <1>1, <1>3, <1>4, <1>5 DEF Row, Status, Unclaimed, RowConsistent
<1>7. rows[m].status = "failed" => rows[m].error = "lease_timeout"
  BY <1>1, <1>3, <1>5 DEF Row, Errors, RowConsistent
<1> QED BY <1>6, <1>7 DEF Presumed

(* No row of a campaign that says completed waits to be handed out or to   *)
(* be reported, and what the phone has in hand all the same is given up.   *)
THEOREM CompletedHasEnded == CampaignSpec => []CompletedIsOver
<1>1. IInv /\ CInv => CompletedIsOver
  <2> SUFFICES ASSUME IInv, CInv, campaign = "completed", NEW m \in CampaignMsgs
               PROVE  /\ rows[m].status \notin {"queued", "dispatched"}
                      /\ InHand(m) => Presumed(rows[m])
    BY DEF CompletedIsOver
  <2>1. rows[m].status \notin {"queued", "dispatched"}
    BY DEF CInv, Over
  <2> QED BY <2>1, HandsShow, DispatchAssumption DEF IInv
<1> QED BY CampaignInvariance, CampaignIsDispatch, Invariance, <1>1, PTL

(* While a campaign says canceled no message of it is queued and none is   *)
(* handed out; a resume may start it again, and finds nothing to send.     *)
THEOREM CanceledStays == CampaignSpec => CancelHolds
<1>1. TypeOK /\ CInv /\ [CampaignNext]_allVars =>
        [campaign = "canceled" =>
           \A m \in CampaignMsgs : /\ rows[m].status # "queued"
                                   /\ rows'[m].status = "dispatched" => rows[m].status = "dispatched"]_allVars
  BY StepsOfDispatch, Onward, DispatchAssumption DEF CInv, Withdrawn
<1> QED BY CampaignInvariance, <1>1, PTL DEF CampaignSpec, CancelHolds
=============================================================================
