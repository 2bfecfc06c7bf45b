----------------------------- MODULE Campaigns ------------------------------
(***************************************************************************)
(* A campaign on top of Dispatch: Campaign.status, the calls that change   *)
(* it, and the completion that a read of the campaign's detail performs on *)
(* the way (_maybe_complete).  Every action that saves the status is also  *)
(* a step of Dispatch, which knows the status only as a gate that is shut  *)
(* when claim_jobs excludes the campaign; so what is proved of Dispatch    *)
(* holds here.                                                             *)
(***************************************************************************)
EXTENDS Dispatch

CONSTANT Viewers     \* web threads serving the detail of the campaign

ASSUME CampaignAssumption == CampaignMsgs # {}

VARIABLES
  campaign,          \* Campaign.status, "none" before the campaign is created
  viewer             \* where each viewer is between its two queries and its save

campaignVars == <<campaign, viewer>>
allVars == <<vars, campaignVars>>

(* create_campaign is one transaction: the campaign and all its messages.  *)
(* It is scheduled when send_at is given, be that in the past.             *)
Create(ttl, delay) ==
  /\ Insert(CampaignMsgs, ttl, delay)
  /\ campaign' \in IF delay > 0 THEN {"scheduled"} ELSE {"scheduled", "running"}
  /\ UNCHANGED viewer

Pause ==
  /\ ControlSave("shut")
  /\ campaign' = "paused"
  /\ UNCHANGED viewer

Resume ==
  /\ ControlSave("open")
  /\ campaign' = IF \E m \in CampaignMsgs : left[m].due > 0 THEN "scheduled" ELSE "running"
  /\ UNCHANGED viewer

CancelForgotten ==     \* mutant: the messages stay queued
  /\ Created /\ control = "idle"
  /\ control' = "canceling"
  /\ UNCHANGED <<rows, left, gate, active, poll, report, run, phone, radio, outbox, campaignVars>>

Cancel == ControlCancelMessages /\ UNCHANGED campaignVars

CancelSave ==
  /\ ControlCancelSave
  /\ campaign' = "canceled"
  /\ UNCHANGED viewer
-----------------------------------------------------------------------------
(* The detail view: read the campaign, look for messages under way, and    *)
(* save "completed" when there is none.                                    *)

OpenOnlyRunning == {"running"}     \* mutant: a scheduled campaign never completes
Open == {"running", "scheduled"}

ActiveButHanded == {m \in CampaignMsgs : rows[m].status \in {"queued", "sent"}}
                                   \* mutant: jobs the phone holds are forgotten
Active == {m \in CampaignMsgs : rows[m].status \in {"queued", "dispatched", "sent"}}

Detail(v) ==
  /\ viewer[v] = "idle" /\ campaign \in Open
  /\ viewer' = [viewer EXCEPT ![v] = "check"]
  /\ UNCHANGED <<vars, campaign>>

Check(v) ==
  /\ viewer[v] = "check"
  /\ viewer' = [viewer EXCEPT ![v] = IF Active = {} THEN "save" ELSE "idle"]
  /\ UNCHANGED <<vars, campaign>>

(* The save trusts the status read before: it may undo a pause or cancel.  *)
Complete(v) ==
  /\ viewer[v] = "save"
  /\ ControlSave("open")
  /\ campaign' = "completed"
  /\ viewer' = [viewer EXCEPT ![v] = "idle"]
-----------------------------------------------------------------------------
CampaignInit ==
  /\ Init
  /\ campaign = "none"
  /\ viewer = [v \in Viewers |-> "idle"]

Call ==
  \/ \E t \in Ttls, d \in Delays : Create(t, d)
  \/ Pause \/ Resume \/ Cancel \/ CancelSave

View(v) == Detail(v) \/ Check(v) \/ Complete(v)

(* The steps of Dispatch that do not concern the campaign's status.        *)
Rest ==
  /\ \/ \E m \in Msgs \ CampaignMsgs, t \in Ttls, d \in Delays : Insert({m}, t, d)
     \/ \E m \in Msgs : MessageCancel(m)
     \/ \E S \in SUBSET Msgs : CancelQueued(S)
     \/ \E d \in Devices, a \in BOOLEAN : DeviceAction(d, a)
     \/ \E c \in Conns : Polling(c)
     \/ \E r \in Reports : Reporting(r)
     \/ \E k \in Runs : Progress(k) \/ RunCrash(k)
     \/ Phone
     \/ Tick
  /\ UNCHANGED campaignVars

CampaignNext == Call \/ (\E v \in Viewers : View(v)) \/ Rest

CampaignSpec == CampaignInit /\ [][CampaignNext]_allVars

(* Somebody looks at the campaign again and again, and a view goes on.     *)
FairCampaignSpec == CampaignSpec /\ \A v \in Viewers : WF_allVars(View(v))
-----------------------------------------------------------------------------
(* Jobs that are on the way to the phone, or that it has still to try.     *)
InHand(m) == phone[m] = "held" \/ \E c \in Conns : m \in poll[c].jobs

(* No row of a campaign that says completed is queued or dispatched,       *)
(* whatever happened between the query and the save.  What the phone has   *)
(* in hand all the same is given up: its lease lapsed and its row says so. *)
(* Such a job may yet be sent, after the completion.                       *)
CompletedIsOver ==
  campaign = "completed" =>
    \A m \in CampaignMsgs : /\ rows[m].status \notin {"queued", "dispatched"}
                            /\ InHand(m) => Presumed(rows[m])

(* A campaign that says canceled has nothing left to hand out, whatever    *)
(* pauses, resumes and claims ran between cancel's two statements; nor     *)
(* has it when a later resume, which the code allows, opens the gate.      *)
CancelHolds ==
  [][campaign = "canceled" =>
       \A m \in CampaignMsgs : /\ rows[m].status # "queued"
                               /\ rows'[m].status = "dispatched" => rows[m].status = "dispatched"
    ]_allVars

(* A campaign none of whose messages is under way does not stay open       *)
(* forever, provided somebody looks at it.                                 *)
NeverStuckOpen ==
  ~<>[](/\ campaign \in {"running", "scheduled"}
        /\ \A m \in CampaignMsgs : rows[m].status \notin {"queued", "dispatched", "sent"})
=============================================================================
