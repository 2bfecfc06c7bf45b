------------------------------ MODULE Sending -------------------------------
(***************************************************************************)
(* How messages and campaigns come into being: create_message and          *)
(* create_campaign as web threads run them, with the idempotency key that  *)
(* lets a developer repeat a request whose answer was lost.  Each looks    *)
(* the key up, inserts, and falls back on the row that is there when the   *)
(* unique constraint stops the insertion.  What becomes of a message after *)
(* that is Dispatch.                                                       *)
(*                                                                         *)
(* There is one account, whose one device keeps its SIMs.  A message's     *)
(* statements are each committed at once; create_campaign is one           *)
(* transaction, whose rows others see only when it commits, and on whose   *)
(* key they wait.  A request carries the name of a body, whose contents    *)
(* are Letter or Draft.                                                    *)
(***************************************************************************)
EXTENDS Composing, SequencesExt

CONSTANTS
  Threads,        \* web threads
  Keys,           \* idempotency keys a request may carry
  Letter,         \* bodies of message requests: to, text and from
  Draft,          \* bodies of campaign requests: template, recipients, from, rotate
  Sims,           \* the SIMs of the device, by primary key
  Asked           \* the requests developers make

VARIABLES
  messages,       \* the message table, by primary key
  campaigns,      \* the campaign table, the rows that are committed
  thread,         \* the request each thread serves
  online,         \* Device.is_online at this moment
  answered        \* the 202 answers developers got: request and row

vars == <<messages, campaigns, thread, online, answered>>

NoKey == ""       \* the request has no key, or ""
Null == "null"    \* NULL in the database

(* A message is sent at once or queued for a phone that is offline, or     *)
(* comes with a test key and is only simulated.                            *)
Request ==
  [kind : {"message"}, mode : {"immediate", "queued", "test"},
   key : Keys \cup {NoKey}, body : DOMAIN Letter]
  \cup [kind : {"campaign"}, mode : {"queued"}, key : Keys \cup {NoKey}, body : DOMAIN Draft]

ASSUME SendingAssumption ==
  /\ NoKey \notin Keys /\ Null \notin Keys
  /\ IsFiniteSet(DOMAIN Sims)
  /\ \A s \in DOMAIN Sims : s \in Nat /\ Sims[s].default \in BOOLEAN
  /\ \A b \in DOMAIN Letter : Letter[b].text \in Text
  /\ \A b \in DOMAIN Draft :
       LET names == Draft[b].template.names  recipients == Draft[b].recipients IN
       /\ Draft[b].template.text \in Text /\ names \in Seq(Range(names))
       /\ recipients \in Seq(Range(recipients))
       /\ \A i \in DOMAIN recipients : Range(recipients[i].vars) \subseteq Text
  /\ Asked \subseteq Request

(* Stands for every text that strip() leaves nothing of.                   *)
Empty == [basic |-> 0, extended |-> 0, other |-> 0, astral |-> 0]

(* Refused at sight: a blank text or template, or a campaign for nobody.   *)
Malformed(req) ==
  IF req.kind = "message" THEN Letter[req.body].text = Empty
  ELSE LET draft == Draft[req.body] IN
       \/ draft.template.text = Empty /\ draft.template.names = <<>>
       \/ draft.recipients = <<>>

(* Refused when it is new: no SIM, an invalid number, variables missing.   *)
Invalid(req) ==
  IF req.kind = "message"
  THEN Letter[req.body].to = "invalid" \/ ResolveSim(Sims, Letter[req.body].from) = {}
  ELSE \/ ResolveSim(Sims, Draft[req.body].from) = {}
       \/ Bad(Draft[req.body].template, Draft[req.body].recipients) # {}

Table(kind) == IF kind = "message" THEN messages ELSE campaigns

(* The key column: a message stores "" and a campaign NULL for no key, as  *)
(* the conditions of their two unique constraints demand.                  *)
StoredRaw(kind, key) == key        \* mutant: a campaign stores "" too
Stored(kind, key) == IF kind = "campaign" /\ key = NoKey THEN Null ELSE key

Constrained(kind, column) == column # IF kind = "message" THEN NoKey ELSE Null

(* The row with a key: there is at most one.                               *)
Holders(kind, key) == {i \in DOMAIN Table(kind) : Table(kind)[i].key = key}

(* May row i be the answer?  A campaign's payload is not compared, nor is  *)
(* the SIM a message was to be sent from.                                  *)
SameLetter(b, c) == Letter[b].to = Letter[c].to /\ Letter[b].text = Letter[c].text

Matches(req, i) == req.kind = "campaign" \/ SameLetter(messages[i].body, req.body)

IdleThread == [at |-> "idle"]

(* The requests that were accepted before with this key.                   *)
Promises(req) ==
  {a \in answered : a.kind = req.kind /\ a.key = req.key
                    /\ (req.kind = "message" => SameLetter(a.body, req.body))}

(* online: what the copy of the device row says that came with the API key *)
(* (resolve_api_key).  promised: the rows that equal requests had been     *)
(* told when this began.                                                   *)
Start(t, req) ==
  /\ thread[t].at = "idle"
  /\ thread' = [thread EXCEPT ![t] =
       [at |-> "lookup", req |-> req, online |-> online, promised |->
          IF req.key = NoKey \/ Malformed(req) THEN {} ELSE {a.id : a \in Promises(req)}]]
  /\ UNCHANGED <<messages, campaigns, online, answered>>

(* 202 with the id of the row, or an error (id 0): 409, or 500 for what    *)
(* nobody catches.                                                         *)
Reply(t, id) == thread' = [thread EXCEPT ![t] =
  [at |-> "reply", req |-> thread[t].req, promised |-> thread[t].promised, id |-> id]]

Refuse(t) == Reply(t, 0)

Replay(t, i) == IF Matches(thread[t].req, i) THEN Reply(t, i) ELSE Refuse(t)

(* create_message and create_campaign begin with what they can tell from   *)
(* the request alone.                                                      *)
Reject(t) ==
  /\ thread[t].at = "lookup" /\ Malformed(thread[t].req)
  /\ Refuse(t)
  /\ UNCHANGED <<messages, campaigns, online, answered>>

LookupOnlineFirst(t) ==    \* mutant: the online check comes before the lookup
  LET req == thread[t].req IN
  /\ thread[t].at = "lookup" /\ ~Malformed(req)
  /\ IF req.mode = "immediate" /\ ~thread[t].online
     THEN Refuse(t)
     ELSE IF req.key # NoKey /\ Holders(req.kind, req.key) # {}
     THEN \E i \in Holders(req.kind, req.key) : Replay(t, i)
     ELSE thread' = [thread EXCEPT ![t].at = "insert"]
  /\ UNCHANGED <<messages, campaigns, online, answered>>

Lookup(t) ==
  LET req == thread[t].req IN
  /\ thread[t].at = "lookup" /\ ~Malformed(req)
  /\ IF req.key # NoKey /\ Holders(req.kind, req.key) # {}
     THEN \E i \in Holders(req.kind, req.key) : Replay(t, i)
     ELSE thread' = [thread EXCEPT ![t].at = "insert"]
  /\ UNCHANGED <<messages, campaigns, online, answered>>

(* An immediate message for a device that is offline is refused, too.      *)
Decline(t) ==
  LET req == thread[t].req IN
  /\ thread[t].at = "insert"
  /\ Invalid(req) \/ (req.mode = "immediate" /\ ~thread[t].online)
  /\ Refuse(t)
  /\ UNCHANGED <<messages, campaigns, online, answered>>

DuplicateNever(kind, column) == FALSE     \* mutant: there is no unique constraint
Duplicate(kind, column) == Constrained(kind, column) /\ Holders(kind, column) # {}

(* A message: the constraint stops a live one, which asks for the row that *)
(* is in the way; for a test one the error is not caught.                  *)
InsertMessage(t) ==
  LET req == thread[t].req
      column == Stored("message", req.key) IN
  /\ thread[t].at = "insert" /\ req.kind = "message"
  /\ ~Invalid(req) /\ (req.mode = "immediate" => thread[t].online)
  /\ IF ~Duplicate("message", column)
     THEN /\ \E sim \in ResolveSim(Sims, Letter[req.body].from) :
               messages' = Append(messages,
                 [key |-> column, body |-> req.body, sim |-> sim,
                  segments |-> CountSegments(Letter[req.body].text)])
          /\ Reply(t, Len(messages) + 1)
     ELSE /\ UNCHANGED messages
          /\ IF req.mode = "test" THEN Refuse(t)
             ELSE thread' = [thread EXCEPT ![t].at = "requery"]
  /\ UNCHANGED <<campaigns, online, answered>>

(* A valid campaign, in its savepoint: it waits while another transaction  *)
(* holds the key.                                                          *)
InsertCampaign(t) ==
  LET req == thread[t].req
      column == Stored("campaign", req.key) IN
  /\ thread[t].at = "insert" /\ req.kind = "campaign" /\ ~Invalid(req)
  /\ Constrained("campaign", column) =>
       \A u \in Threads : thread[u].at = "commit" => thread[u].req.key # req.key
  /\ thread' = [thread EXCEPT ![t].at = IF Duplicate("campaign", column) THEN "requery" ELSE "commit"]
  /\ UNCHANGED <<messages, campaigns, online, answered>>

(* The messages of a campaign are committed with it.  The query for the    *)
(* SIMs to rotate has no order.                                            *)
Orders(draft) == IF draft.rotate THEN SetToSeqs(DOMAIN Sims) ELSE {<<>>}

Commit(t) ==
  LET req == thread[t].req
      draft == Draft[req.body] IN
  /\ thread[t].at = "commit"
  /\ \E sims \in Orders(draft), sim \in ResolveSim(Sims, draft.from) :
       campaigns' = Append(campaigns,
         [key |-> Stored("campaign", req.key), body |-> req.body,
          parts |-> Compose(draft.template, draft.recipients, sims, sim)])
  /\ Reply(t, Len(campaigns) + 1)
  /\ UNCHANGED <<messages, online, answered>>

Requery(t) ==
  /\ thread[t].at = "requery"
  /\ IF Holders(thread[t].req.kind, thread[t].req.key) = {} THEN Refuse(t)
     ELSE \E i \in Holders(thread[t].req.kind, thread[t].req.key) : Replay(t, i)
  /\ UNCHANGED <<messages, campaigns, online, answered>>

Answer(t) ==
  /\ thread[t].at = "reply"
  /\ answered' = IF thread[t].id = 0 THEN answered ELSE answered \cup
       {[kind |-> thread[t].req.kind, key |-> thread[t].req.key,
         body |-> thread[t].req.body, id |-> thread[t].id]}
  /\ thread' = [thread EXCEPT ![t] = IdleThread]
  /\ UNCHANGED <<messages, campaigns, online>>

(* The process dies or its answer is lost; an open transaction is rolled   *)
(* back.                                                                   *)
Crash(t) ==
  /\ thread[t].at # "idle"
  /\ thread' = [thread EXCEPT ![t] = IdleThread]
  /\ UNCHANGED <<messages, campaigns, online, answered>>

(* The device polls, or has not for too long; no copy is online then.      *)
Polls ==
  /\ online' = TRUE
  /\ UNCHANGED <<messages, campaigns, thread, answered>>

Vanishes ==
  /\ online' = FALSE
  /\ thread' = [t \in Threads |-> IF thread[t].at \in {"idle", "reply"} THEN thread[t]
                                  ELSE [thread[t] EXCEPT !.online = FALSE]]
  /\ UNCHANGED <<messages, campaigns, answered>>
-----------------------------------------------------------------------------
Init ==
  /\ messages = <<>> /\ campaigns = <<>>
  /\ thread = [t \in Threads |-> IdleThread]
  /\ online = FALSE
  /\ answered = {}

Serve(t) ==
  \/ \E req \in Asked : Start(t, req)
  \/ Reject(t) \/ Lookup(t) \/ Decline(t) \/ InsertMessage(t) \/ InsertCampaign(t)
  \/ Commit(t) \/ Requery(t) \/ Answer(t) \/ Crash(t)

Next == (\E t \in Threads : Serve(t)) \/ Polls \/ Vanishes

Spec == Init /\ [][Next]_vars
-----------------------------------------------------------------------------
(* Rows and threads have their shape; a campaign's key is never "", which  *)
(* its unique constraint would take for a key.                             *)
SendingTypeOK ==
  /\ messages \in Seq([key : Keys \cup {NoKey}, body : DOMAIN Letter, sim : DOMAIN Sims,
                        segments : Nat])
  /\ \A i \in DOMAIN campaigns :
       campaigns[i].key \in Keys \cup {Null} /\ campaigns[i].body \in DOMAIN Draft
  /\ \A t \in Threads :
       thread[t].at \in {"idle", "lookup", "insert", "commit", "requery", "reply"}
  /\ online \in BOOLEAN
  /\ \A a \in answered : a.id \in DOMAIN Table(a.kind)

(* What developers were told, and what is on its way to them.              *)
Told ==
  answered \cup {[kind |-> thread[t].req.kind, key |-> thread[t].req.key,
                  body |-> thread[t].req.body, id |-> thread[t].id] :
                    t \in {u \in Threads : thread[u].at = "reply" /\ thread[u].id # 0}}

(* All accepted requests with one idempotency key, however they race, are  *)
(* told the same row, and that a message's row says what they asked for    *)
(* (test_campaigns_idempotency: "not doubled"; create_message's 409).      *)
RetriesAgree ==
  \A a, b \in Told :
    /\ a.kind = b.kind /\ a.key = b.key /\ a.key # NoKey => a.id = b.id
    /\ a.kind = "message" => SameLetter(messages[a.id].body, a.body)

(* A request that repeats one a developer was told was accepted is told    *)
(* the same, whatever has happened since: the device may be offline, the   *)
(* retry come with a test key or meet a race.                              *)
KeptPromise ==
  \A t \in Threads : thread[t].at = "reply" /\ thread[t].promised # {} =>
    thread[t].promised = {thread[t].id}

(* Requests without a key never share a row (test_campaigns_idempotency:   *)
(* "keyless campaigns never collide on the constraint").                   *)
KeylessNeverCollide ==
  \A t \in Threads : thread[t].at = "reply" /\ thread[t].req.key = NoKey /\ thread[t].id # 0 =>
    /\ \A a \in answered : a.kind = thread[t].req.kind => a.id # thread[t].id
    /\ \A u \in Threads \ {t} : thread[u].at = "reply" /\ thread[u].req.kind = thread[t].req.kind =>
         thread[u].id # thread[t].id

(* The segments stored with a message are never more than its text needs,  *)
(* and as many as it needs wherever CountedRight can say so, measured by   *)
(* what SMS hold and not by the code's own length (test_segments): at the  *)
(* boundaries of one and of several, with characters that count twice and  *)
(* with those that force UCS-2.                                            *)
SegmentsRight ==
  /\ \A i \in DOMAIN messages : CountedRight(Letter[messages[i].body].text, messages[i].segments)
  /\ \A i \in DOMAIN campaigns : \A p \in Range(campaigns[i].parts) : CountedRight(p.text, p.segments)

(* A campaign is accepted whole or not at all: each recipient gets one     *)
(* message, to a valid number, with the text of the template and of the    *)
(* recipient's own variables and nothing else.                             *)
WholeOrNothing ==
  \A i \in DOMAIN campaigns :
    LET draft == Draft[campaigns[i].body]  parts == campaigns[i].parts IN
    /\ DOMAIN parts = DOMAIN draft.recipients
    /\ \A j \in DOMAIN parts :
         /\ parts[j].to = draft.recipients[j].to /\ parts[j].to # "invalid"
         /\ parts[j].text = Render(draft.template, draft.recipients[j].vars)

Load(parts, sim) == Cardinality({j \in DOMAIN parts : parts[j].sim = sim})

(* rotate_sims shares a campaign out evenly: no SIM carries more than one  *)
(* message more than another, in whatever order the database lists them;   *)
(* without it one SIM carries all.                                         *)
EvenShares ==
  \A i \in DOMAIN campaigns :
    LET parts == campaigns[i].parts IN
    IF Draft[campaigns[i].body].rotate
    THEN \A r, s \in DOMAIN Sims : Load(parts, r) <= Load(parts, s) + 1
    ELSE \E s \in DOMAIN Sims : Load(parts, s) = Len(parts)
=============================================================================
