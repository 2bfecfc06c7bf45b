---------------------------- MODULE SendingProofs ----------------------------
(***************************************************************************)
(* What idempotency keys promise, for any number of threads, keys, bodies  *)
(* and SIMs, and that campaigns are created whole.                         *)
(***************************************************************************)
EXTENDS Sending, ComposingProofs, SequenceTheorems, TLAPS

Kinds == {"message", "campaign"}
AnyKey == Keys \cup {NoKey}

Counts == {CountSegments(Letter[b].text) : b \in DOMAIN Letter}
Lists == SetToSeqs(DOMAIN Sims) \cup {<<>>}
Parts == UNION {UNION {{Compose(Draft[b].template, Draft[b].recipients, sims, sim) :
                          sim \in DOMAIN Sims} : sims \in Lists} : b \in DOMAIN Draft}

MessageRow == [key : AnyKey, body : DOMAIN Letter, sim : DOMAIN Sims, segments : Counts]
CampaignRow == [key : Keys \cup {Null}, body : DOMAIN Draft, parts : Parts]

Working == [at : {"lookup", "insert", "commit", "requery"}, req : Request,
            online : BOOLEAN, promised : SUBSET Nat]
Replying == [at : {"reply"}, req : Request, promised : SUBSET Nat, id : Nat]

Rows == messages \in Seq(MessageRow) /\ campaigns \in Seq(CampaignRow)

Shape ==
  /\ Rows
  /\ thread \in [Threads -> {IdleThread} \cup Working \cup Replying]
  /\ online \in BOOLEAN

(* The unique constraints.                                                 *)
Unique ==
  \A kind \in Kinds : \A i, j \in DOMAIN Table(kind) :
    Table(kind)[i].key = Table(kind)[j].key /\ Constrained(kind, Table(kind)[i].key) => i = j

(* Row id is a true answer to a request.                                   *)
Tells(kind, key, body, id) ==
  /\ id \in DOMAIN Table(kind)
  /\ Table(kind)[id].key = Stored(kind, key)
  /\ kind = "message" => SameLetter(messages[id].body, body)

Honest ==
  \A a \in answered : a.kind \in Kinds /\ a.key \in AnyKey /\ Tells(a.kind, a.key, a.body, a.id)

(* The one row that a lookup will find and answer with.                    *)
Owed(req, ids) ==
  /\ req.key # NoKey /\ ~Malformed(req)
  /\ \E i \in Holders(req.kind, req.key) : Matches(req, i) /\ ids = {i}

(* What a thread has told or will tell is true and what was promised; who  *)
(* was promised something is told so by the lookup at the latest; and who  *)
(* is to commit a campaign has a valid one and holds its key alone.        *)
Sound(r) ==
  /\ r.at = "reply" => /\ r.id # 0 => Tells(r.req.kind, r.req.key, r.req.body, r.id)
                       /\ r.promised # {} => r.promised = {r.id}
  /\ r.at = "lookup" => (r.promised # {} => Owed(r.req, r.promised))
  /\ r.at \in {"insert", "commit", "requery"} => r.promised = {}
  /\ r.at = "requery" => r.req.key # NoKey
  /\ r.at = "commit" => /\ r.req.kind = "campaign" /\ ~Invalid(r.req)
                        /\ r.req.key # NoKey => Holders("campaign", r.req.key) = {}

Committing(t, key) == thread[t].at = "commit" /\ thread[t].req.key = key

Alone ==
  \A t, u \in Threads, key \in Keys : t # u => ~(Committing(t, key) /\ Committing(u, key))

Inv ==
  /\ Shape /\ Unique /\ Honest /\ Alone
  /\ \A t \in Threads : Sound(thread[t])
  /\ KeylessNeverCollide /\ WholeOrNothing
-----------------------------------------------------------------------------
LEMMA Columns == NoKey \notin Keys /\ Null \notin Keys
BY SendingAssumption DEF SendingAssumption

LEMMA KeyFacts ==
  ASSUME NEW kind \in Kinds, NEW key \in AnyKey
  PROVE  /\ key # NoKey => key \in Keys /\ Stored(kind, key) = key /\ Constrained(kind, key)
         /\ key = NoKey => ~Constrained(kind, Stored(kind, key))
         /\ \A k \in AnyKey : Stored(kind, k) = Stored(kind, key) => k = key
BY Columns DEF Kinds, AnyKey, Stored, Constrained

LEMMA RequestFacts ==
  ASSUME NEW req \in Request
  PROVE  /\ req.kind \in Kinds /\ req.key \in AnyKey
         /\ req.kind = "message" => req.body \in DOMAIN Letter
         /\ req.kind = "campaign" => req.body \in DOMAIN Draft
BY DEF Request, Kinds, AnyKey

LEMMA Tables ==
  ASSUME Rows
  PROVE  /\ DOMAIN messages = 1..Len(messages) /\ DOMAIN campaigns = 1..Len(campaigns)
         /\ Len(messages) \in Nat /\ Len(campaigns) \in Nat
         /\ Table("message") = messages /\ Table("campaign") = campaigns
         /\ \A i \in DOMAIN messages : messages[i] \in MessageRow
         /\ \A i \in DOMAIN campaigns : campaigns[i] \in CampaignRow
BY DEF Rows, Table

LEMMA ThreadRow ==
  ASSUME Shape, NEW t \in Threads
  PROVE  /\ thread[t].at \in {"lookup", "insert", "commit", "requery"} => thread[t] \in Working
         /\ thread[t].at = "reply" => thread[t] \in Replying
         /\ thread[t].at = "idle" <=> thread[t] = IdleThread
         /\ thread[t].at # "idle" => thread[t].req \in Request
BY DEF Shape, IdleThread, Working, Replying

LEMMA OneHolder ==
  ASSUME Unique, NEW kind \in Kinds, NEW key \in AnyKey, key # NoKey,
         NEW i \in Holders(kind, key), NEW j \in Holders(kind, key)
  PROVE  i = j
BY KeyFacts DEF Unique, Holders

(* Tables only grow: a row stays where it is and as it is.                 *)
Grows ==
  \A kind \in Kinds : \A i \in DOMAIN Table(kind) :
    i \in DOMAIN Table(kind)' /\ Table(kind)'[i] = Table(kind)[i]

LEMMA StillTrue ==
  ASSUME Grows, NEW kind \in Kinds, NEW key, NEW body, NEW id, Tells(kind, key, body, id)
  PROVE  Tells(kind, key, body, id)'
BY DEF Grows, Tells, Table, Kinds

LEMMA StillOwed ==
  ASSUME Grows, NEW req \in Request, NEW ids, Owed(req, ids)
  PROVE  Owed(req, ids)'
<1>1. PICK i \in Holders(req.kind, req.key) : Matches(req, i) /\ ids = {i}
  BY DEF Owed
<1>2. req.kind \in Kinds
  BY RequestFacts
<1>3. i \in Holders(req.kind, req.key)'
  BY <1>1, <1>2 DEF Grows, Holders
<1>4. Matches(req, i)'
  BY <1>1, <1>2 DEF Grows, Holders, Matches, Kinds, Table
<1> QED BY <1>1, <1>3, <1>4 DEF Owed, Malformed

(* A thread that does not reply leaves the tables alone.                   *)
LEMMA Moved ==
  ASSUME Inv, NEW t \in Threads, NEW row \in {IdleThread} \cup Working,
         thread' = [thread EXCEPT ![t] = row], UNCHANGED <<messages, campaigns, online>>,
         row = IdleThread \/ Sound(row), Honest',
         \A a \in answered' \ answered, u \in Threads \ {t} :
           thread[u].at = "reply" /\ thread[u].req.key = NoKey /\ thread[u].id # 0
             /\ a.kind = thread[u].req.kind => a.id # thread[u].id,
         \A u \in Threads \ {t} :
           row.at = "commit" /\ row.req.key # NoKey => ~Committing(u, row.req.key)
  PROVE  Inv'
<1>1. /\ thread' \in [Threads -> {IdleThread} \cup Working \cup Replying] /\ thread'[t] = row
      /\ \A u \in Threads : u # t => thread'[u] = thread[u]
  BY DEF Inv, Shape
<1>2. row.at # "reply"
  BY DEF IdleThread, Working
<1>3. Shape' /\ Unique' /\ WholeOrNothing'
  BY <1>1 DEF Inv, Shape, Rows, Unique, Table, WholeOrNothing
<1>4. Alone'
  BY <1>1, Columns DEF Inv, Alone, Committing
<1>5. \A u \in Threads : Sound(thread[u])'
  <2>1. \A u \in Threads : (u = t /\ row = IdleThread) \/ Sound(thread'[u])
    BY <1>1 DEF Inv
  <2>2. ASSUME NEW u \in Threads, Sound(thread'[u]) PROVE Sound(thread[u])'
    BY <2>2 DEF Sound, Tells, Owed, Holders, Table, Matches
  <2>3. row = IdleThread => Sound(thread[t])'
    BY <1>1 DEF Sound, IdleThread
  <2> QED BY <2>1, <2>2, <2>3
<1>6. KeylessNeverCollide'
  BY <1>1, <1>2 DEF Inv, KeylessNeverCollide
<1> QED BY <1>3, <1>4, <1>5, <1>6 DEF Inv

(* A thread that replies may have inserted a row just before.              *)
LEMMA Replied ==
  ASSUME Inv, Grows, Rows', Unique', WholeOrNothing', UNCHANGED <<answered, online>>,
         NEW t \in Threads, thread[t] \in Working, NEW req \in Request, req = thread[t].req,
         NEW id \in Nat, Reply(t, id),
         thread[t].promised # {} => thread[t].promised = {id},
         id # 0 => /\ Tells(req.kind, req.key, req.body, id)'
                   /\ req.key = NoKey => id \notin DOMAIN Table(req.kind),
         \A u \in Threads \ {t} : thread[u].at = "commit" /\ thread[u].req.key # NoKey
           => Holders("campaign", thread[u].req.key)' = {}
  PROVE  Inv'
<1> DEFINE row == [at |-> "reply", req |-> thread[t].req, promised |-> thread[t].promised, id |-> id]
<1>1. row \in Replying
  BY DEF Working, Replying
<1>2. row.at = "reply" /\ row.req = req /\ row.promised = thread[t].promised /\ row.id = id
  OBVIOUS
<1>3. thread' = [thread EXCEPT ![t] = row]
  BY DEF Reply
<1> HIDE DEF row
<1>4. /\ thread' \in [Threads -> {IdleThread} \cup Working \cup Replying] /\ thread'[t] = row
      /\ \A u \in Threads : u # t => thread'[u] = thread[u]
  BY <1>1, <1>3 DEF Inv, Shape
<1>5. req.kind \in Kinds /\ req.key \in AnyKey
  BY RequestFacts
<1>6. Shape'
  BY <1>4 DEF Inv, Shape
<1>7. Alone'
  BY <1>2, <1>4 DEF Inv, Alone, Committing
<1>8. Honest'
  BY StillTrue DEF Inv, Honest
<1>9. ASSUME NEW u \in Threads PROVE Sound(thread[u])'
  <2>1. CASE u = t
    BY <1>2, <1>4, <2>1 DEF Sound
  <2>2. CASE u # t
    <3>1. thread'[u] = thread[u] /\ Sound(thread[u])
      BY <1>4, <2>2 DEF Inv
    <3>2. CASE thread[u].at = "idle"
      BY <3>1, <3>2 DEF Sound
    <3>3. CASE thread[u].at # "idle"
      <4>1. PICK ask \in Request : ask = thread[u].req
        BY <3>3, ThreadRow DEF Inv
      <4>2. ask.kind \in Kinds
        BY RequestFacts
      <4>3. CASE thread[u].at = "reply"
        <5>1. PICK i : i = thread[u].id
          OBVIOUS
        <5>2. i # 0 => Tells(ask.kind, ask.key, ask.body, i)'
          BY <3>1, <4>1, <4>2, <4>3, <5>1, StillTrue DEF Sound
        <5> QED BY <3>1, <4>1, <4>3, <5>1, <5>2 DEF Sound, Tells
      <4>4. CASE thread[u].at = "lookup"
        <5>1. PICK ids : ids = thread[u].promised
          OBVIOUS
        <5>2. ids # {} => Owed(ask, ids)'
          BY <3>1, <4>1, <4>4, <5>1, StillOwed DEF Sound
        <5> QED BY <3>1, <4>1, <4>4, <5>1, <5>2 DEF Sound, Owed, Holders, Matches, Malformed
      <4>5. CASE thread[u].at \in {"insert", "commit", "requery"}
        BY <2>2, <3>1, <4>5 DEF Sound, Invalid, Holders
      <4>6. thread[u].at \in {"reply", "lookup", "insert", "commit", "requery"}
        BY <3>3, ThreadRow DEF Inv, Shape, Working, Replying
      <4> QED BY <4>3, <4>4, <4>5, <4>6
    <3> QED BY <3>2, <3>3
  <2> QED BY <2>1, <2>2
<1>10. ASSUME NEW u \in Threads \ {t}, thread[u].at = "reply", thread[u].id # 0, id # 0,
              thread[u].req.kind = req.kind, thread[u].req.key = NoKey \/ req.key = NoKey
       PROVE  thread[u].id # id
  <2>1. PICK ask \in Request : ask = thread[u].req
    BY <1>10, ThreadRow DEF Inv
  <2>2. PICK i : i = thread[u].id
    OBVIOUS
  <2>3. ask.key \in AnyKey /\ ask.kind = req.kind
    BY <1>10, <2>1, RequestFacts
  <2>4. Tells(req.kind, ask.key, ask.body, i)
    BY <1>10, <2>1, <2>2, <2>3 DEF Inv, Sound
  <2>5. Tells(req.kind, ask.key, ask.body, i)'
    BY <1>5, <2>4, StillTrue
  <2>6. CASE req.key = NoKey
    BY <1>10, <2>2, <2>4, <2>6 DEF Tells
  <2>7. CASE req.key # NoKey
    <3>1. Stored(req.kind, req.key) # Stored(req.kind, ask.key)
      BY <1>5, <1>10, <2>1, <2>3, <2>7, KeyFacts
    <3> QED BY <1>10, <2>2, <2>5, <3>1 DEF Tells, Stored
  <2> QED BY <2>6, <2>7
<1>11. ASSUME NEW a \in answered, a.kind = req.kind, id # 0, req.key = NoKey
       PROVE  a.id # id
  BY <1>11 DEF Inv, Honest, Tells
<1>12. KeylessNeverCollide'
  <2> SUFFICES ASSUME NEW v \in Threads, thread'[v].at = "reply", thread'[v].req.key = NoKey,
                      thread'[v].id # 0
               PROVE  /\ \A a \in answered : a.kind = thread'[v].req.kind => a.id # thread'[v].id
                      /\ \A u \in Threads \ {v} :
                           thread'[u].at = "reply" /\ thread'[u].req.kind = thread'[v].req.kind =>
                             thread'[u].id # thread'[v].id
    BY DEF KeylessNeverCollide
  <2>1. CASE v = t
    <3>1. thread'[v] = row
      BY <1>4, <2>1
    <3>2. ASSUME NEW u \in Threads \ {v}, thread'[u].at = "reply",
                 thread'[u].req.kind = thread'[v].req.kind
          PROVE  thread'[u].id # thread'[v].id
      <4>1. u # t /\ thread'[u] = thread[u]
        BY <1>4, <2>1
      <4> QED BY <1>2, <1>10, <2>1, <3>1, <3>2, <4>1
    <3> QED BY <1>2, <1>11, <3>1, <3>2
  <2>2. CASE v # t
    <3>1. thread'[v] = thread[v]
      BY <1>4, <2>2
    <3>2. ASSUME NEW u \in Threads \ {v}, thread'[u].at = "reply",
                 thread'[u].req.kind = thread'[v].req.kind
          PROVE  thread'[u].id # thread'[v].id
      <4>1. CASE u = t
        BY <1>2, <1>4, <1>10, <2>2, <3>1, <3>2, <4>1
      <4>2. CASE u # t
        BY <1>4, <3>1, <3>2, <4>2 DEF Inv, KeylessNeverCollide
      <4> QED BY <4>1, <4>2
    <3> QED BY <3>1, <3>2 DEF Inv, KeylessNeverCollide
  <2> QED BY <2>1, <2>2
<1> QED BY <1>6, <1>7, <1>8, <1>9, <1>12 DEF Inv

LEMMA Still ==
  ASSUME Inv, UNCHANGED <<messages, campaigns>>
  PROVE  /\ Grows /\ Rows' /\ Unique' /\ WholeOrNothing'
         /\ \A kind, key : Holders(kind, key)' = Holders(kind, key)
BY DEF Inv, Shape, Grows, Rows, Unique, WholeOrNothing, Holders, Table

(* An answer that inserts nothing: an error, or a row that was there.      *)
LEMMA Answered ==
  ASSUME Inv, UNCHANGED <<messages, campaigns, answered, online>>,
         NEW t \in Threads, thread[t] \in Working, NEW req \in Request, req = thread[t].req,
         NEW id \in Nat, Reply(t, id),
         thread[t].promised # {} => thread[t].promised = {id},
         id # 0 => req.key # NoKey /\ Tells(req.kind, req.key, req.body, id)
  PROVE  Inv'
<1>1. /\ Grows /\ Rows' /\ Unique' /\ WholeOrNothing'
      /\ \A kind, key : Holders(kind, key)' = Holders(kind, key)
  BY Still
<1>2. id # 0 => Tells(req.kind, req.key, req.body, id)'
  BY <1>1, StillTrue, RequestFacts
<1>3. ASSUME NEW u \in Threads, thread[u].at = "commit", thread[u].req.key # NoKey
      PROVE  Holders("campaign", thread[u].req.key)' = {}
  <2>1. PICK key : key = thread[u].req.key
    OBVIOUS
  <2>2. Holders("campaign", key) = {}
    BY <1>3, <2>1 DEF Inv, Sound
  <2>3. Holders("campaign", key)' = {}
    BY <1>1, <2>2
  <2>4. u # t => thread'[u] = thread[u]
    BY DEF Reply, Inv, Shape
  <2>5. u = t => thread'[u].req = thread[u].req
    BY DEF Reply, Inv, Shape
  <2> QED BY <2>1, <2>3, <2>4, <2>5 DEF Holders
<1> QED BY <1>1, <1>2, <1>3, Replied

LEMMA Refused ==
  ASSUME Inv, UNCHANGED <<messages, campaigns, answered, online>>,
         NEW t \in Threads, thread[t] \in Working, Refuse(t), thread[t].promised = {}
  PROVE  Inv'
<1>1. PICK req \in Request : req = thread[t].req
  BY DEF Working
<1>2. Reply(t, 0)
  BY DEF Refuse
<1> QED BY <1>1, <1>2, Answered

LEMMA Replayed ==
  ASSUME Inv, UNCHANGED <<messages, campaigns, answered, online>>,
         NEW t \in Threads, thread[t] \in Working, NEW req \in Request, req = thread[t].req,
         req.key # NoKey, NEW i \in Holders(req.kind, req.key), Replay(t, i),
         thread[t].promised # {} => Owed(req, thread[t].promised)
  PROVE  Inv'
<1>1. req.kind \in Kinds /\ req.key \in AnyKey
  BY RequestFacts
<1>2. i \in Nat
  BY <1>1, Tables DEF Inv, Shape, Holders, Kinds
<1>3. thread[t].promised # {} => Matches(req, i) /\ thread[t].promised = {i}
  BY <1>1, OneHolder DEF Inv, Owed
<1>4. CASE Matches(req, i)
  <2>1. Reply(t, i)
    BY <1>4 DEF Replay
  <2>2. Tells(req.kind, req.key, req.body, i)
    BY <1>1, <1>4, KeyFacts DEF Holders, Tells, Matches
  <2> QED BY <1>2, <1>3, <2>1, <2>2, Answered
<1>5. CASE ~Matches(req, i)
  <2>1. Refuse(t)
    BY <1>5 DEF Replay
  <2> QED BY <1>3, <1>5, <2>1, Refused
<1> QED BY <1>4, <1>5

(* A row joins a table when the unique constraint does not object.         *)
LEMMA Inserted ==
  ASSUME Rows, Unique, NEW kind \in Kinds,
         NEW row \in IF kind = "message" THEN MessageRow ELSE CampaignRow,
         messages' = IF kind = "message" THEN Append(messages, row) ELSE messages,
         campaigns' = IF kind = "campaign" THEN Append(campaigns, row) ELSE campaigns,
         Constrained(kind, row.key) => Holders(kind, row.key) = {}
  PROVE  /\ Rows' /\ Unique' /\ Grows
         /\ Len(Table(kind)) + 1 \in DOMAIN Table(kind)' /\ Len(Table(kind)) + 1 \notin DOMAIN Table(kind)
         /\ Table(kind)'[Len(Table(kind)) + 1] = row
         /\ DOMAIN Table(kind)' = DOMAIN Table(kind) \cup {Len(Table(kind)) + 1}
<1> DEFINE last == Len(Table(kind)) + 1
<1>1. CASE kind = "message"
  <2>1. messages \in Seq(MessageRow) /\ row \in MessageRow /\ messages' = Append(messages, row)
        /\ campaigns' = campaigns
    BY <1>1 DEF Rows
  <2>2. /\ messages' \in Seq(MessageRow) /\ Len(messages') = Len(messages) + 1
        /\ \A i \in 1..Len(messages) : messages'[i] = messages[i]
        /\ messages'[Len(messages) + 1] = row
    BY <2>1, AppendProperties
  <2> QED BY <1>1, <2>1, <2>2, Tables DEF Rows, Unique, Grows, Table, Holders, Kinds
<1>2. CASE kind = "campaign"
  <2>1. campaigns \in Seq(CampaignRow) /\ row \in CampaignRow /\ campaigns' = Append(campaigns, row)
        /\ messages' = messages
    BY <1>2 DEF Rows
  <2>2. /\ campaigns' \in Seq(CampaignRow) /\ Len(campaigns') = Len(campaigns) + 1
        /\ \A i \in 1..Len(campaigns) : campaigns'[i] = campaigns[i]
        /\ campaigns'[Len(campaigns) + 1] = row
    BY <2>1, AppendProperties
  <2> QED BY <1>2, <2>1, <2>2, Tables DEF Rows, Unique, Grows, Table, Holders, Kinds
<1> QED BY <1>1, <1>2 DEF Kinds

LEMMA SimThere ==
  ASSUME NEW from, NEW sim \in ResolveSim(Sims, from)
  PROVE  sim \in DOMAIN Sims
BY DEF ResolveSim, First
-----------------------------------------------------------------------------
LEMMA StartStep ==
  ASSUME Inv, NEW t \in Threads, NEW req \in Asked, Start(t, req)
  PROVE  Inv'
<1> DEFINE ids == IF req.key = NoKey \/ Malformed(req) THEN {} ELSE {a.id : a \in Promises(req)}
           row == [at |-> "lookup", req |-> req, online |-> online, promised |-> ids]
<1>1. req \in Request
  BY SendingAssumption DEF SendingAssumption
<1>2. req.kind \in Kinds /\ req.key \in AnyKey
  BY <1>1, RequestFacts
<1>3. ASSUME req.key # NoKey, NEW a \in Promises(req)
      PROVE  a.id \in Holders(req.kind, req.key) /\ Matches(req, a.id)
  <2>1. /\ a.kind = req.kind /\ a.key = req.key /\ Tells(a.kind, a.key, a.body, a.id)
        /\ req.kind = "message" => SameLetter(a.body, req.body)
    BY <1>3 DEF Promises, Inv, Honest
  <2>2. a.id \in Holders(req.kind, req.key)
    BY <1>2, <1>3, <2>1, KeyFacts DEF Tells, Holders
  <2>3. Matches(req, a.id)
    BY <1>2, <2>1 DEF Tells, Matches, SameLetter, Kinds
  <2> QED BY <2>2, <2>3
<1>4. ids # {} => Owed(req, ids)
  <2> SUFFICES ASSUME ids # {} PROVE Owed(req, ids)
    OBVIOUS
  <2>1. req.key # NoKey /\ ~Malformed(req) /\ ids = {a.id : a \in Promises(req)}
    OBVIOUS
  <2>2. PICK a \in Promises(req) : TRUE
    BY <2>1
  <2>3. \A b \in Promises(req) : b.id = a.id
    BY <1>2, <1>3, <2>1, OneHolder DEF Inv
  <2>4. ids = {a.id}
    BY <2>1, <2>2, <2>3
  <2> HIDE DEF ids
  <2> QED BY <1>3, <2>1, <2>2, <2>4 DEF Owed
<1>5. ids \in SUBSET Nat
  <2> HIDE DEF ids
  <2> SUFFICES ASSUME ids # {} PROVE ids \in SUBSET Nat
    OBVIOUS
  <2>1. PICK i \in Holders(req.kind, req.key) : ids = {i}
    BY <1>4 DEF Owed
  <2> QED BY <1>2, <2>1, Tables DEF Inv, Shape, Holders, Kinds
<1> HIDE DEF ids
<1>6. row \in Working /\ row.at = "lookup" /\ row.req = req /\ row.promised = ids
  BY <1>1, <1>5 DEF Working, Inv, Shape
<1>7. thread' = [thread EXCEPT ![t] = row] /\ UNCHANGED <<messages, campaigns, online, answered>>
  BY DEF Start, ids
<1> HIDE DEF row
<1>8. Sound(row)
  BY <1>4, <1>6 DEF Sound
<1>9. Honest'
  BY <1>7 DEF Inv, Honest, Tells, Table
<1> QED BY <1>6, <1>7, <1>8, <1>9, Moved

(* A thread goes on within its request.                                    *)
LEMMA GoesOn ==
  ASSUME Inv, UNCHANGED <<messages, campaigns, answered, online>>,
         NEW t \in Threads, thread[t] \in Working, NEW at \in {"insert", "commit", "requery"},
         thread' = [thread EXCEPT ![t].at = at], thread[t].promised = {},
         at = "requery" => thread[t].req.key # NoKey,
         at = "commit" => /\ thread[t].req.kind = "campaign" /\ ~Invalid(thread[t].req)
                          /\ thread[t].req.key # NoKey =>
                               /\ Holders("campaign", thread[t].req.key) = {}
                               /\ \A u \in Threads : ~Committing(u, thread[t].req.key)
  PROVE  Inv'
<1> DEFINE row == [thread[t] EXCEPT !.at = at]
<1>1. /\ row \in Working /\ row.at = at /\ row.req = thread[t].req /\ row.promised = {}
  BY DEF Working
<1>2. thread' = [thread EXCEPT ![t] = row]
  OBVIOUS
<1> HIDE DEF row
<1>3. Sound(row)
  BY <1>1 DEF Sound
<1>4. Honest'
  BY DEF Inv, Honest, Tells, Table
<1>5. \A u \in Threads \ {t} : row.at = "commit" /\ row.req.key # NoKey => ~Committing(u, row.req.key)
  BY <1>1
<1> QED BY <1>1, <1>2, <1>3, <1>4, <1>5, Moved

LEMMA LookupStep ==
  ASSUME Inv, NEW t \in Threads, Lookup(t)
  PROVE  Inv'
<1>1. thread[t].at = "lookup" /\ thread[t] \in Working
  BY ThreadRow DEF Lookup, Inv
<1>2. PICK req \in Request : req = thread[t].req
  BY <1>1 DEF Working
<1>3. thread[t].promised # {} => Owed(req, thread[t].promised)
  BY <1>1, <1>2 DEF Inv, Sound
<1>4. UNCHANGED <<messages, campaigns, answered, online>>
  BY DEF Lookup
<1>5. CASE req.key # NoKey /\ Holders(req.kind, req.key) # {}
  <2>1. PICK i \in Holders(req.kind, req.key) : Replay(t, i)
    BY <1>2, <1>5 DEF Lookup
  <2> QED BY <1>1, <1>2, <1>3, <1>4, <1>5, <2>1, Replayed
<1>6. CASE ~(req.key # NoKey /\ Holders(req.kind, req.key) # {})
  <2>1. thread' = [thread EXCEPT ![t].at = "insert"]
    BY <1>2, <1>6 DEF Lookup
  <2>2. thread[t].promised = {}
    BY <1>3, <1>6 DEF Owed
  <2> QED BY <1>1, <1>4, <2>1, <2>2, GoesOn
<1> QED BY <1>5, <1>6

LEMMA RefusalStep ==
  ASSUME Inv, NEW t \in Threads, Reject(t) \/ Decline(t)
  PROVE  Inv'
<1>1. /\ thread[t] \in Working /\ Refuse(t) /\ UNCHANGED <<messages, campaigns, answered, online>>
      /\ thread[t].at = "insert" \/ (thread[t].at = "lookup" /\ Malformed(thread[t].req))
  BY ThreadRow DEF Reject, Decline, Inv
<1>2. thread[t].promised = {}
  BY <1>1 DEF Inv, Sound, Owed
<1> QED BY <1>1, <1>2, Refused

LEMMA InsertMessageStep ==
  ASSUME Inv, NEW t \in Threads, InsertMessage(t)
  PROVE  Inv'
<1>1. thread[t].at = "insert" /\ thread[t] \in Working /\ thread[t].promised = {}
  BY ThreadRow DEF InsertMessage, Inv, Sound
<1>2. PICK req \in Request : req = thread[t].req
  BY <1>1 DEF Working
<1>3. /\ req.kind = "message" /\ req.key \in AnyKey /\ req.body \in DOMAIN Letter
      /\ Stored("message", req.key) = req.key
      /\ Constrained("message", req.key) <=> req.key # NoKey
      /\ UNCHANGED <<campaigns, answered, online>>
  BY <1>2, RequestFacts DEF InsertMessage, Stored, Constrained
<1>4. CASE ~Duplicate("message", req.key)
  <2>1. PICK sim \in ResolveSim(Sims, Letter[req.body].from) :
          messages' = Append(messages,
            [key |-> req.key, body |-> req.body, sim |-> sim,
             segments |-> CountSegments(Letter[req.body].text)])
    BY <1>2, <1>3, <1>4 DEF InsertMessage
  <2> DEFINE row == [key |-> req.key, body |-> req.body, sim |-> sim,
                     segments |-> CountSegments(Letter[req.body].text)]
  <2>2. row \in MessageRow /\ row.key = req.key /\ row.body = req.body
    BY <1>3, SimThere DEF MessageRow, Counts
  <2> HIDE DEF row
  <2> PICK id : id = Len(messages) + 1
    OBVIOUS
  <2>3. messages' = Append(messages, row) /\ Reply(t, id)
    BY <1>2, <1>3, <1>4, <2>1 DEF InsertMessage, row
  <2>4. Constrained("message", row.key) => Holders("message", row.key) = {}
    BY <1>4, <2>2 DEF Duplicate
  <2>5. "message" \in Kinds /\ Table("message") = messages /\ Table("message")' = messages'
    BY DEF Kinds, Table
  <2>6. Rows /\ Unique
    BY DEF Inv, Shape
  <2>7. /\ Rows' /\ Unique' /\ Grows
        /\ id \in DOMAIN messages' /\ id \notin DOMAIN messages /\ messages'[id] = row
    BY <1>3, <2>2, <2>3, <2>4, <2>5, <2>6, Inserted
  <2>8. Tells(req.kind, req.key, req.body, id)'
    BY <1>3, <2>2, <2>5, <2>7 DEF Tells, SameLetter
  <2>9. WholeOrNothing'
    BY <1>3 DEF Inv, WholeOrNothing
  <2>10. ASSUME NEW u \in Threads \ {t}, thread[u].at = "commit", thread[u].req.key # NoKey
         PROVE  Holders("campaign", thread[u].req.key)' = {}
    <3>1. Holders("campaign", thread[u].req.key) = {}
      BY <2>10 DEF Inv, Sound
    <3>2. thread'[u] = thread[u]
      BY <2>3 DEF Reply, Inv, Shape
    <3> QED BY <1>3, <3>1, <3>2 DEF Holders, Table
  <2>11. id \in Nat
    BY Tables DEF Inv, Shape
  <2>12. req.key = NoKey => id \notin DOMAIN Table(req.kind)
    BY <1>3, <2>5, <2>7
  <2> QED BY <1>1, <1>2, <1>3, <2>3, <2>7, <2>8, <2>9, <2>10, <2>11, <2>12, Replied
<1>5. CASE Duplicate("message", req.key)
  <2>1. /\ messages' = messages /\ req.key # NoKey
        /\ Refuse(t) \/ thread' = [thread EXCEPT ![t].at = "requery"]
    BY <1>2, <1>3, <1>5 DEF InsertMessage, Duplicate
  <2>2. CASE Refuse(t)
    BY <1>1, <1>3, <2>1, <2>2, Refused
  <2>3. CASE thread' = [thread EXCEPT ![t].at = "requery"]
    BY <1>1, <1>2, <1>3, <2>1, <2>3, GoesOn
  <2> QED BY <2>1, <2>2, <2>3
<1> QED BY <1>4, <1>5

LEMMA InsertCampaignStep ==
  ASSUME Inv, NEW t \in Threads, InsertCampaign(t)
  PROVE  Inv'
<1>1. thread[t].at = "insert" /\ thread[t] \in Working /\ thread[t].promised = {}
  BY ThreadRow DEF InsertCampaign, Inv, Sound
<1>2. PICK req \in Request : req = thread[t].req
  BY <1>1 DEF Working
<1> DEFINE column == Stored("campaign", req.key)
<1>3. /\ req.kind = "campaign" /\ ~Invalid(req) /\ req.key \in AnyKey
      /\ UNCHANGED <<messages, campaigns, answered, online>>
      /\ Constrained("campaign", column) =>
           \A u \in Threads : thread[u].at = "commit" => thread[u].req.key # req.key
      /\ thread' = [thread EXCEPT ![t].at = IF Duplicate("campaign", column) THEN "requery" ELSE "commit"]
  BY <1>2, RequestFacts DEF InsertCampaign
<1>4. /\ req.key # NoKey => column = req.key /\ Constrained("campaign", column)
      /\ req.key = NoKey => ~Constrained("campaign", column)
  BY <1>3, KeyFacts DEF Kinds
<1> HIDE DEF column
<1>5. CASE Duplicate("campaign", column)
  <2>1. req.key # NoKey
    BY <1>4, <1>5 DEF Duplicate
  <2> QED BY <1>1, <1>2, <1>3, <1>5, <2>1, GoesOn
<1>6. CASE ~Duplicate("campaign", column)
  <2>1. req.key # NoKey => /\ Holders("campaign", req.key) = {}
                           /\ \A u \in Threads : ~Committing(u, req.key)
    BY <1>3, <1>4, <1>6 DEF Duplicate, Committing
  <2> QED BY <1>1, <1>2, <1>3, <1>6, <2>1, GoesOn
<1> QED BY <1>5, <1>6

LEMMA CommitStep ==
  ASSUME Inv, NEW t \in Threads, Commit(t)
  PROVE  Inv'
<1>1. thread[t].at = "commit" /\ thread[t] \in Working /\ thread[t].promised = {}
  BY ThreadRow DEF Commit, Inv, Sound
<1>2. PICK req \in Request : req = thread[t].req
  BY <1>1 DEF Working
<1> DEFINE draft == Draft[req.body]
<1>3. /\ req.kind = "campaign" /\ ~Invalid(req)
      /\ req.key # NoKey => Holders("campaign", req.key) = {}
  BY <1>1, <1>2 DEF Inv, Sound
<1>4. req.key \in AnyKey /\ req.body \in DOMAIN Draft
  BY <1>3, RequestFacts
<1>5. PICK sims \in Orders(draft), sim \in ResolveSim(Sims, draft.from) :
        campaigns' = Append(campaigns,
          [key |-> Stored("campaign", req.key), body |-> req.body,
           parts |-> Compose(draft.template, draft.recipients, sims, sim)])
  BY <1>2 DEF Commit
<1> DEFINE parts == Compose(draft.template, draft.recipients, sims, sim)
           row == [key |-> Stored("campaign", req.key), body |-> req.body, parts |-> parts]
<1> PICK id : id = Len(campaigns) + 1
  OBVIOUS
<1>6. Reply(t, id) /\ UNCHANGED <<messages, answered, online>>
  BY DEF Commit
<1>7. parts \in Parts
  <2>1. sims \in Lists
    BY DEF Orders, Lists
  <2>2. sim \in DOMAIN Sims
    BY SimThere
  <2> HIDE DEF Lists
  <2> QED BY <1>4, <2>1, <2>2 DEF Parts
<1>8. /\ DOMAIN parts = DOMAIN draft.recipients
      /\ \A j \in DOMAIN parts :
           /\ parts[j].to = draft.recipients[j].to
           /\ parts[j].text = Render(draft.template, draft.recipients[j].vars)
  BY DEF Compose
<1>9. \A j \in DOMAIN draft.recipients : draft.recipients[j].to # "invalid"
  BY <1>3 DEF Invalid, Bad
<1> HIDE DEF parts
<1>10. /\ req.key # NoKey => /\ Stored("campaign", req.key) = req.key
                             /\ Constrained("campaign", req.key)
       /\ req.key = NoKey => ~Constrained("campaign", Stored("campaign", req.key))
       /\ Stored("campaign", req.key) \in Keys \cup {Null}
  BY <1>4, KeyFacts DEF Kinds, Stored, AnyKey
<1>11. /\ row \in CampaignRow /\ row.key = Stored("campaign", req.key) /\ row.body = req.body
       /\ row.parts = parts
  BY <1>4, <1>7, <1>10 DEF CampaignRow
<1>12. campaigns' = Append(campaigns, row)
  BY <1>5 DEF parts
<1> HIDE DEF row
<1>13. "campaign" \in Kinds /\ Table("campaign") = campaigns /\ Table("campaign")' = campaigns'
  BY DEF Kinds, Table
<1>14. Constrained("campaign", row.key) => Holders("campaign", row.key) = {}
  BY <1>3, <1>10, <1>11
<1>15. Rows /\ Unique
  BY DEF Inv, Shape
<1>16. /\ Rows' /\ Unique' /\ Grows
       /\ id \in DOMAIN campaigns' /\ id \notin DOMAIN campaigns /\ campaigns'[id] = row
       /\ DOMAIN campaigns' = DOMAIN campaigns \cup {id}
  BY <1>6, <1>11, <1>12, <1>13, <1>14, <1>15, Inserted
<1>17. Tells(req.kind, req.key, req.body, id)'
  BY <1>3, <1>11, <1>13, <1>16 DEF Tells
<1>18. \A i \in DOMAIN campaigns : campaigns'[i] = campaigns[i]
  BY <1>13, <1>16 DEF Grows
<1>19. WholeOrNothing'
  BY <1>8, <1>9, <1>11, <1>16, <1>18 DEF Inv, WholeOrNothing
<1>20. ASSUME NEW u \in Threads \ {t}, thread[u].at = "commit", thread[u].req.key # NoKey
       PROVE  Holders("campaign", thread[u].req.key)' = {}
  <2>1. PICK key : key = thread[u].req.key
    OBVIOUS
  <2>2. thread[u].req \in Request
    BY <1>20, ThreadRow DEF Inv
  <2>3. key \in AnyKey /\ key \in Keys /\ key # Null
    BY <1>20, <2>1, <2>2, RequestFacts, Columns DEF AnyKey
  <2>4. key # req.key
    BY <1>1, <1>2, <1>20, <2>1, <2>3 DEF Inv, Alone, Committing
  <2>5. row.key # key
    BY <1>11, <2>3, <2>4 DEF Stored
  <2>6. Holders("campaign", key) = {}
    BY <1>20, <2>1 DEF Inv, Sound
  <2>7. Holders("campaign", key)' = {}
    BY <1>13, <1>16, <1>18, <2>5, <2>6 DEF Holders
  <2>8. thread'[u] = thread[u]
    BY <1>6 DEF Reply, Inv, Shape
  <2> QED BY <2>1, <2>7, <2>8 DEF Holders
<1>21. id \in Nat
  BY <1>15, Tables
<1>22. req.key = NoKey => id \notin DOMAIN Table(req.kind)
  BY <1>3, <1>13, <1>16
<1> QED BY <1>1, <1>2, <1>6, <1>16, <1>17, <1>19, <1>20, <1>21, <1>22, Replied

LEMMA RequeryStep ==
  ASSUME Inv, NEW t \in Threads, Requery(t)
  PROVE  Inv'
<1>1. thread[t].at = "requery" /\ thread[t] \in Working /\ thread[t].promised = {}
  BY ThreadRow DEF Requery, Inv, Sound
<1>2. PICK req \in Request : req = thread[t].req
  BY <1>1 DEF Working
<1>3. req.key # NoKey /\ UNCHANGED <<messages, campaigns, answered, online>>
  BY <1>1, <1>2 DEF Inv, Sound, Requery
<1>4. CASE Holders(req.kind, req.key) = {}
  <2>1. Refuse(t)
    BY <1>2, <1>4 DEF Requery
  <2> QED BY <1>1, <1>3, <2>1, Refused
<1>5. CASE Holders(req.kind, req.key) # {}
  <2>1. PICK i \in Holders(req.kind, req.key) : Replay(t, i)
    BY <1>2, <1>5 DEF Requery
  <2> QED BY <1>1, <1>2, <1>3, <2>1, Replayed
<1> QED BY <1>4, <1>5

LEMMA AnswerStep ==
  ASSUME Inv, NEW t \in Threads, Answer(t)
  PROVE  Inv'
<1> DEFINE a == [kind |-> thread[t].req.kind, key |-> thread[t].req.key,
                 body |-> thread[t].req.body, id |-> thread[t].id]
<1>1. /\ thread[t].at = "reply" /\ thread' = [thread EXCEPT ![t] = IdleThread]
      /\ UNCHANGED <<messages, campaigns, online>>
      /\ answered' = IF thread[t].id = 0 THEN answered ELSE answered \cup {a}
  BY DEF Answer
<1>2. thread[t].req.kind \in Kinds /\ thread[t].req.key \in AnyKey
  <2>1. thread[t].req \in Request
    BY <1>1, ThreadRow DEF Inv
  <2> QED BY <2>1, RequestFacts
<1>3. thread[t].id # 0 => Tells(thread[t].req.kind, thread[t].req.key, thread[t].req.body, thread[t].id)
  BY <1>1 DEF Inv, Sound
<1>4. ASSUME NEW b \in answered'
      PROVE  b.kind \in Kinds /\ b.key \in AnyKey /\ Tells(b.kind, b.key, b.body, b.id)
  BY <1>1, <1>2, <1>3, <1>4 DEF Inv, Honest
<1>5. Honest'
  BY <1>1, <1>4 DEF Honest, Tells, Table
<1>6. ASSUME NEW b \in answered' \ answered, NEW u \in Threads \ {t},
             thread[u].at = "reply", thread[u].req.key = NoKey, thread[u].id # 0,
             b.kind = thread[u].req.kind
      PROVE  b.id # thread[u].id
  <2>1. b.kind = thread[t].req.kind /\ b.id = thread[t].id
    BY <1>1, <1>6
  <2> QED BY <1>1, <1>6, <2>1 DEF Inv, KeylessNeverCollide
<1>7. IdleThread.at # "commit"
  BY DEF IdleThread
<1>8. \A b \in answered' \ answered, u \in Threads \ {t} :
        thread[u].at = "reply" /\ thread[u].req.key = NoKey /\ thread[u].id # 0
          /\ b.kind = thread[u].req.kind => b.id # thread[u].id
  BY <1>6
<1> HIDE DEF a
<1>9. thread' = [thread EXCEPT ![t] = IdleThread] /\ UNCHANGED <<messages, campaigns, online>>
  BY <1>1
<1> QED BY <1>5, <1>7, <1>8, <1>9, Moved

LEMMA CrashStep ==
  ASSUME Inv, NEW t \in Threads, Crash(t)
  PROVE  Inv'
<1>1. /\ thread' = [thread EXCEPT ![t] = IdleThread]
      /\ UNCHANGED <<messages, campaigns, online, answered>>
  BY DEF Crash
<1>2. Honest'
  BY <1>1 DEF Inv, Honest, Tells, Table
<1>3. IdleThread.at # "commit"
  BY DEF IdleThread
<1> QED BY <1>1, <1>2, <1>3, Moved

(* Neither the device's coming nor its going touches what Inv speaks of.   *)
LEMMA DeviceStep ==
  ASSUME Inv, Polls \/ Vanishes
  PROVE  Inv'
<1>1. UNCHANGED <<messages, campaigns, answered>> /\ online' \in BOOLEAN
  BY DEF Polls, Vanishes
<1>2. /\ thread' \in [Threads -> {IdleThread} \cup Working \cup Replying]
      /\ \A t \in Threads :
           /\ thread'[t].at = thread[t].at
           /\ thread[t].at # "idle" => /\ thread'[t].req = thread[t].req
                                       /\ thread'[t].promised = thread[t].promised
           /\ thread[t].at = "reply" => thread'[t].id = thread[t].id
  <2>1. CASE Polls
    BY <2>1 DEF Polls, Inv, Shape
  <2>2. CASE Vanishes
    <3>1. ASSUME NEW t \in Threads
          PROVE  IF thread[t].at \in {"idle", "reply"} THEN thread'[t] = thread[t]
                 ELSE /\ thread'[t] \in Working /\ thread'[t].at = thread[t].at
                      /\ thread'[t].req = thread[t].req /\ thread'[t].promised = thread[t].promised
      <4>1. CASE thread[t].at \in {"idle", "reply"}
        BY <2>2, <4>1 DEF Vanishes
      <4>2. CASE thread[t].at \notin {"idle", "reply"}
        <5>1. thread[t] \in Working
          BY <4>2 DEF Inv, Shape, IdleThread, Replying
        <5>2. thread'[t] = [thread[t] EXCEPT !.online = FALSE]
          BY <2>2, <4>2 DEF Vanishes
        <5> QED BY <4>2, <5>1, <5>2 DEF Working
      <4> QED BY <4>1, <4>2
    <3>2. thread' = [t \in Threads |-> thread'[t]]
      BY <2>2 DEF Vanishes
    <3>3. \A t \in Threads : thread'[t] \in {IdleThread} \cup Working \cup Replying
      BY <3>1 DEF Inv, Shape
    <3> QED BY <3>1, <3>2, <3>3
  <2> QED BY <2>1, <2>2
<1>3. Shape' /\ Unique' /\ Honest' /\ WholeOrNothing'
  BY <1>1, <1>2 DEF Inv, Shape, Rows, Unique, Honest, Tells, WholeOrNothing, Table
<1>4. Alone'
  BY <1>2 DEF Inv, Alone, Committing
<1>5. \A t \in Threads : Sound(thread[t])'
  <2> SUFFICES ASSUME NEW t \in Threads PROVE Sound(thread[t])'
    OBVIOUS
  <2>1. Sound(thread[t])
    BY DEF Inv
  <2>2. CASE thread[t].at = "idle"
    BY <1>2, <2>2 DEF Sound
  <2>3. CASE thread[t].at = "reply"
    BY <1>1, <1>2, <2>1, <2>3 DEF Sound, Tells, Table
  <2>4. CASE thread[t].at = "lookup"
    BY <1>1, <1>2, <2>1, <2>4 DEF Sound, Owed, Holders, Table, Matches, Malformed
  <2>5. CASE thread[t].at \in {"insert", "commit", "requery"}
    BY <1>1, <1>2, <2>1, <2>5 DEF Sound, Holders, Table, Invalid
  <2>6. thread[t].at \in {"idle", "reply", "lookup", "insert", "commit", "requery"}
    BY DEF Inv, Shape, IdleThread, Working, Replying
  <2> QED BY <2>2, <2>3, <2>4, <2>5, <2>6
<1>6. KeylessNeverCollide'
  BY <1>1, <1>2 DEF Inv, KeylessNeverCollide
<1> QED BY <1>3, <1>4, <1>5, <1>6 DEF Inv

LEMMA InvInit == Init => Inv
<1> SUFFICES ASSUME Init PROVE Inv
  OBVIOUS
<1>1. /\ messages = <<>> /\ campaigns = <<>> /\ answered = {} /\ online = FALSE
      /\ thread \in [Threads -> {IdleThread}]
      /\ \A t \in Threads : thread[t].at = "idle"
  BY DEF Init, IdleThread
<1>2. Shape
  <2>1. Rows
    BY <1>1 DEF Rows
  <2>2. thread \in [Threads -> {IdleThread} \cup Working \cup Replying]
    BY <1>1
  <2> QED BY <1>1, <2>1, <2>2 DEF Shape
<1>3. Unique /\ WholeOrNothing
  BY <1>1 DEF Unique, WholeOrNothing, Table
<1>4. Honest /\ Alone /\ (\A t \in Threads : Sound(thread[t])) /\ KeylessNeverCollide
  BY <1>1 DEF Honest, Alone, Committing, Sound, KeylessNeverCollide
<1> QED BY <1>2, <1>3, <1>4 DEF Inv

LEMMA InvStep == Inv /\ [Next]_vars => Inv'
<1> SUFFICES ASSUME Inv, [Next]_vars PROVE Inv'
  OBVIOUS
<1>1. CASE UNCHANGED vars
  <2>1. Shape' /\ Unique' /\ Honest' /\ Alone' /\ KeylessNeverCollide' /\ WholeOrNothing'
    BY <1>1 DEF vars, Inv, Shape, Rows, Unique, Honest, Tells, Table, Alone, Committing,
       KeylessNeverCollide, WholeOrNothing
  <2>2. \A t \in Threads : Sound(thread[t])'
    BY <1>1 DEF vars, Inv, Sound, Tells, Owed, Holders, Table, Matches, Malformed, Invalid
  <2> QED BY <2>1, <2>2 DEF Inv
<1>2. ASSUME NEW t \in Threads, Serve(t) PROVE Inv'
  BY <1>2, StartStep, RefusalStep, LookupStep, InsertMessageStep, InsertCampaignStep,
     CommitStep, RequeryStep, AnswerStep, CrashStep DEF Serve
<1> QED BY <1>1, <1>2, DeviceStep DEF Next

(* All accepted requests with one key are told the same row, and a         *)
(* message's row says what they asked for.                                 *)
THEOREM OneRowPerKey == Spec => []RetriesAgree
<1>1. Inv => RetriesAgree
  <2> SUFFICES ASSUME Inv PROVE RetriesAgree
    OBVIOUS
  <2>1. ASSUME NEW a \in Told
        PROVE  a.kind \in Kinds /\ a.key \in AnyKey /\ Tells(a.kind, a.key, a.body, a.id)
    <3>1. CASE a \in answered
      BY <3>1 DEF Inv, Honest
    <3>2. CASE a \notin answered
      <4>1. PICK t \in Threads : /\ thread[t].at = "reply" /\ thread[t].id # 0
                                 /\ a = [kind |-> thread[t].req.kind, key |-> thread[t].req.key,
                                         body |-> thread[t].req.body, id |-> thread[t].id]
        BY <3>2 DEF Told
      <4>2. thread[t].req \in Request
        BY <4>1, ThreadRow DEF Inv
      <4>3. Tells(thread[t].req.kind, thread[t].req.key, thread[t].req.body, thread[t].id)
        BY <4>1 DEF Inv, Sound
      <4> QED BY <4>1, <4>2, <4>3, RequestFacts
    <3> QED BY <3>1, <3>2
  <2>2. ASSUME NEW a \in Told, NEW b \in Told, a.kind = b.kind, a.key = b.key, a.key # NoKey
        PROVE  a.id = b.id
    <3>1. a.id \in Holders(a.kind, a.key) /\ b.id \in Holders(a.kind, a.key)
      BY <2>1, <2>2, KeyFacts DEF Tells, Holders
    <3> QED BY <2>1, <2>2, <3>1, OneHolder DEF Inv
  <2> QED BY <2>1, <2>2 DEF RetriesAgree, Tells
<1> QED BY <1>1, InvInit, InvStep, PTL DEF Spec

(* A request that repeats one that was accepted is told the same.          *)
THEOREM PromisesKept == Spec => []KeptPromise
<1>1. Inv => KeptPromise
  BY DEF Inv, Sound, KeptPromise
<1> QED BY <1>1, InvInit, InvStep, PTL DEF Spec

(* Requests without a key never share a row.                               *)
THEOREM KeylessApart == Spec => []KeylessNeverCollide
<1>1. Inv => KeylessNeverCollide
  BY DEF Inv
<1> QED BY <1>1, InvInit, InvStep, PTL DEF Spec

(* Each recipient of a campaign gets its one message.                      *)
THEOREM CampaignsWhole == Spec => []WholeOrNothing
<1>1. Inv => WholeOrNothing
  BY DEF Inv
<1> QED BY <1>1, InvInit, InvStep, PTL DEF Spec
-----------------------------------------------------------------------------
LEMMA SimsFacts == DOMAIN Sims \subseteq Nat /\ IsFiniteSet(DOMAIN Sims)
BY SendingAssumption DEF SendingAssumption

LEMMA LetterFacts == \A b \in DOMAIN Letter : Letter[b].text \in Text
BY SendingAssumption DEF SendingAssumption

LEMMA DraftFacts ==
  ASSUME NEW b \in DOMAIN Draft
  PROVE  /\ Draft[b].template.text \in Text /\ IsFiniteSet(DOMAIN Draft[b].template.names)
         /\ Len(Draft[b].recipients) \in Nat
         /\ DOMAIN Draft[b].recipients = 1..Len(Draft[b].recipients)
         /\ \A i \in DOMAIN Draft[b].recipients :
              \A n \in DOMAIN Draft[b].recipients[i].vars :
                Draft[b].recipients[i].vars[n] \in Text
<1> DEFINE names == Draft[b].template.names  recipients == Draft[b].recipients
<1>1. /\ Draft[b].template.text \in Text
      /\ names \in Seq(Range(names)) /\ recipients \in Seq(Range(recipients))
      /\ \A i \in DOMAIN recipients : Range(recipients[i].vars) \subseteq Text
  BY SendingAssumption DEF SendingAssumption
<1> HIDE DEF names, recipients
<1>2. IsFiniteSet(DOMAIN names)
  <2>1. Len(names) \in Nat /\ DOMAIN names = 1..Len(names)
    BY <1>1, LenProperties
  <2> QED BY <2>1, FS_Interval
<1>3. Len(recipients) \in Nat /\ DOMAIN recipients = 1..Len(recipients)
  BY <1>1, LenProperties
<1>4. \A i \in DOMAIN recipients : \A n \in DOMAIN recipients[i].vars : recipients[i].vars[n] \in Text
  BY <1>1 DEF Range
<1> QED BY <1>1, <1>2, <1>3, <1>4 DEF names, recipients

LEMMA CountsFacts == Counts \subseteq Nat
BY LetterFacts, CountIsRight DEF Counts, CountedRight

(* Every variable keeps its shape.                                         *)
THEOREM TypeCorrect == Spec => []SendingTypeOK
<1>1. Inv => SendingTypeOK
  <2> SUFFICES ASSUME Inv PROVE SendingTypeOK
    OBVIOUS
  <2> DEFINE Row == [key : Keys \cup {NoKey}, body : DOMAIN Letter, sim : DOMAIN Sims,
                     segments : Nat]
  <2>1. messages \in Seq(Row)
    <3>1. MessageRow \subseteq Row
      BY CountsFacts DEF MessageRow, AnyKey
    <3>2. messages \in Seq(MessageRow)
      BY DEF Inv, Shape, Rows
    <3> HIDE DEF Row
    <3>3. \A i \in 1..Len(messages) : messages[i] \in Row
      BY <3>1, <3>2, ElementOfSeq
    <3> QED BY <3>2, <3>3
  <2>2. \A i \in DOMAIN campaigns :
          campaigns[i].key \in Keys \cup {Null} /\ campaigns[i].body \in DOMAIN Draft
    BY Tables DEF Inv, Shape, CampaignRow
  <2>3. \A t \in Threads :
          thread[t].at \in {"idle", "lookup", "insert", "commit", "requery", "reply"}
    BY DEF Inv, Shape, IdleThread, Working, Replying
  <2>4. online \in BOOLEAN /\ \A a \in answered : a.id \in DOMAIN Table(a.kind)
    BY DEF Inv, Shape, Honest, Tells
  <2> QED BY <2>1, <2>2, <2>3, <2>4 DEF SendingTypeOK
<1> QED BY <1>1, InvInit, InvStep, PTL DEF Spec
-----------------------------------------------------------------------------
(* What a committed campaign was made from, and that nothing was wrong     *)
(* with it.                                                                *)
Made(row) ==
  LET draft == Draft[row.body] IN
  /\ Bad(draft.template, draft.recipients) = {}
  /\ \E sims \in Orders(draft), sim \in DOMAIN Sims :
       row.parts = Compose(draft.template, draft.recipients, sims, sim)

Composed == \A i \in DOMAIN campaigns : Made(campaigns[i])

LEMMA ComposedStep ==
  ASSUME Inv, Composed, [Next]_vars
  PROVE  Composed'
<1>1. CASE UNCHANGED campaigns
  BY <1>1 DEF Composed, Made
<1>2. ASSUME NEW t \in Threads, Commit(t) PROVE Composed'
  <2>1. thread[t].at = "commit" /\ thread[t].req \in Request
    BY <1>2, ThreadRow DEF Commit, Inv
  <2>2. PICK req \in Request : req = thread[t].req
    BY <2>1
  <2>3. req.kind = "campaign" /\ ~Invalid(req)
    BY <2>1, <2>2 DEF Inv, Sound
  <2> DEFINE draft == Draft[req.body]
  <2>4. Bad(draft.template, draft.recipients) = {}
    BY <2>3 DEF Invalid
  <2>5. PICK sims \in Orders(draft), sim \in ResolveSim(Sims, draft.from) :
          campaigns' = Append(campaigns,
            [key |-> Stored("campaign", req.key), body |-> req.body,
             parts |-> Compose(draft.template, draft.recipients, sims, sim)])
    BY <1>2, <2>2 DEF Commit
  <2>6. sim \in DOMAIN Sims
    BY SimThere
  <2> PICK row : row = [key |-> Stored("campaign", req.key), body |-> req.body,
                        parts |-> Compose(draft.template, draft.recipients, sims, sim)]
    OBVIOUS
  <2>7. row.body = req.body /\ row.parts = Compose(draft.template, draft.recipients, sims, sim)
    OBVIOUS
  <2>8. campaigns \in Seq(CampaignRow) /\ campaigns' = Append(campaigns, row)
    BY <2>5 DEF Inv, Shape, Rows
  <2> HIDE DEF draft
  <2>9. ASSUME NEW i \in DOMAIN campaigns'
        PROVE  \/ i \in DOMAIN campaigns /\ campaigns'[i] = campaigns[i]
               \/ campaigns'[i] = row
    BY <2>8
  <2>10. Made(row)
    BY <2>4, <2>6, <2>7 DEF Made, draft
  <2>11. \A i \in DOMAIN campaigns' : Made(campaigns'[i])
    BY <2>9, <2>10 DEF Composed
  <2> QED BY <2>11 DEF Composed, Made
<1> QED BY <1>1, <1>2 DEF Next, Serve, Start, Reject, Lookup, Decline, InsertMessage,
           InsertCampaign, Requery, Answer, Crash, Polls, Vanishes, vars

(* A message is counted when it is stored, by its own text.                *)
Metered ==
  \A i \in DOMAIN messages : messages[i].segments = CountSegments(Letter[messages[i].body].text)

LEMMA MeteredStep ==
  ASSUME Inv, Metered, [Next]_vars
  PROVE  Metered'
<1>1. CASE UNCHANGED messages
  BY <1>1 DEF Metered
<1>2. ASSUME NEW t \in Threads, InsertMessage(t), messages' # messages PROVE Metered'
  <2>1. PICK req, key, sim :
          messages' = Append(messages,
            [key |-> key, body |-> req.body, sim |-> sim,
             segments |-> CountSegments(Letter[req.body].text)])
    BY <1>2, Zenon DEF InsertMessage
  <2> PICK row : row = [key |-> key, body |-> req.body, sim |-> sim,
                        segments |-> CountSegments(Letter[req.body].text)]
    OBVIOUS
  <2>2. messages' = Append(messages, row) /\ row.segments = CountSegments(Letter[row.body].text)
    BY <2>1
  <2>3. messages \in Seq(MessageRow)
    BY DEF Inv, Shape, Rows
  <2>4. ASSUME NEW i \in DOMAIN messages'
        PROVE  \/ i \in DOMAIN messages /\ messages'[i] = messages[i]
               \/ messages'[i] = row
    BY <2>2, <2>3
  <2> QED BY <2>2, <2>4 DEF Metered
<1> QED BY <1>1, <1>2 DEF Next, Serve, Start, Reject, Lookup, Decline, Commit,
           InsertCampaign, Requery, Answer, Crash, Polls, Vanishes, vars

LEMMA Composition == Spec => [](Inv /\ Composed /\ Metered)
<1>1. Init => Composed /\ Metered
  BY DEF Init, Composed, Metered
<1> QED BY <1>1, InvInit, InvStep, ComposedStep, MeteredStep, PTL DEF Spec

LEMMA RenderedText ==
  ASSUME NEW b \in DOMAIN Draft, Bad(Draft[b].template, Draft[b].recipients) = {},
         NEW j \in DOMAIN Draft[b].recipients
  PROVE  Render(Draft[b].template, Draft[b].recipients[j].vars) \in Text
<1>1. Missing(Draft[b].template, Draft[b].recipients[j].vars) = {}
  BY DEF Bad
<1> DEFINE template == Draft[b].template  words == Draft[b].recipients[j].vars
<1>2. /\ template.text \in Text /\ IsFiniteSet(DOMAIN template.names)
      /\ \A n \in DOMAIN words : words[n] \in Text
  BY DraftFacts
<1> HIDE DEF template, words
<1>3. Missing(template, words) = {} => Render(template, words) \in Text
  BY <1>2, RenderType
<1> QED BY <1>1, <1>3 DEF template, words

(* No stored count is more than its text needs, whatever was put into the  *)
(* template, and it is as many as it needs wherever CountIsRight says so.  *)
THEOREM SegmentsCounted == Spec => []SegmentsRight
<1>1. Inv /\ Composed /\ Metered => SegmentsRight
  <2> SUFFICES ASSUME Inv, Composed, Metered PROVE SegmentsRight
    OBVIOUS
  <2>1. ASSUME NEW i \in DOMAIN messages
        PROVE  CountedRight(Letter[messages[i].body].text, messages[i].segments)
    <3>1. messages[i].body \in DOMAIN Letter
      BY Tables DEF Inv, Shape, MessageRow
    <3> QED BY <3>1, LetterFacts, CountIsRight DEF Metered
  <2>2. ASSUME NEW i \in DOMAIN campaigns, NEW j \in DOMAIN campaigns[i].parts
        PROVE  CountedRight(campaigns[i].parts[j].text, campaigns[i].parts[j].segments)
    <3>1. PICK b \in DOMAIN Draft : b = campaigns[i].body
      BY Tables DEF Inv, Shape, CampaignRow
    <3>2. PICK sims \in Orders(Draft[b]), sim \in DOMAIN Sims :
            campaigns[i].parts = Compose(Draft[b].template, Draft[b].recipients, sims, sim)
      BY <3>1 DEF Composed, Made
    <3>3. Bad(Draft[b].template, Draft[b].recipients) = {}
      BY <3>1 DEF Composed, Made
    <3> DEFINE text == Render(Draft[b].template, Draft[b].recipients[j].vars)
    <3>4. /\ j \in DOMAIN Draft[b].recipients
          /\ campaigns[i].parts[j].text = text
          /\ campaigns[i].parts[j].segments = CountSegments(text)
      BY <3>2 DEF Compose
    <3>5. text \in Text
      BY <3>3, <3>4, RenderedText
    <3> QED BY <3>4, <3>5, CountIsRight
  <2> QED BY <2>1, <2>2 DEF SegmentsRight, Range
<1> QED BY <1>1, Composition, PTL

(* The n messages of a campaign that rotates over k SIMs.                  *)
InTurn(parts, sims, n, k) ==
  /\ \A i, j \in 1..k : i # j => sims[i] # sims[j]
  /\ Len(sims) = k /\ sims # <<>>
  /\ DOMAIN parts = 1..n
  /\ \A j \in 1..n : parts[j].sim = SimOf(j, sims, 0)

LEMMA LoadOfTurn ==
  ASSUME NEW n \in Nat, NEW k \in Nat \ {0}, NEW sims, NEW parts, InTurn(parts, sims, n, k),
         NEW p \in 1..k
  PROVE  Load(parts, sims[p]) = Cardinality(Turns(n, k, p))
<1>1. ASSUME NEW j \in 1..n PROVE parts[j].sim = sims[p] <=> ((j - 1) % k) + 1 = p
  <2>1. ((j - 1) % k) + 1 \in 1..k
    OBVIOUS
  <2>2. parts[j].sim = sims[((j - 1) % k) + 1]
    BY DEF InTurn, SimOf
  <2> QED BY <2>1, <2>2 DEF InTurn
<1>2. {j \in DOMAIN parts : parts[j].sim = sims[p]} = Turns(n, k, p)
  BY <1>1 DEF Turns, InTurn
<1> QED BY <1>2 DEF Load

LEMMA Evenly ==
  ASSUME NEW b \in DOMAIN Draft, NEW sims \in Orders(Draft[b]), NEW sim \in DOMAIN Sims, NEW parts,
         parts = Compose(Draft[b].template, Draft[b].recipients, sims, sim)
  PROVE  IF Draft[b].rotate
         THEN \A r, s \in DOMAIN Sims : Load(parts, r) <= Load(parts, s) + 1
         ELSE \E s \in DOMAIN Sims : Load(parts, s) = Len(parts)
<1> PICK n : n = Len(Draft[b].recipients)
  OBVIOUS
<1>1. n \in Nat /\ DOMAIN parts = 1..n
  BY DraftFacts DEF Compose
<1>2. \A j \in 1..n : parts[j].sim = SimOf(j, sims, sim)
  BY <1>1 DEF Compose
<1>3. CASE Draft[b].rotate
  <2> PICK k : k = Cardinality(DOMAIN Sims)
    OBVIOUS
  <2>1. k \in Nat \ {0}
    BY SimsFacts, FS_CardinalityType, FS_EmptySet
  <2>2. sims \in [1..k -> DOMAIN Sims] /\ \A i, j \in 1..k : i # j => sims[i] # sims[j]
    BY <1>3 DEF Orders, SetToSeqs
  <2>3. Len(sims) = k /\ sims # <<>>
    BY <2>1, <2>2
  <2>4. \A r \in DOMAIN Sims : \E p \in 1..k : r = sims[p]
    <3>1. sims \in Injection(1..k, DOMAIN Sims)
      BY <2>2 DEF Injection, IsInjective
    <3>2. Cardinality(1..k) = k
      BY <2>1, FS_Interval
    <3>3. sims \in Surjection(1..k, DOMAIN Sims)
      BY <3>1, <3>2, SimsFacts, FS_Injection
    <3> QED BY <3>3 DEF Surjection
  <2>5. \A j \in 1..n : parts[j].sim = SimOf(j, sims, 0)
    BY <1>2, <2>3 DEF SimOf
  <2>6. InTurn(parts, sims, n, k)
    BY <1>1, <2>2, <2>3, <2>5 DEF InTurn
  <2>7. \A p \in 1..k : Load(parts, sims[p]) = Cardinality(Turns(n, k, p))
    BY <1>1, <2>1, <2>6, LoadOfTurn
  <2>8. \A p, q \in 1..k : Load(parts, sims[p]) <= Load(parts, sims[q]) + 1
    BY <1>1, <2>1, <2>7, TurnsEven
  <2> QED BY <1>3, <2>4, <2>8
<1>4. CASE ~Draft[b].rotate
  <2>1. sims = <<>>
    BY <1>4 DEF Orders
  <2>2. \A j \in 1..n : parts[j].sim = sim
    BY <1>2, <2>1 DEF SimOf
  <2>3. {j \in DOMAIN parts : parts[j].sim = sim} = 1..n
    BY <1>1, <2>2
  <2>4. Cardinality(1..n) = n
    BY <1>1, FS_Interval
  <2>5. Len(parts) = n
    BY <1>1 DEF Compose
  <2> QED BY <1>4, <2>3, <2>4, <2>5 DEF Load
<1> QED BY <1>3, <1>4

(* rotate_sims shares every campaign out evenly, over any number of SIMs   *)
(* in whatever order the database lists them.                              *)
THEOREM SharedEvenly == Spec => []EvenShares
<1>1. Inv /\ Composed => EvenShares
  <2> SUFFICES ASSUME Inv, Composed, NEW i \in DOMAIN campaigns
               PROVE  IF Draft[campaigns[i].body].rotate
                      THEN \A r, s \in DOMAIN Sims :
                             Load(campaigns[i].parts, r) <= Load(campaigns[i].parts, s) + 1
                      ELSE \E s \in DOMAIN Sims :
                             Load(campaigns[i].parts, s) = Len(campaigns[i].parts)
    BY DEF EvenShares
  <2>1. PICK b \in DOMAIN Draft : b = campaigns[i].body
    BY Tables DEF Inv, Shape, CampaignRow
  <2>2. PICK sims \in Orders(Draft[b]), sim \in DOMAIN Sims :
          campaigns[i].parts = Compose(Draft[b].template, Draft[b].recipients, sims, sim)
    BY <2>1 DEF Composed, Made
  <2> QED BY <2>1, <2>2, Evenly
<1> QED BY <1>1, Composition, PTL
=============================================================================
