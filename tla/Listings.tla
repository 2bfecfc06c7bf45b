------------------------------ MODULE Listings ------------------------------
(***************************************************************************)
(* The lists of the API: messages, the messages of a campaign and webhook  *)
(* deliveries, newest first, a page at a time.  A page ends with the       *)
(* cursor next_before, which the developer passes as ?before= for the next *)
(* one.  Between two pages rows come, change their status and go.          *)
(*                                                                         *)
(* There is one table, which stands for the table of the list walked       *)
(* through.  A primary key is drawn when a row is inserted, but the row is *)
(* visible only when its transaction commits: rows may show up below rows  *)
(* already listed.                                                         *)
(***************************************************************************)
EXTENDS Naturals, FiniteSets

CONSTANTS
  LastId,                   \* primary keys are 1..LastId
  CampaignIds,              \* the messages of the campaign
  Asked, NotANumber,        \* values of ?limit=, one of them no number
  DefaultLimit, MaxLimit,   \* 50 and 200
  Filters, NoFilter         \* values of ?status=

Ids == 1..LastId

ASSUME ListingsAssumption ==
  /\ LastId \in Nat /\ CampaignIds \subseteq Ids
  /\ Asked \subseteq Nat \cup {NotANumber}
  /\ DefaultLimit \in 1..MaxLimit /\ MaxLimit \in Nat

VARIABLES
  table,     \* the status of each row, and which rows are not there
  walk       \* a developer on the way through a list

vars == <<table, walk>>

Absent == {"unborn", "uncommitted", "deleted"}

(* The internal state "dispatched" is "sending" in the API.                *)
ToPublic(status) == IF status = "dispatched" THEN "sending" ELSE status

ToInternal(status) == IF status = "sending" THEN "dispatched" ELSE status

(* The counts of a campaign's detail: a public name for each status.       *)
ProgressNames == {<<"queued", "queued">>, <<"sending", "dispatched">>, <<"sent", "sent">>,
                  <<"delivered", "delivered">>, <<"failed", "failed">>,
                  <<"expired", "expired">>, <<"canceled", "canceled">>}

ProgressMisspelt ==      \* mutant: the rows are asked for as "cancelled"
  [name \in {n[1] : n \in ProgressNames} |->
     Cardinality({i \in CampaignIds :
       <<name, table[i]>> \in ProgressNames \ {<<"canceled", "canceled">>}})]

Progress == [name \in {n[1] : n \in ProgressNames} |->
  Cardinality({i \in CampaignIds : <<name, table[i]>> \in ProgressNames})]
-----------------------------------------------------------------------------
(* What a list shows of a table, were it not cut into pages.  The messages *)
(* of a campaign have a list of their own, without a filter, and are what  *)
(* the list of messages shows with ?campaign_id=.                          *)
Shown(t, list, filter) ==
  {i \in Ids : /\ t[i] \notin Absent
               /\ list = "campaign" => i \in CampaignIds
               /\ filter # NoFilter => ToPublic(t[i]) = filter}

(* The walk remembers which rows have been shown by its list ever since it *)
(* began: nobody may blame it for missing others.                          *)
Becomes(t) ==
  /\ table' = t
  /\ walk' = [walk EXCEPT !.stayed = @ \cap Shown(t, walk.list, walk.filter)]

Insert(i) ==
  /\ table[i] = "unborn" /\ \A j \in 1..(i - 1) : table[j] # "unborn"
  /\ Becomes([table EXCEPT ![i] = "uncommitted"])

(* A campaign and its messages are committed together.                     *)
Commit(S) ==
  /\ S # {} /\ \A i \in S : table[i] = "uncommitted"
  /\ S = CampaignIds \/ S \cap CampaignIds = {}
  /\ Becomes([i \in Ids |-> IF i \in S THEN "queued" ELSE table[i]])

Rollback(S) ==
  /\ S # {} /\ \A i \in S : table[i] = "uncommitted"
  /\ Becomes([i \in Ids |-> IF i \in S THEN "deleted" ELSE table[i]])

(* What Dispatch makes of a row: claimed, expired or canceled from the     *)
(* queue, reclaimed, reported, and reported late or by two threads at once *)
(* over what an earlier report had said.                                   *)
Reported == {"sent", "delivered", "failed"}

Moves ==
  ({"queued"} \X {"dispatched", "expired", "canceled"})
  \cup ({"dispatched"} \X {"sent", "failed"})
  \cup (Reported \X Reported)

Move(i, status) ==
  /\ <<table[i], status>> \in Moves
  /\ Becomes([table EXCEPT ![i] = status])

Delete(i) ==
  /\ table[i] \notin Absent
  /\ Becomes([table EXCEPT ![i] = "deleted"])
-----------------------------------------------------------------------------
Least(a, b) == IF a < b THEN a ELSE b

LimitUnclamped(asked) == IF asked = NotANumber THEN DefaultLimit ELSE Least(asked, MaxLimit)
                                      \* mutant: ?limit=0 is taken literally

Limit(asked) ==
  IF asked = NotANumber THEN DefaultLimit
  ELSE IF asked = 0 THEN 1 ELSE Least(asked, MaxLimit)

(* The list of deliveries has no parameters but the cursor, and pages of   *)
(* the default size.                                                       *)
PageSize == IF walk.list = "deliveries" THEN DefaultLimit ELSE Limit(walk.asked)

BelowAtMost == {i \in Ids : walk.before = 0 \/ i <= walk.before}
                                      \* mutant: id__lte for id__lt
Below == {i \in Ids : walk.before = 0 \/ i < walk.before}

Query ==
  {i \in Below : /\ table[i] \notin Absent
                 /\ walk.list = "campaign" => i \in CampaignIds
                 /\ walk.filter # NoFilter => table[i] = ToInternal(walk.filter)}

(* ORDER BY id DESC LIMIT PageSize: the newest rows, as many as there are. *)
Newest ==
  {T \in SUBSET Query : /\ Cardinality(T) = Least(PageSize, Cardinality(Query))
                        /\ \A i \in T, j \in Query \ T : j < i}

CursorAsAsked(items) ==      \* mutant: a full page is judged by the limit asked for
  IF walk.asked # NotANumber /\ Cardinality(items) # walk.asked THEN {}
  ELSE {i \in items : \A j \in items : i <= j}

(* next_before: the last id of a full page, otherwise none.                *)
NextBefore(items) ==
  IF Cardinality(items) # PageSize THEN {} ELSE {i \in items : \A j \in items : i <= j}

StartWalk(list, filter, asked) ==
  /\ walk.at # "page"
  /\ list = "deliveries" => filter = NoFilter /\ asked = NotANumber
  /\ walk' = [at |-> "page", list |-> list, filter |-> filter, asked |-> asked, before |-> 0,
              stayed |-> Shown(table, list, filter), got |-> [i \in Ids |-> 0]]
  /\ UNCHANGED table

(* The last item of an empty page that counts as full is an IndexError.    *)
AnswerPage(items) ==
  walk' = [walk EXCEPT
    !.at = IF NextBefore(items) # {} THEN "page" ELSE IF PageSize = 0 THEN "error" ELSE "done",
    !.before = IF NextBefore(items) = {} THEN 0 ELSE CHOOSE i \in NextBefore(items) : TRUE,
    !.got = [i \in Ids |-> IF i \in items THEN @[i] + 1 ELSE @[i]]]

Page ==
  /\ walk.at = "page"
  /\ \E items \in Newest : AnswerPage(items)
  /\ UNCHANGED table
-----------------------------------------------------------------------------
Init ==
  /\ table = [i \in Ids |-> "unborn"]
  /\ walk = [at |-> "idle", list |-> "messages", filter |-> NoFilter, asked |-> NotANumber,
             before |-> 0, stayed |-> {}, got |-> [i \in Ids |-> 0]]

Others ==
  \/ \E i \in Ids : Insert(i) \/ Delete(i) \/ \E s \in {m[2] : m \in Moves} : Move(i, s)
  \/ \E S \in {{i} : i \in Ids} \cup {CampaignIds} : Commit(S) \/ Rollback(S)

Next ==
  \/ Others
  \/ \E list \in {"messages", "campaign", "deliveries"}, f \in Filters \cup {NoFilter}, a \in Asked :
       StartWalk(list, f, a)
  \/ Page

(* A developer who began a walk goes on with it.                           *)
Spec == Init /\ [][Next]_vars /\ WF_vars(Page)
-----------------------------------------------------------------------------
(* When a walk is over it has listed every row its list showed all along,  *)
(* whatever came, changed or went in between (openapi.yaml: "pass as       *)
(* ?before= for the next page").                                           *)
NothingMissed == walk.at = "done" => \A i \in walk.stayed : walk.got[i] > 0

(* No row is listed twice by one walk.                                     *)
NoRepeats == \A i \in Ids : walk.got[i] <= 1

(* Every walk comes to its end, with an answer to each page, although rows *)
(* keep coming.                                                            *)
WalkEnds == walk.at = "page" ~> walk.at = "done"

(* The counts of a campaign agree with its list under the same status, and *)
(* add up to all its messages: no status is left out or counted twice.     *)
ProgressAgrees ==
  /\ \A name \in DOMAIN Progress : Progress[name] = Cardinality(Shown(table, "campaign", name))
  /\ \A i \in CampaignIds : table[i] \notin Absent => Progress[ToPublic(table[i])] > 0
=============================================================================
