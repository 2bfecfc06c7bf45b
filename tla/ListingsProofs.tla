--------------------------- MODULE ListingsProofs ---------------------------
(***************************************************************************)
(* For tables and pages of any size, whatever comes, changes or goes       *)
(* between two pages: a walk along the cursor lists every row its list     *)
(* showed all along, and none twice.                                       *)
(***************************************************************************)
EXTENDS Listings, FiniteSetTheorems, WellFoundedInduction, TLAPS

Lists == {"messages", "campaign", "deliveries"}

Statuses == Absent \cup {"queued"} \cup {m[2] : m \in Moves}

WalkRow ==
  [at : {"idle", "page", "done", "error"}, list : Lists, filter : Filters \cup {NoFilter},
   asked : Asked \cup {NotANumber}, before : Nat, stayed : SUBSET Ids, got : [Ids -> Nat]]

Shape == table \in [Ids -> Statuses] /\ walk \in WalkRow

(* On the way: what is still below the cursor has not been listed, and     *)
(* above it nothing is missing or listed twice.                            *)
OnTheWay ==
  walk.at = "page" =>
    /\ walk.stayed \subseteq Shown(table, walk.list, walk.filter)
    /\ \A i \in Ids : IF i \in Below THEN walk.got[i] = 0
                      ELSE walk.got[i] <= 1 /\ (i \in walk.stayed => walk.got[i] > 0)

Inv == Shape /\ OnTheWay /\ NothingMissed /\ NoRepeats

LEMMA HasLeast ==
  ASSUME NEW S \in SUBSET Nat, S # {}
  PROVE  \E x \in S : \A y \in S : x <= y
<1>1. PICK x \in S : \A y \in S : <<y, x>> \notin OpToRel(<, Nat)
  <2> DEFINE R == OpToRel(<, Nat)
  <2>1. IsWellFoundedOn(R, Nat)
    BY NatLessThanWellFounded
  <2> HIDE DEF R
  <2>2. \E x \in S : \A y \in S : ~ (<<y, x>> \in R)
    BY <2>1, WFMin
  <2> QED BY <2>2 DEF R
<1>2. \A y \in S : ~(y < x)
  BY <1>1 DEF OpToRel
<1> QED BY <1>2

LEMMA AllStatuses ==
  Statuses = Absent \cup {"queued", "dispatched", "sent", "delivered", "failed", "expired",
                          "canceled"}
<1> DEFINE Ends == {"dispatched", "expired", "canceled", "sent", "delivered", "failed"}
<1>1. \A m \in Moves : m[2] \in Ends
  BY DEF Moves, Reported
<1>2. \A s \in Ends : \E m \in Moves : m[2] = s
  <2>1. \A s \in {"dispatched", "expired", "canceled"} : <<"queued", s>> \in Moves
    BY DEF Moves
  <2>2. \A s \in {"sent", "delivered", "failed"} : <<"sent", s>> \in Moves
    BY DEF Moves, Reported
  <2>3. \A a, s : <<a, s>>[2] = s
    OBVIOUS
  <2> QED BY <2>1, <2>2, <2>3
<1>3. {m[2] : m \in Moves} = Ends
  BY <1>1, <1>2
<1> QED BY <1>3 DEF Statuses

(* The query finds what the list shows below the cursor: the translation   *)
(* of the filter undoes that of the status.                                *)
LEMMA Finds ==
  ASSUME Shape, NEW i \in Below, i \in Shown(table, walk.list, walk.filter)
  PROVE  i \in Query
<1>1. i \in Ids /\ table[i] \in Statuses
  BY DEF Shape, Below
<1>2. table[i] # "sending"
  BY <1>1, AllStatuses DEF Absent
<1>3. walk.filter # NoFilter => table[i] = ToInternal(walk.filter)
  BY <1>2 DEF Shown, ToPublic, ToInternal
<1> QED BY <1>1, <1>3 DEF Shown, Query

LEMMA IdsFinite == IsFiniteSet(Ids) /\ Ids \subseteq Nat /\ \A i \in Ids : i > 0
BY FS_Interval, ListingsAssumption DEF Ids, ListingsAssumption

(* A page that is not full holds all there is, and a full one that is not  *)
(* empty has a cursor.                                                     *)
LEMMA PageOrRest ==
  ASSUME NEW items \in Newest
  PROVE  /\ items \subseteq Query /\ Query \subseteq Below /\ Below \subseteq Ids
         /\ \A i \in items, j \in Query \ items : j < i
         /\ NextBefore(items) = {} => items = Query \/ PageSize = 0
<1>1. /\ items \subseteq Query /\ Query \subseteq Below /\ Below \subseteq Ids
      /\ Cardinality(items) = Least(PageSize, Cardinality(Query))
      /\ \A i \in items, j \in Query \ items : j < i
  BY DEF Newest, Query, Below
<1>2. IsFiniteSet(Query)
  BY <1>1, IdsFinite, FS_Subset
<1>3. CASE Cardinality(items) # PageSize
  <2>1. Cardinality(items) = Cardinality(Query)
    BY <1>1, <1>3 DEF Least
  <2>2. items = Query
    BY <1>1, <1>2, <2>1, FS_Subset
  <2> QED BY <1>1, <2>2
<1>4. CASE Cardinality(items) = PageSize /\ PageSize # 0
  <2>1. items # {}
    BY <1>4, FS_EmptySet
  <2>2. items \in SUBSET Nat
    BY <1>1, IdsFinite
  <2>3. PICK i \in items : \A j \in items : i <= j
    BY <2>1, <2>2, HasLeast
  <2>4. NextBefore(items) # {}
    BY <1>4, <2>3 DEF NextBefore
  <2> QED BY <1>1, <2>4
<1> QED BY <1>1, <1>3, <1>4

LEMMA OthersStep ==
  ASSUME Inv, NEW t \in [Ids -> Statuses], Becomes(t)
  PROVE  Inv'
<1> DEFINE stayed == walk.stayed \cap Shown(t, walk.list, walk.filter)
           row == [walk EXCEPT !.stayed = stayed]
<1>1. walk \in WalkRow /\ stayed \subseteq Ids /\ stayed \subseteq walk.stayed
  BY DEF Inv, Shape, WalkRow
<1>2. table' = t /\ walk' = row
  BY DEF Becomes
<1>3. stayed \subseteq Shown(t, walk.list, walk.filter)
  OBVIOUS
<1> HIDE DEF stayed
<1>4. /\ row \in WalkRow /\ row.stayed = stayed /\ row.at = walk.at /\ row.list = walk.list
      /\ row.filter = walk.filter /\ row.before = walk.before /\ row.got = walk.got
  BY <1>1 DEF WalkRow
<1> HIDE DEF row
<1>5. Shape'
  BY <1>2, <1>4 DEF Shape
<1>6. Below' = Below
  BY <1>2, <1>4 DEF Below
<1>7. Shown(t, walk.list, walk.filter) = Shown(table, walk.list, walk.filter)'
  BY <1>2, <1>4 DEF Shown, ToPublic
<1>8. OnTheWay'
  BY <1>1, <1>2, <1>3, <1>4, <1>6, <1>7 DEF Inv, OnTheWay
<1>9. NothingMissed' /\ NoRepeats'
  BY <1>1, <1>2, <1>4 DEF Inv, NothingMissed, NoRepeats
<1> QED BY <1>5, <1>8, <1>9 DEF Inv

LEMMA StartStep ==
  ASSUME Inv, NEW list \in Lists, NEW f \in Filters \cup {NoFilter}, NEW a \in Asked,
         StartWalk(list, f, a)
  PROVE  Inv'
<1> DEFINE stayed == Shown(table, list, f)
           got == [i \in Ids |-> 0]
           row == [at |-> "page", list |-> list, filter |-> f, asked |-> a, before |-> 0,
                   stayed |-> stayed, got |-> got]
<1>1. table' = table /\ walk' = row
  BY DEF StartWalk
<1>2. got \in [Ids -> Nat] /\ stayed \subseteq Ids /\ \A i \in Ids : got[i] = 0
  BY DEF Shown
<1>3. stayed = Shown(table', list, f)
  BY <1>1
<1> HIDE DEF got, stayed
<1>4. /\ row \in WalkRow /\ row.at = "page" /\ row.list = list /\ row.filter = f
      /\ row.before = 0 /\ row.stayed = stayed /\ row.got = got
  BY <1>2 DEF WalkRow
<1> HIDE DEF row
<1>5. Shape'
  BY <1>1, <1>4 DEF Inv, Shape
<1>6. Below' = Ids
  BY <1>1, <1>4 DEF Below
<1>7. OnTheWay'
  BY <1>1, <1>2, <1>3, <1>4, <1>6 DEF OnTheWay
<1>8. NothingMissed' /\ NoRepeats'
  BY <1>1, <1>2, <1>4 DEF NothingMissed, NoRepeats
<1> QED BY <1>5, <1>7, <1>8 DEF Inv

LEMMA PageStep ==
  ASSUME Inv, Page
  PROVE  Inv'
<1>1. PICK items \in Newest : AnswerPage(items)
  BY DEF Page
<1> DEFINE cursor == CHOOSE i \in NextBefore(items) : TRUE
           at == IF NextBefore(items) # {} THEN "page" ELSE IF PageSize = 0 THEN "error" ELSE "done"
           before == IF NextBefore(items) = {} THEN 0 ELSE cursor
           got == [i \in Ids |-> IF i \in items THEN walk.got[i] + 1 ELSE walk.got[i]]
           row == [walk EXCEPT !.at = at, !.before = before, !.got = got]
<1>2. walk.at = "page" /\ table' = table /\ walk \in WalkRow
  BY DEF Page, Inv, Shape
<1>3. walk' = row
  BY <1>1 DEF AnswerPage
<1>4. /\ items \subseteq Query /\ Query \subseteq Below /\ Below \subseteq Ids
      /\ \A i \in items, j \in Query \ items : j < i
      /\ NextBefore(items) = {} => items = Query \/ PageSize = 0
  BY PageOrRest
<1>5. ASSUME NextBefore(items) # {}
      PROVE  cursor \in items /\ \A j \in items : cursor <= j
  BY <1>5 DEF NextBefore
<1>6. walk.got \in [Ids -> Nat] /\ walk.before \in Nat
  BY <1>2 DEF WalkRow
<1>7. before \in Nat /\ got \in [Ids -> Nat]
  <2>1. got \in [Ids -> Nat]
    BY <1>6
  <2>2. NextBefore(items) # {} => cursor \in Nat
    BY <1>4, <1>5, IdsFinite
  <2>3. before \in Nat
    <3> HIDE DEF cursor
    <3> QED BY <2>2
  <2> QED BY <2>1, <2>3
<1>8. \A i \in Ids : got[i] = IF i \in items THEN walk.got[i] + 1 ELSE walk.got[i]
  OBVIOUS
<1>9. /\ NextBefore(items) # {} => at = "page" /\ before = cursor
      /\ NextBefore(items) = {} => at # "page" /\ (at = "done" => PageSize # 0)
      /\ at \in {"page", "error", "done"}
  OBVIOUS
<1> HIDE DEF at, before, got, cursor
<1>10. /\ row \in WalkRow /\ row.at = at /\ row.before = before /\ row.got = got
       /\ row.list = walk.list /\ row.filter = walk.filter /\ row.stayed = walk.stayed
  BY <1>2, <1>7, <1>9 DEF WalkRow
<1> HIDE DEF row
<1>11. Shape'
  BY <1>2, <1>3, <1>10 DEF Inv, Shape
<1>12. ASSUME NEW i \in Ids PROVE got[i] <= 1
  BY <1>2, <1>4, <1>6, <1>8 DEF Inv, OnTheWay
<1>13. ASSUME NEW i \in walk.stayed, i \in Below PROVE i \in Query
  BY <1>2, <1>13, Finds DEF Inv, OnTheWay
<1>14. ASSUME NEW i \in walk.stayed, i \notin items, got[i] = 0
       PROVE  i \in Query
  <2>1. i \in Ids
    BY <1>2 DEF WalkRow
  <2>2. walk.got[i] = 0
    BY <1>8, <1>14, <2>1
  <2> QED BY <1>2, <1>13, <2>1, <2>2 DEF Inv, OnTheWay
<1>15. NoRepeats'
  BY <1>3, <1>10, <1>12 DEF NoRepeats
<1>16. ASSUME NEW i \in Ids, i \in items PROVE got[i] > 0
  BY <1>6, <1>8, <1>16
<1>17. walk.stayed \subseteq Ids
  BY <1>2 DEF WalkRow
<1>18. NothingMissed'
  <2> SUFFICES ASSUME at = "done", NEW i \in walk.stayed PROVE got[i] > 0
    BY <1>3, <1>10 DEF NothingMissed
  <2>1. items = Query
    BY <1>4, <1>9
  <2>2. got[i] \in Nat
    BY <1>7, <1>17
  <2> QED BY <1>14, <1>16, <1>17, <2>1, <2>2
<1>19. OnTheWay'
  <2> SUFFICES ASSUME at = "page"
               PROVE  /\ walk.stayed \subseteq Shown(table, walk.list, walk.filter)
                      /\ \A i \in Ids : IF i \in Below' THEN got[i] = 0
                                        ELSE got[i] <= 1 /\ (i \in walk.stayed => got[i] > 0)
    BY <1>2, <1>3, <1>10 DEF OnTheWay, Shown
  <2>1. walk.stayed \subseteq Shown(table, walk.list, walk.filter)
    BY <1>2 DEF Inv, OnTheWay
  <2>2. /\ cursor \in items /\ before = cursor /\ cursor \in Ids /\ cursor > 0
        /\ \A j \in items : cursor <= j
    BY <1>4, <1>5, <1>9, IdsFinite
  <2>3. \A i \in Ids : i \in Below' <=> i < cursor
    BY <1>3, <1>10, <2>2, IdsFinite DEF Below
  <2>4. ASSUME NEW i \in Ids, i < cursor PROVE got[i] = 0
    <3>1. i \notin items
      BY <2>2, <2>4, IdsFinite
    <3>2. cursor \in Below
      BY <1>4, <2>2
    <3>3. i \in Below
      BY <1>6, <2>2, <2>4, <3>2, IdsFinite DEF Below
    <3> QED BY <1>2, <1>8, <3>1, <3>3 DEF Inv, OnTheWay
  <2>5. ASSUME NEW i \in walk.stayed, ~(i < cursor) PROVE got[i] > 0
    <3>1. i \in Ids /\ got[i] \in Nat
      BY <1>7, <1>17
    <3>2. i \notin Query \ items
      BY <1>4, <2>2, <2>5
    <3> QED BY <1>14, <1>16, <3>1, <3>2
  <2> QED BY <1>12, <2>1, <2>3, <2>4, <2>5
<1> QED BY <1>11, <1>15, <1>18, <1>19 DEF Inv

LEMMA InvInit == Init => Inv
<1> SUFFICES ASSUME Init PROVE Inv
  OBVIOUS
<1> DEFINE got == [i \in Ids |-> 0]
<1>1. got \in [Ids -> Nat] /\ \A i \in Ids : got[i] = 0
  OBVIOUS
<1> HIDE DEF got
<1>2. walk = [at |-> "idle", list |-> "messages", filter |-> NoFilter, asked |-> NotANumber,
              before |-> 0, stayed |-> {}, got |-> got]
  BY DEF Init, got
<1>3. walk \in WalkRow /\ walk.at = "idle" /\ walk.got = got
  BY <1>1, <1>2 DEF WalkRow, Lists
<1>4. table \in [Ids -> Statuses]
  BY AllStatuses DEF Init, Absent
<1> QED BY <1>1, <1>3, <1>4 DEF Inv, Shape, OnTheWay, NothingMissed, NoRepeats

LEMMA InvStep == Inv /\ [Next]_vars => Inv'
<1> SUFFICES ASSUME Inv, [Next]_vars PROVE Inv'
  OBVIOUS
<1>1. CASE UNCHANGED vars
  BY <1>1 DEF vars, Inv, Shape, OnTheWay, NothingMissed, NoRepeats, Below, Shown
<1>2. table \in [Ids -> Statuses]
  BY DEF Inv, Shape
<1>3. ASSUME NEW i \in Ids, Insert(i) PROVE Inv'
  <2>1. [table EXCEPT ![i] = "uncommitted"] \in [Ids -> Statuses]
    BY <1>2, AllStatuses DEF Absent
  <2> QED BY <1>3, <2>1, OthersStep DEF Insert
<1>4. ASSUME NEW i \in Ids, Delete(i) PROVE Inv'
  <2>1. [table EXCEPT ![i] = "deleted"] \in [Ids -> Statuses]
    BY <1>2, AllStatuses DEF Absent
  <2> QED BY <1>4, <2>1, OthersStep DEF Delete
<1>5. ASSUME NEW i \in Ids, NEW s \in {m[2] : m \in Moves}, Move(i, s) PROVE Inv'
  <2>1. [table EXCEPT ![i] = s] \in [Ids -> Statuses]
    BY <1>2 DEF Statuses
  <2> QED BY <1>5, <2>1, OthersStep DEF Move
<1>6. ASSUME NEW S, Commit(S) PROVE Inv'
  <2>1. [i \in Ids |-> IF i \in S THEN "queued" ELSE table[i]] \in [Ids -> Statuses]
    BY <1>2, AllStatuses
  <2> QED BY <1>6, <2>1, OthersStep DEF Commit
<1>7. ASSUME NEW S, Rollback(S) PROVE Inv'
  <2>1. [i \in Ids |-> IF i \in S THEN "deleted" ELSE table[i]] \in [Ids -> Statuses]
    BY <1>2, AllStatuses DEF Absent
  <2> QED BY <1>7, <2>1, OthersStep DEF Rollback
<1>8. CASE Others
  BY <1>3, <1>4, <1>5, <1>6, <1>7, <1>8 DEF Others
<1>9. ASSUME NEW list \in Lists, NEW f \in Filters \cup {NoFilter}, NEW a \in Asked,
             StartWalk(list, f, a)
      PROVE  Inv'
  BY <1>9, StartStep
<1>10. CASE Page
  BY <1>10, PageStep
<1> QED BY <1>1, <1>8, <1>9, <1>10 DEF Next, Lists

(* A walk that is over has listed all that its list showed all along.      *)
THEOREM WalksMissNothing == Spec => []NothingMissed
<1>1. Inv => NothingMissed
  BY DEF Inv
<1> QED BY <1>1, InvInit, InvStep, PTL DEF Spec

(* No walk lists a row twice.                                              *)
THEOREM WalksRepeatNothing == Spec => []NoRepeats
<1>1. Inv => NoRepeats
  BY DEF Inv
<1> QED BY <1>1, InvInit, InvStep, PTL DEF Spec
-----------------------------------------------------------------------------
(* The counts of a campaign and the list of its messages agree under every *)
(* public status, all seven of which occur, and no message is left out.    *)
THEOREM CountsAgree ==
  ASSUME \A name \in {n[1] : n \in ProgressNames} : name # NoFilter
  PROVE  Spec => []ProgressAgrees
<1>1. Shape => ProgressAgrees
  <2> SUFFICES ASSUME Shape PROVE ProgressAgrees
    OBVIOUS
  <2>1. DOMAIN Progress = {n[1] : n \in ProgressNames}
    BY DEF Progress
  <2>2. CampaignIds \subseteq Ids /\ IsFiniteSet(CampaignIds)
    BY IdsFinite, FS_Subset, ListingsAssumption DEF ListingsAssumption
  <2>3. \A i \in Ids : table[i] \in Absent \cup {"queued", "dispatched", "sent", "delivered",
                                              "failed", "expired", "canceled"}
    BY AllStatuses DEF Shape
  <2>4. ASSUME NEW name \in DOMAIN Progress
        PROVE  /\ Progress[name] = Cardinality({i \in CampaignIds : <<name, table[i]>> \in ProgressNames})
               /\ {i \in CampaignIds : <<name, table[i]>> \in ProgressNames}
                    = Shown(table, "campaign", name)
    <3>1. name # NoFilter
      BY <2>1
    <3>2. name \in {"queued", "sending", "sent", "delivered", "failed", "expired", "canceled"}
      BY <2>1 DEF ProgressNames
    <3>3. ASSUME NEW i \in CampaignIds
          PROVE  <<name, table[i]>> \in ProgressNames
                   <=> table[i] \notin Absent /\ ToPublic(table[i]) = name
      BY <2>2, <2>3, <3>2 DEF ProgressNames, ToPublic, Absent
    <3>4. {i \in CampaignIds : <<name, table[i]>> \in ProgressNames} = Shown(table, "campaign", name)
      BY <2>2, <3>1, <3>3 DEF Shown
    <3> QED BY <3>4 DEF Progress
  <2>5. ASSUME NEW i \in CampaignIds, table[i] \notin Absent
        PROVE  Progress[ToPublic(table[i])] > 0
    <3> DEFINE name == ToPublic(table[i])
               S == {j \in CampaignIds : <<name, table[j]>> \in ProgressNames}
    <3>1. <<name, table[i]>> \in ProgressNames
      BY <2>2, <2>3, <2>5 DEF ProgressNames, ToPublic
    <3>2. name \in DOMAIN Progress
      BY <2>1, <3>1
    <3>3. i \in S /\ S \subseteq CampaignIds
      BY <3>1
    <3>4. Progress[name] = Cardinality(S)
      BY <2>4, <3>2
    <3> HIDE DEF S
    <3>5. IsFiniteSet(S) /\ S # {}
      BY <2>2, <3>3, FS_Subset
    <3>6. Cardinality(S) \in Nat /\ Cardinality(S) # 0
      BY <3>5, FS_CardinalityType, FS_EmptySet
    <3> QED BY <3>4, <3>6
  <2> QED BY <2>4, <2>5 DEF ProgressAgrees
<1>2. Inv => Shape
  BY DEF Inv
<1> QED BY <1>1, <1>2, InvInit, InvStep, PTL DEF Spec
-----------------------------------------------------------------------------
(* Every walk can only end well: no page is answered by an error, and each *)
(* one ends the walk or takes its cursor strictly down, so that it has at  *)
(* most one page for each row.  What is left to WalkEnds is that the       *)
(* developer asks on.                                                      *)
Descends ==
  \/ walk'.at = "done"
  \/ walk'.at = "page" /\ walk'.before \in Ids /\ (walk.before = 0 \/ walk'.before < walk.before)

NoError == walk.at # "error"

LEMMA PagesAreNotEmpty == Shape => PageSize > 0
<1>1. DefaultLimit \in Nat /\ DefaultLimit > 0 /\ MaxLimit \in Nat /\ MaxLimit > 0
  BY ListingsAssumption DEF ListingsAssumption
<1>2. ASSUME NEW a \in Asked \cup {NotANumber} PROVE Limit(a) > 0
  BY <1>1, ListingsAssumption DEF ListingsAssumption, Limit, Least
<1> QED BY <1>1, <1>2 DEF Shape, WalkRow, PageSize

LEMMA PageDescends ==
  ASSUME Shape, Page
  PROVE  Descends
<1>1. PICK items \in Newest : AnswerPage(items)
  BY DEF Page
<1> DEFINE cursor == CHOOSE i \in NextBefore(items) : TRUE
<1>2. walk \in WalkRow /\ walk.before \in Nat
  BY DEF Shape, WalkRow
<1>3. items \subseteq Below /\ Below \subseteq Ids /\ Ids \subseteq Nat
  BY PageOrRest, IdsFinite
<1>4. CASE NextBefore(items) = {}
  <2>1. walk'.at = IF PageSize = 0 THEN "error" ELSE "done"
    BY <1>1, <1>2, <1>4 DEF AnswerPage, WalkRow
  <2>2. PageSize # 0
    BY PagesAreNotEmpty
  <2> QED BY <2>1, <2>2 DEF Descends
<1>5. CASE NextBefore(items) # {}
  <2>1. cursor \in items
    BY <1>5 DEF NextBefore
  <2> HIDE DEF cursor
  <2>2. cursor \in Ids /\ (walk.before = 0 \/ cursor < walk.before)
    BY <1>3, <2>1 DEF Below
  <2>3. walk'.at = "page" /\ walk'.before = cursor
    BY <1>1, <1>2, <1>5 DEF AnswerPage, WalkRow, cursor
  <2> QED BY <2>2, <2>3 DEF Descends
<1> QED BY <1>4, <1>5

LEMMA NoErrorStep == Inv /\ NoError /\ [Next]_vars => NoError'
<1> SUFFICES ASSUME Inv, NoError, [Next]_vars PROVE NoError'
  OBVIOUS
<1>1. CASE Page
  BY <1>1, PageDescends DEF Inv, Descends, NoError
<1>2. ASSUME NEW t, Becomes(t) PROVE NoError'
  BY <1>2 DEF Becomes, NoError, Inv, Shape, WalkRow
<1>3. CASE Others
  BY <1>2, <1>3 DEF Others, Insert, Delete, Move, Commit, Rollback
<1>4. ASSUME NEW list, NEW f, NEW a, StartWalk(list, f, a) PROVE NoError'
  BY <1>4 DEF StartWalk, NoError
<1> QED BY <1>1, <1>3, <1>4 DEF Next, NoError, vars

(* No page is an IndexError, and every page of a walk ends it or takes it  *)
(* strictly further down, whatever the developer asks for as ?limit=.      *)
THEOREM WalksGoDown == Spec => []NoError /\ [][Page => Descends]_vars
<1>1. Init => NoError
  BY DEF Init, NoError
<1>2. Inv /\ [Next]_vars => [Page => Descends]_vars
  BY PageDescends DEF Inv
<1> QED BY <1>1, <1>2, NoErrorStep, InvInit, InvStep, PTL DEF Spec
=============================================================================
