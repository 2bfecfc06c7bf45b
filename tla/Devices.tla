------------------------------- MODULE Devices -------------------------------
(***************************************************************************)
(* A device: whether it counts as online, and its SIMs.                    *)
(*                                                                         *)
(* It is online while its last_seen_at is fresh.  A long poll writes it    *)
(* once, at its start, and then loops for up to PollTimeout seconds, so    *)
(* freshness must outlast a poll and the moment until the next one.        *)
(*                                                                         *)
(* Of a device's SIMs at most one is the default: Sim.save writes its row  *)
(* and then, in a second statement, clears the others.  Administrators     *)
(* save SIMs in transactions that overlap (READ COMMITTED): a statement    *)
(* sees what is committed when it begins, and waits for rows others have   *)
(* written.                                                                *)
(***************************************************************************)
EXTENDS Naturals, FiniteSets

CONSTANTS
  PollTimeout, PollInterval, OnlineSeconds,   \* settings, in seconds
  Gap,             \* how soon after an answer a phone polls again
  Conns,           \* connections that may carry a poll of the phone
  Sims, DeviceOf,  \* SIMs, and the device each is in
  Editors          \* administrators, each in one transaction at a time

ASSUME DevicesAssumption ==
  /\ PollTimeout \in Nat /\ PollInterval \in Nat \ {0} /\ OnlineSeconds \in Nat /\ Gap \in Nat
  /\ PollTimeout + PollInterval + Gap < OnlineSeconds
  /\ Sims \subseteq Nat

VARIABLES
  seen,            \* seconds since last_seen_at, OnlineSeconds when too many
  active, off,     \* the device's status, and seconds since it was deactivated
  poll,            \* the poll on each connection
  sim,             \* the SIM table, as far as committed
  editor,          \* the transaction of each administrator
  rivals           \* pairs of SIMs saved as default side by side, one of them new

presence == <<seen, active, off, poll>>
table == <<sim, editor, rivals>>
vars == <<presence, table>>

Least(a, b) == IF a < b THEN a ELSE b

Longest == PollTimeout + PollInterval        \* no poll lasts as long as that

(* Device.is_online.  A device never seen counts like one not seen lately. *)
IsOnline == seen < OnlineSeconds

(* age: seconds since the poll's start, or since its answer; nap: seconds  *)
(* left to sleep.                                                          *)
IdlePoll == [at |-> "idle", age |-> Gap + 1, nap |-> 0]

(* resolve_device lets active devices in; register and heartbeat.          *)
Seen ==
  /\ active
  /\ seen' = 0
  /\ UNCHANGED <<active, off, poll, table>>

StartUnseen(c) ==       \* mutant: a poll does not write last_seen_at
  /\ active /\ poll[c].at = "idle"
  /\ poll' = [poll EXCEPT ![c] = [at |-> "claim", age |-> 0, nap |-> 0]]
  /\ UNCHANGED <<seen, active, off, table>>

PollStart(c) ==
  /\ active /\ poll[c].at = "idle"
  /\ seen' = 0
  /\ poll' = [poll EXCEPT ![c] = [at |-> "claim", age |-> 0, nap |-> 0]]
  /\ UNCHANGED <<active, off, table>>

EndlessPoll(c, jobs) ==    \* mutant: the deadline is begun anew with every turn
  /\ poll[c].at = "claim"
  /\ poll' = [poll EXCEPT ![c] =
       IF jobs THEN [at |-> "idle", age |-> 0, nap |-> 0]
       ELSE [at |-> "sleep", age |-> 0, nap |-> PollInterval]]
  /\ UNCHANGED <<seen, active, off, table>>

(* claim_jobs found jobs, or it did not: then the poll ends with 204 when  *)
(* the deadline has passed, and sleeps otherwise.                          *)
PollTurn(c, jobs) ==
  /\ poll[c].at = "claim"
  /\ poll' = [poll EXCEPT ![c] =
       IF jobs \/ poll[c].age >= PollTimeout THEN [at |-> "idle", age |-> 0, nap |-> 0]
       ELSE [at |-> "sleep", age |-> @.age, nap |-> PollInterval]]
  /\ UNCHANGED <<seen, active, off, table>>

PollWakes(c) ==
  /\ poll[c].at = "sleep" /\ poll[c].nap = 0
  /\ poll' = [poll EXCEPT ![c].at = "claim"]
  /\ UNCHANGED <<seen, active, off, table>>

(* A second passes.  The queries of a poll take less, and it sleeps no     *)
(* longer than it should.                                                  *)
Second ==
  /\ \A c \in Conns : poll[c].at = "idle" \/ poll[c].nap > 0
  /\ seen' = Least(seen + 1, OnlineSeconds)
  /\ off' = Least(off + 1, Longest)
  /\ poll' = [c \in Conns |->
       IF poll[c].at = "idle" THEN [poll[c] EXCEPT !.age = Least(@ + 1, Gap + 1)]
       ELSE [poll[c] EXCEPT !.age = @ + 1, !.nap = @ - 1]]
  /\ UNCHANGED <<active, table>>

(* activate and deactivate, through the API or by an administrator.        *)
SetStatus(a) ==
  /\ a # active
  /\ active' = a
  /\ off' = 0
  /\ UNCHANGED <<seen, poll, table>>
-----------------------------------------------------------------------------
(* The SIMs.                                                               *)

Present(value) == value # "absent"

AllOthers(s) == Sims \ {s}            \* mutant: other devices' SIMs, too
Siblings(s) == {r \in Sims \ {s} : DeviceOf[r] = DeviceOf[s]}

(* What a transaction has written: "same" where nothing.                   *)
IdleEditor == [at |-> "open", new |-> [s \in Sims |-> "same"], saved |-> {}, sim |-> {}, todo |-> {}]

Written(e) == {s \in Sims : editor[e].new[s] # "same"}

Free(e, S) == \A f \in Editors \ {e} : Written(f) \cap S = {}

(* What the statements of a transaction see: its own writes over the rows  *)
(* that are committed.                                                     *)
View(e) == [s \in Sims |-> IF s \in Written(e) THEN editor[e].new[s] ELSE sim[s]]

(* The first statement of Sim.save: an INSERT, or an UPDATE that waits.  A *)
(* form saves each SIM once, and all of them in one transaction.           *)
SimWrite(e, s, value) ==
  /\ editor[e].at = "open" /\ s \notin editor[e].saved
  /\ \A r \in editor[e].saved : DeviceOf[r] = DeviceOf[s]
  /\ Free(e, {s})
  /\ editor' = [editor EXCEPT ![e] =
       [at |-> IF value = "default" THEN "clear" ELSE "open", new |-> [@.new EXCEPT ![s] = value],
        saved |-> @.saved \cup {s}, sim |-> {s}, todo |-> {}]]
  /\ rivals' = rivals \cup
       {{s, r} : r \in {q \in Siblings(s) : /\ value = "default" /\ "absent" \in {sim[s], sim[q]}
                                           /\ \E f \in Editors \ {e} : editor[f].new[q] = "default"}}
  /\ UNCHANGED <<presence, sim>>

(* The second statement begins: it takes its list of the other SIMs ...    *)
SimClear(e) ==
  /\ editor[e].at = "clear"
  /\ editor' = [editor EXCEPT ![e].at = "update",
       ![e].todo = {r \in Sims : Present(View(e)[r]) /\ \E s \in editor[e].sim : r \in Siblings(s)}]
  /\ UNCHANGED <<presence, sim, rivals>>

ClearedHeld(e) ==       \* mutant: rows that others hold are passed over
  LET hit == {r \in editor[e].todo : Present(View(e)[r]) /\ Free(e, {r})} IN
  /\ editor[e].at = "update"
  /\ editor' = [editor EXCEPT ![e].at = "open", ![e].todo = {},
                  ![e].new = [s \in Sims |-> IF s \in hit THEN "plain" ELSE @[s]]]
  /\ UNCHANGED <<presence, sim, rivals>>

(* ... and writes those that are still there when nobody holds them.       *)
SimCleared(e) ==
  LET hit == {r \in editor[e].todo : Present(View(e)[r])} IN
  /\ editor[e].at = "update"
  /\ Free(e, editor[e].todo)
  /\ editor' = [editor EXCEPT ![e].at = "open", ![e].todo = {},
                  ![e].new = [s \in Sims |-> IF s \in hit THEN "plain" ELSE @[s]]]
  /\ UNCHANGED <<presence, sim, rivals>>

Commit(e) ==
  /\ editor[e].at = "open" /\ editor[e].saved # {}
  /\ sim' = View(e)
  /\ rivals' = {p \in rivals : \A s \in p : View(e)[s] = "default" \/ s \notin Written(e)}
  /\ editor' = [editor EXCEPT ![e] = IdleEditor]
  /\ UNCHANGED presence

(* The process dies, or PostgreSQL ends a deadlock.                        *)
Abort(e) ==
  /\ editor[e].saved # {}
  /\ editor' = [editor EXCEPT ![e] = IdleEditor]
  /\ rivals' = {p \in rivals : \A s \in p \cap Written(e) : Present(sim[s])}
  /\ UNCHANGED <<presence, sim>>

SimDelete(s) ==
  /\ Present(sim[s])
  /\ \A f \in Editors : s \notin Written(f)
  /\ sim' = [sim EXCEPT ![s] = "absent"]
  /\ rivals' = {p \in rivals : s \notin p}
  /\ UNCHANGED <<presence, editor>>
-----------------------------------------------------------------------------
(* _create_sims, when the device is registered: they are saved one after   *)
(* another, each with what the phone said of it, and the last one said to  *)
(* be the default remains it.                                              *)
CreateSims(S, wish) ==
  [s \in Sims |->
     IF s \notin S THEN "absent"
     ELSE IF s \in wish /\ \A r \in S \cap wish \cap Siblings(s) : r < s THEN "default" ELSE "plain"]

Init ==
  /\ seen = OnlineSeconds /\ active = TRUE /\ off = 0
  /\ poll = [c \in Conns |-> IdlePoll]
  /\ \E S \in SUBSET Sims : \E wish \in SUBSET S : sim = CreateSims(S, wish)
  /\ editor = [e \in Editors |-> IdleEditor]
  /\ rivals = {}

Phone ==
  \/ Seen
  \/ \E c \in Conns : PollStart(c) \/ PollWakes(c) \/ \E jobs \in BOOLEAN : PollTurn(c, jobs)

Admin(e) ==
  \/ \E s \in Sims, value \in {"plain", "default"} : SimWrite(e, s, value)
  \/ SimClear(e) \/ SimCleared(e) \/ Commit(e) \/ Abort(e)

Next ==
  \/ Phone \/ Second
  \/ \E a \in BOOLEAN : SetStatus(a)
  \/ \E e \in Editors : Admin(e)
  \/ \E s \in Sims : SimDelete(s)

Spec == Init /\ [][Next]_vars
-----------------------------------------------------------------------------
(* A phone that is polling, or had its answer no more than Gap seconds     *)
(* ago, is online although a poll writes last_seen_at only once (poll: "a  *)
(* poll lasts <= POLL_TIMEOUT (< DEVICE_ONLINE_SECONDS) and the device     *)
(* immediately re-polls, so last_seen stays fresh").                       *)
OnlineWhilePolling ==
  \A c \in Conns : poll[c].at # "idle" \/ poll[c].age <= Gap => IsOnline

(* A poll outlives the deactivation of its device, since the status is     *)
(* checked once, but not for long: then the device is given nothing more.  *)
OffInTime == ~active /\ off = Longest => \A c \in Conns : poll[c].at = "idle"

(* A device has one default SIM at most, however the saves of two          *)
(* administrators and their aborts interleave, except for a SIM inserted   *)
(* as default and another saved as default before that is committed; and   *)
(* those two no longer than until one of them is saved again (test_models: *)
(* "sim_is_default_is_exclusive_per_device").                              *)
OneDefault ==
  \A s, r \in Sims :
    s # r /\ DeviceOf[s] = DeviceOf[r] /\ sim[s] = "default" /\ sim[r] = "default"
      => {s, r} \in rivals

(* A SIM ceases to be the default because it was saved so, or for another  *)
(* one of its device, never for the SIMs of other devices.                 *)
DefaultStays ==
  [][\A s \in Sims : sim[s] = "default" /\ sim'[s] = "plain" =>
       \E e \in Editors : \/ s \in editor[e].saved
                          \/ \E r \in editor[e].saved : /\ DeviceOf[r] = DeviceOf[s]
                                                         /\ sim'[r] = "default"]_vars
=============================================================================
