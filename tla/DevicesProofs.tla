---------------------------- MODULE DevicesProofs ----------------------------
(***************************************************************************)
(* For all settings that satisfy the assumption, any number of connections *)
(* and of SIMs and editors: a phone that polls stays online, a device that *)
(* was deactivated is soon rid of its polls, and a device has one default  *)
(* SIM but for the rivals named in Devices.                                *)
(***************************************************************************)
EXTENDS Devices, TLAPS

(* Presence.  A poll saw the device when it began and is never older than  *)
(* Longest; its answer leaves an age that the next poll resets.            *)
PollRow == [at : {"idle", "claim", "sleep"}, age : Nat, nap : Nat]

Times ==
  /\ seen \in Nat /\ active \in BOOLEAN /\ off \in Nat
  /\ poll \in [Conns -> PollRow]

Young ==
  \A c \in Conns :
    IF poll[c].at = "idle"
    THEN poll[c].age <= Gap => seen < Longest + poll[c].age
    ELSE /\ poll[c].age + poll[c].nap < Longest
         /\ seen <= poll[c].age
         /\ ~active => off <= poll[c].age

Presence == Times /\ Young

LEMMA Settings ==
  /\ PollTimeout \in Nat /\ PollInterval \in Nat /\ PollInterval > 0
  /\ OnlineSeconds \in Nat /\ Gap \in Nat /\ Longest \in Nat
  /\ Longest = PollTimeout + PollInterval /\ Longest + Gap < OnlineSeconds
BY DevicesAssumption DEF DevicesAssumption, Longest

LEMMA PresenceInit == Init => Presence
<1> SUFFICES ASSUME Init PROVE Presence
  OBVIOUS
<1>1. IdlePoll \in PollRow /\ IdlePoll.at = "idle" /\ IdlePoll.age = Gap + 1
  BY Settings DEF IdlePoll, PollRow
<1>2. poll = [c \in Conns |-> IdlePoll]
  BY DEF Init
<1>3. poll \in [Conns -> PollRow] /\ \A c \in Conns : poll[c] = IdlePoll
  BY <1>1, <1>2
<1>4. seen \in Nat /\ active \in BOOLEAN /\ off \in Nat
  BY Settings DEF Init
<1> QED BY <1>1, <1>3, <1>4, Settings DEF Presence, Times, Young

(* One connection turns and the others stay as they are.                   *)
LEMMA Turn ==
  ASSUME Presence, NEW c \in Conns, NEW row \in PollRow, poll' = [poll EXCEPT ![c] = row],
         UNCHANGED <<active, off>>, seen' = seen \/ seen' = 0,
         IF row.at = "idle" THEN row.age <= Gap => seen' < Longest + row.age
         ELSE row.age + row.nap < Longest /\ seen' <= row.age /\ (~active => off <= row.age)
  PROVE  Presence'
<1>1. /\ poll' \in [Conns -> PollRow] /\ poll'[c] = row
      /\ \A b \in Conns : b # c => poll'[b] = poll[b]
  BY DEF Presence, Times
<1>2. Times'
  BY <1>1 DEF Presence, Times
<1>3. ASSUME NEW b \in Conns
      PROVE IF poll'[b].at = "idle"
            THEN poll'[b].age <= Gap => seen' < Longest + poll'[b].age
            ELSE /\ poll'[b].age + poll'[b].nap < Longest
                 /\ seen' <= poll'[b].age
                 /\ ~active' => off' <= poll'[b].age
  <2>1. CASE b = c
    BY <1>1, <2>1
  <2>2. CASE b # c
    <3>1. poll'[b] = poll[b] /\ poll[b] \in PollRow
      BY <1>1, <2>2 DEF Presence, Times
    <3>2. poll[b].age \in Nat /\ poll[b].nap \in Nat /\ seen \in Nat
      BY <3>1 DEF PollRow, Presence, Times
    <3> QED BY <3>1, <3>2, Settings DEF Presence, Young
  <2> QED BY <2>1, <2>2
<1>4. Young'
  BY <1>3 DEF Young, Longest
<1> QED BY <1>2, <1>4 DEF Presence

LEMMA SecondStep == Presence /\ Second => Presence'
<1> SUFFICES ASSUME Presence, Second PROVE Presence'
  OBVIOUS
<1>1. /\ seen \in Nat /\ off \in Nat /\ active' = active
      /\ seen' = Least(seen + 1, OnlineSeconds) /\ off' = Least(off + 1, Longest)
  BY DEF Presence, Times, Second
<1>2. seen' \in Nat /\ seen' <= seen + 1 /\ off' \in Nat /\ off' <= off + 1
  BY <1>1, Settings DEF Least
<1>3. ASSUME NEW c \in Conns
      PROVE  /\ poll'[c] \in PollRow
             /\ IF poll'[c].at = "idle"
                THEN poll'[c].age <= Gap => seen' < Longest + poll'[c].age
                ELSE /\ poll'[c].age + poll'[c].nap < Longest
                     /\ seen' <= poll'[c].age
                     /\ ~active' => off' <= poll'[c].age
  <2>1. poll[c] \in PollRow
    BY DEF Presence, Times
  <2>2. poll[c].age \in Nat /\ poll[c].nap \in Nat
    BY <2>1 DEF PollRow
  <2>3. CASE poll[c].at = "idle"
    <3>1. poll'[c] = [poll[c] EXCEPT !.age = Least(@ + 1, Gap + 1)]
      BY <2>3 DEF Second
    <3>2. Least(poll[c].age + 1, Gap + 1) \in Nat
      BY <2>2, Settings DEF Least
    <3>3. /\ poll'[c] \in PollRow /\ poll'[c].at = "idle"
          /\ poll'[c].age = Least(poll[c].age + 1, Gap + 1)
      BY <2>1, <2>3, <3>1, <3>2 DEF PollRow
    <3>4. poll'[c].age <= Gap => poll'[c].age = poll[c].age + 1 /\ poll[c].age <= Gap
      BY <2>2, <3>3, Settings DEF Least
    <3>5. poll[c].age <= Gap => seen < Longest + poll[c].age
      BY <2>3 DEF Presence, Young
    <3> QED BY <1>1, <1>2, <2>2, <3>3, <3>4, <3>5, Settings
  <2>4. CASE poll[c].at # "idle"
    <3>1. poll[c].nap > 0 /\ poll'[c] = [poll[c] EXCEPT !.age = @ + 1, !.nap = @ - 1]
      BY <2>4 DEF Second
    <3> DEFINE age == poll[c].age + 1
               nap == poll[c].nap - 1
    <3>4. age \in Nat /\ nap \in Nat /\ poll'[c] = [poll[c] EXCEPT !.age = age, !.nap = nap]
      BY <2>2, <3>1
    <3> HIDE DEF age, nap
    <3>5. /\ poll'[c] \in PollRow /\ poll'[c].at = poll[c].at
          /\ poll'[c].age = age /\ poll'[c].nap = nap
      BY <2>1, <3>4 DEF PollRow
    <3>2. /\ poll'[c] \in PollRow /\ poll'[c].at = poll[c].at
          /\ poll'[c].age = poll[c].age + 1 /\ poll'[c].nap = poll[c].nap - 1
      BY <3>5 DEF age, nap
    <3>3. /\ poll[c].age + poll[c].nap < Longest /\ seen <= poll[c].age
          /\ ~active => off <= poll[c].age
      BY <2>4 DEF Presence, Young
    <3> QED BY <1>1, <1>2, <2>2, <2>4, <3>2, <3>3, Settings
  <2> QED BY <2>3, <2>4
<1>4. poll' = [c \in Conns |-> poll'[c]]
  BY DEF Second
<1>5. Times'
  BY <1>1, <1>2, <1>3, <1>4 DEF Presence, Times
<1>6. Young'
  BY <1>3 DEF Young, Longest
<1> QED BY <1>5, <1>6 DEF Presence

LEMMA PresenceStep == Presence /\ [Next]_vars => Presence'
<1> SUFFICES ASSUME Presence, [Next]_vars PROVE Presence'
  OBVIOUS
<1>1. CASE UNCHANGED presence
  BY <1>1 DEF presence, Presence, Times, Young, Longest
<1>2. CASE Seen
  <2>1. seen' = 0 /\ UNCHANGED <<active, off, poll>>
    BY <1>2 DEF Seen
  <2>2. \A c \in Conns : poll[c].age \in Nat
    BY DEF Presence, Times, PollRow
  <2>3. Times'
    BY <2>1 DEF Presence, Times
  <2>4. Young'
    BY <2>1, <2>2, Settings DEF Presence, Young
  <2> QED BY <2>3, <2>4 DEF Presence
<1>3. ASSUME NEW c \in Conns, PollStart(c) PROVE Presence'
  <2> DEFINE row == [at |-> "claim", age |-> 0, nap |-> 0]
  <2>1. row \in PollRow /\ row.at = "claim" /\ row.age = 0 /\ row.nap = 0
    BY DEF PollRow
  <2>2. poll' = [poll EXCEPT ![c] = row] /\ seen' = 0 /\ active /\ UNCHANGED <<active, off>>
    BY <1>3 DEF PollStart
  <2> HIDE DEF row
  <2>3. row.age + row.nap < Longest /\ seen' <= row.age /\ (~active => off <= row.age)
    BY <2>1, <2>2, Settings
  <2> QED BY <2>1, <2>2, <2>3, Turn
<1>4. ASSUME NEW c \in Conns, PollWakes(c) PROVE Presence'
  <2> DEFINE row == [poll[c] EXCEPT !.at = "claim"]
  <2>1. /\ poll[c].at = "sleep" /\ UNCHANGED <<seen, active, off>>
        /\ poll' = [poll EXCEPT ![c] = row]
    BY <1>4 DEF PollWakes
  <2>2. row \in PollRow /\ row.at = "claim" /\ row.age = poll[c].age /\ row.nap = poll[c].nap
    BY DEF Presence, Times, PollRow
  <2>3. row.age + row.nap < Longest /\ seen <= row.age /\ (~active => off <= row.age)
    BY <2>1, <2>2 DEF Presence, Young
  <2> HIDE DEF row
  <2> QED BY <2>1, <2>2, <2>3, Turn
<1>5. ASSUME NEW c \in Conns, NEW jobs \in BOOLEAN, PollTurn(c, jobs) PROVE Presence'
  <2>1. /\ poll[c].at = "claim" /\ UNCHANGED <<seen, active, off>> /\ poll[c] \in PollRow
        /\ seen \in Nat
    BY <1>5 DEF PollTurn, Presence, Times
  <2>2. /\ poll[c].age + poll[c].nap < Longest /\ seen <= poll[c].age
        /\ ~active => off <= poll[c].age
    BY <2>1 DEF Presence, Young
  <2>3. poll[c].age \in Nat /\ poll[c].nap \in Nat
    BY <2>1 DEF PollRow
  <2>4. CASE jobs \/ poll[c].age >= PollTimeout
    <3> DEFINE row == [at |-> "idle", age |-> 0, nap |-> 0]
    <3>1. row \in PollRow /\ row.at = "idle" /\ row.age = 0
      BY DEF PollRow
    <3>2. poll' = [poll EXCEPT ![c] = row]
      BY <1>5, <2>4 DEF PollTurn
    <3> HIDE DEF row
    <3>3. row.age <= Gap => seen' < Longest + row.age
      BY <2>1, <2>2, <2>3, <3>1, Settings
    <3> QED BY <2>1, <3>1, <3>2, <3>3, Turn
  <2>5. CASE ~(jobs \/ poll[c].age >= PollTimeout)
    <3> DEFINE row == [at |-> "sleep", age |-> poll[c].age, nap |-> PollInterval]
    <3>1. row \in PollRow /\ row.at = "sleep" /\ row.age = poll[c].age /\ row.nap = PollInterval
      BY <2>3, Settings DEF PollRow
    <3>2. poll' = [poll EXCEPT ![c] = row]
      BY <1>5, <2>5 DEF PollTurn
    <3>3. row.age + row.nap < Longest
      BY <2>3, <2>5, <3>1, Settings
    <3> HIDE DEF row
    <3> QED BY <2>1, <2>2, <3>1, <3>2, <3>3, Turn
  <2> QED BY <2>4, <2>5
<1>6. ASSUME NEW a \in BOOLEAN, SetStatus(a) PROVE Presence'
  <2>1. active' \in BOOLEAN /\ off' = 0 /\ UNCHANGED <<seen, poll>>
    BY <1>6 DEF SetStatus
  <2>2. \A c \in Conns : poll[c].age \in Nat
    BY DEF Presence, Times, PollRow
  <2>3. Times'
    BY <2>1 DEF Presence, Times
  <2>4. Young'
    BY <2>1, <2>2 DEF Presence, Young, Longest
  <2> QED BY <2>3, <2>4 DEF Presence
<1>7. CASE Phone
  BY <1>2, <1>3, <1>4, <1>5, <1>7 DEF Phone
<1>8. ASSUME NEW e \in Editors, Admin(e) PROVE Presence'
  BY <1>1, <1>8 DEF Admin, SimWrite, SimClear, SimCleared, Commit, Abort
<1>9. ASSUME NEW s \in Sims, SimDelete(s) PROVE Presence'
  BY <1>1, <1>9 DEF SimDelete
<1> QED BY <1>1, <1>6, <1>7, <1>8, <1>9, SecondStep DEF Next, vars

(* A phone that is polling, or polls again soon enough, is online.         *)
THEOREM StaysOnline == Spec => []OnlineWhilePolling
<1>1. Presence => OnlineWhilePolling
  <2> SUFFICES ASSUME Presence, NEW c \in Conns, poll[c].at # "idle" \/ poll[c].age <= Gap
               PROVE  seen < OnlineSeconds
    BY DEF OnlineWhilePolling, IsOnline
  <2>1. poll[c].age \in Nat /\ poll[c].nap \in Nat /\ seen \in Nat
    BY DEF Presence, Times, PollRow
  <2> QED BY <2>1, Settings DEF Presence, Young
<1> QED BY <1>1, PresenceInit, PresenceStep, PTL DEF Spec

(* A poll outlives the deactivation of its device by less than Longest.    *)
THEOREM SoonOff == Spec => []OffInTime
<1>1. Presence => OffInTime
  <2> SUFFICES ASSUME Presence, ~active, off = Longest, NEW c \in Conns, poll[c].at # "idle"
               PROVE  FALSE
    BY DEF OffInTime
  <2>1. poll[c].age \in Nat /\ poll[c].nap \in Nat
    BY DEF Presence, Times, PollRow
  <2> QED BY <2>1, Settings DEF Presence, Young
<1> QED BY <1>1, PresenceInit, PresenceStep, PTL DEF Spec
-----------------------------------------------------------------------------
(* The SIMs.                                                               *)

Values == {"absent", "plain", "default"}

EditorRow == [at : {"open", "clear", "update"}, new : [Sims -> {"same", "plain", "default"}],
              saved : SUBSET Sims, sim : SUBSET Sims, todo : SUBSET Sims]

Tables == sim \in [Sims -> Values] /\ editor \in [Editors -> EditorRow]

Mates(s, r) == s # r /\ DeviceOf[s] = DeviceOf[r]

Rival(s, r) == {s, r} \in rivals

(* No row is written by two transactions at once.                          *)
Apart ==
  \A e, f \in Editors, s \in Sims : e # f => editor[e].new[s] = "same" \/ editor[f].new[s] = "same"

(* What a transaction has written it wrote for the SIMs of one device that *)
(* it saved: a default among them, when it cleared others.                 *)
Form ==
  \A e \in Editors :
    /\ \A s \in Sims : editor[e].new[s] = "default" => s \in editor[e].saved
    /\ \A s \in Sims, q \in editor[e].saved : editor[e].new[s] # "same" => DeviceOf[s] = DeviceOf[q]
    /\ \A q \in editor[e].saved : editor[e].new[q] # "same"
    /\ \A s \in Sims \ editor[e].saved : editor[e].new[s] = "plain" =>
         \E q \in editor[e].saved : editor[e].new[q] = "default"
    /\ editor[e].at # "open" =>
         \E s \in editor[e].saved : editor[e].sim = {s} /\ editor[e].new[s] = "default"
    /\ editor[e].at = "update" =>
         \A s \in editor[e].sim, r \in editor[e].todo : Mates(s, r)

(* The SIMs that a transaction is still to clear.                          *)
Owes(e, r) == editor[e].at = "clear" \/ (editor[e].at = "update" /\ r \in editor[e].todo)

(* Two defaults in one transaction: it is about to clear the older one.    *)
Within ==
  \A e \in Editors, s, r \in Sims :
    Mates(s, r) /\ editor[e].new[s] = "default" /\ editor[e].new[r] = "default" =>
      \/ editor[e].at = "clear" /\ (s \in editor[e].sim \/ r \in editor[e].sim)
      \/ editor[e].at = "update" /\ (s \in editor[e].todo \/ r \in editor[e].todo)

(* A default written and one committed.                                    *)
Over ==
  \A e \in Editors, s, r \in Sims :
    Mates(s, r) /\ editor[e].new[s] = "default" /\ editor[e].new[r] = "same" /\ sim[r] = "default" =>
      Rival(s, r) \/ Owes(e, r)

(* Defaults written by two transactions: one of them is still to clear the *)
(* other's, which it waits for, unless it could not see it.                *)
Beside ==
  \A e, f \in Editors, s, r \in Sims :
    e # f /\ Mates(s, r) /\ editor[e].new[s] = "default" /\ editor[f].new[r] = "default" =>
      /\ Rival(s, r) \/ Owes(e, r) \/ Owes(f, s)
      /\ sim[s] = "absent" \/ sim[r] = "absent" => Rival(s, r)

SimInv == Tables /\ Apart /\ Form /\ Within /\ Over /\ Beside /\ OneDefault

LEMMA Symmetric == \A s, r : Rival(s, r) <=> Rival(r, s)
<1>1. \A s, r : {s, r} = {r, s}
  OBVIOUS
<1> QED BY <1>1 DEF Rival

LEMMA SimInit == Init => SimInv
<1> SUFFICES ASSUME Init PROVE SimInv
  OBVIOUS
<1>1. PICK S \in SUBSET Sims : \E wish \in SUBSET S : sim = CreateSims(S, wish)
  BY DEF Init
<1>2. PICK wish \in SUBSET S : sim = CreateSims(S, wish)
  BY <1>1
<1>3. sim \in [Sims -> Values]
  BY <1>2 DEF CreateSims, Values
<1>4. OneDefault
  <2> SUFFICES ASSUME NEW s \in Sims, NEW r \in Sims, s # r, DeviceOf[s] = DeviceOf[r],
                      sim[s] = "default", sim[r] = "default"
               PROVE  FALSE
    BY DEF OneDefault
  <2>1. s \in S \cap wish /\ r \in S \cap wish
    BY <1>2 DEF CreateSims
  <2>2. r < s /\ s < r
    BY <1>2, <2>1 DEF CreateSims, Siblings
  <2>3. s \in Nat /\ r \in Nat
    BY DevicesAssumption DEF DevicesAssumption
  <2> QED BY <2>2, <2>3
<1>5. /\ IdleEditor \in EditorRow /\ IdleEditor.at = "open" /\ IdleEditor.saved = {}
      /\ \A s \in Sims : IdleEditor.new[s] = "same"
  BY DEF IdleEditor, EditorRow
<1>6. editor \in [Editors -> EditorRow] /\ \A e \in Editors : editor[e] = IdleEditor
  BY <1>5 DEF Init
<1>7. Tables /\ Apart /\ Form
  BY <1>3, <1>5, <1>6 DEF Tables, Apart, Form
<1>8. Within /\ Over /\ Beside
  BY <1>5, <1>6 DEF Within, Over, Beside
<1> QED BY <1>4, <1>7, <1>8 DEF SimInv

(* The end of a transaction, whatever becomes of its writes: the others    *)
(* are as they were.                                                       *)
LEMMA Ended ==
  ASSUME SimInv, NEW e \in Editors, editor' = [editor EXCEPT ![e] = IdleEditor],
         sim' \in [Sims -> Values]
  PROVE  /\ Tables' /\ Apart' /\ Form' /\ Within'
         /\ \A f \in Editors : f # e => editor'[f] = editor[f]
         /\ \A s \in Sims : editor'[e].new[s] = "same"
<1>1. /\ IdleEditor \in EditorRow /\ IdleEditor.at = "open" /\ IdleEditor.saved = {}
      /\ \A s \in Sims : IdleEditor.new[s] = "same"
  BY DEF IdleEditor, EditorRow
<1>2. /\ editor' \in [Editors -> EditorRow] /\ editor'[e] = IdleEditor
      /\ \A f \in Editors : f # e => editor'[f] = editor[f]
  BY <1>1 DEF SimInv, Tables
<1>3. Tables' /\ Apart'
  BY <1>1, <1>2 DEF SimInv, Tables, Apart
<1>4. Form'
  BY <1>1, <1>2 DEF SimInv, Form, Mates
<1>5. Within'
  BY <1>1, <1>2 DEF SimInv, Within, Mates
<1> QED BY <1>1, <1>2, <1>3, <1>4, <1>5

LEMMA CommitStep ==
  ASSUME SimInv, NEW e \in Editors, Commit(e)
  PROVE  SimInv'
<1>1. /\ editor[e].at = "open" /\ editor' = [editor EXCEPT ![e] = IdleEditor]
      /\ sim' = View(e)
      /\ rivals' = {p \in rivals : \A s \in p : View(e)[s] = "default" \/ s \notin Written(e)}
  BY DEF Commit
<1>2. editor[e] \in EditorRow
  BY DEF SimInv, Tables
<1>3. \A s \in Sims : sim'[s] = IF editor[e].new[s] # "same" THEN editor[e].new[s] ELSE sim[s]
  BY <1>1 DEF View, Written
<1>4. sim' \in [Sims -> Values]
  <2>1. \A s \in Sims : sim'[s] \in Values
    BY <1>2, <1>3 DEF EditorRow, SimInv, Tables, Values
  <2>2. sim' = [s \in Sims |-> sim'[s]]
    BY <1>1 DEF View
  <2> QED BY <2>1, <2>2
<1>5. ASSUME NEW s \in Sims, NEW r \in Sims, Rival(s, r),
             sim'[s] = "default" \/ editor[e].new[s] = "same",
             sim'[r] = "default" \/ editor[e].new[r] = "same"
      PROVE  Rival(s, r)'
  BY <1>1, <1>5 DEF Rival, Written
<1>6. /\ Tables' /\ Apart' /\ Form' /\ Within'
      /\ \A f \in Editors : f # e => editor'[f] = editor[f]
      /\ \A s \in Sims : editor'[e].new[s] = "same"
  BY <1>1, <1>4, Ended
<1>7. OneDefault'
  <2> SUFFICES ASSUME NEW s \in Sims, NEW r \in Sims, Mates(s, r),
                      sim'[s] = "default", sim'[r] = "default"
               PROVE  Rival(s, r)'
    BY DEF OneDefault, Mates, Rival
  <2>1. CASE editor[e].new[s] # "same" /\ editor[e].new[r] # "same"
    BY <1>1, <1>3, <2>1 DEF SimInv, Within
  <2>2. CASE editor[e].new[s] # "same" /\ editor[e].new[r] = "same"
    <3>1. Rival(s, r)
      BY <1>1, <1>3, <2>2 DEF SimInv, Over, Owes
    <3> QED BY <1>5, <3>1
  <2>3. CASE editor[e].new[s] = "same" /\ editor[e].new[r] # "same"
    <3>1. Mates(r, s)
      BY DEF Mates
    <3>2. Rival(r, s)
      BY <1>1, <1>3, <2>3, <3>1 DEF SimInv, Over, Owes
    <3> QED BY <1>5, <3>2, Symmetric
  <2>4. CASE editor[e].new[s] = "same" /\ editor[e].new[r] = "same"
    <3>1. Rival(s, r)
      BY <1>3, <2>4 DEF SimInv, OneDefault, Mates, Rival
    <3> QED BY <1>5, <3>1
  <2> QED BY <2>1, <2>2, <2>3, <2>4
<1>8. Over'
  <2> SUFFICES ASSUME NEW f \in Editors, NEW s \in Sims, NEW r \in Sims, Mates(s, r),
                      editor'[f].new[s] = "default", editor'[f].new[r] = "same", sim'[r] = "default"
               PROVE  Rival(s, r)' \/ Owes(f, r)'
    BY DEF Over, Mates
  <2>1. f # e /\ editor'[f] = editor[f]
    BY <1>6
  <2>2. editor[e].new[s] = "same"
    BY <2>1 DEF SimInv, Apart
  <2>3. Owes(f, r)' <=> Owes(f, r)
    BY <2>1 DEF Owes
  <2>4. Rival(s, r) \/ Owes(f, r)
    <3>1. CASE editor[e].new[r] = "same"
      BY <1>3, <2>1, <3>1 DEF SimInv, Over
    <3>2. CASE editor[e].new[r] # "same"
      BY <1>1, <1>3, <2>1, <3>2, Symmetric DEF SimInv, Beside, Owes, Mates
    <3> QED BY <3>1, <3>2
  <2> QED BY <1>5, <2>2, <2>3, <2>4
<1>9. Beside'
  <2> SUFFICES ASSUME NEW f \in Editors, NEW g \in Editors, NEW s \in Sims, NEW r \in Sims,
                      f # g, Mates(s, r), editor'[f].new[s] = "default", editor'[g].new[r] = "default"
               PROVE  /\ Rival(s, r)' \/ Owes(f, r)' \/ Owes(g, s)'
                      /\ sim'[s] = "absent" \/ sim'[r] = "absent" => Rival(s, r)'
    BY DEF Beside, Mates
  <2>1. f # e /\ g # e /\ editor'[f] = editor[f] /\ editor'[g] = editor[g]
    BY <1>6
  <2>2. editor[e].new[s] = "same" /\ editor[e].new[r] = "same"
    BY <2>1 DEF SimInv, Apart
  <2>3. (Owes(f, r)' <=> Owes(f, r)) /\ (Owes(g, s)' <=> Owes(g, s))
    BY <2>1 DEF Owes
  <2>4. sim'[s] = sim[s] /\ sim'[r] = sim[r] /\ (Rival(s, r) => Rival(s, r)')
    BY <1>3, <1>5, <2>2
  <2> QED BY <2>1, <2>3, <2>4 DEF SimInv, Beside
<1> QED BY <1>6, <1>7, <1>8, <1>9 DEF SimInv

LEMMA AbortStep ==
  ASSUME SimInv, NEW e \in Editors, Abort(e)
  PROVE  SimInv'
<1>1. /\ editor' = [editor EXCEPT ![e] = IdleEditor] /\ sim' = sim
      /\ rivals' = {p \in rivals : \A s \in p \cap Written(e) : Present(sim[s])}
  BY DEF Abort
<1>2. ASSUME NEW s \in Sims, NEW r \in Sims, Rival(s, r),
             sim[s] = "default" \/ editor[e].new[s] = "same",
             sim[r] = "default" \/ editor[e].new[r] = "same"
      PROVE  Rival(s, r)'
  BY <1>1, <1>2 DEF Rival, Written, Present
<1>3. /\ Tables' /\ Apart' /\ Form' /\ Within'
      /\ \A f \in Editors : f # e => editor'[f] = editor[f]
      /\ \A s \in Sims : editor'[e].new[s] = "same"
  <2>1. sim' \in [Sims -> Values]
    BY <1>1 DEF SimInv, Tables
  <2> QED BY <1>1, <2>1, Ended
<1>4. OneDefault'
  <2>1. ASSUME NEW s \in Sims, NEW r \in Sims, Mates(s, r), sim[s] = "default", sim[r] = "default"
        PROVE  Rival(s, r)'
    <3>1. Rival(s, r)
      BY <2>1 DEF SimInv, OneDefault, Mates, Rival
    <3> QED BY <1>2, <2>1, <3>1
  <2> QED BY <1>1, <2>1 DEF OneDefault, Mates, Rival
<1>5. ASSUME NEW f \in Editors, NEW s \in Sims, editor'[f].new[s] = "default"
      PROVE  f # e /\ editor'[f] = editor[f] /\ editor[e].new[s] = "same"
  BY <1>3, <1>5 DEF SimInv, Apart
<1>6. Over'
  <2> SUFFICES ASSUME NEW f \in Editors, NEW s \in Sims, NEW r \in Sims, Mates(s, r),
                      editor'[f].new[s] = "default", editor'[f].new[r] = "same", sim[r] = "default"
               PROVE  Rival(s, r)' \/ Owes(f, r)'
    BY <1>1 DEF Over, Mates
  <2> QED BY <1>2, <1>5 DEF SimInv, Over, Owes
<1>7. Beside'
  <2> SUFFICES ASSUME NEW f \in Editors, NEW g \in Editors, NEW s \in Sims, NEW r \in Sims,
                      f # g, Mates(s, r), editor'[f].new[s] = "default", editor'[g].new[r] = "default"
               PROVE  /\ Rival(s, r)' \/ Owes(f, r)' \/ Owes(g, s)'
                      /\ sim[s] = "absent" \/ sim[r] = "absent" => Rival(s, r)'
    BY <1>1 DEF Beside, Mates
  <2> QED BY <1>2, <1>5 DEF SimInv, Beside, Owes
<1> QED BY <1>3, <1>4, <1>6, <1>7 DEF SimInv

LEMMA DeleteStep ==
  ASSUME SimInv, NEW x \in Sims, SimDelete(x)
  PROVE  SimInv'
<1>1. /\ \A f \in Editors : editor[f].new[x] = "same"
      /\ editor' = editor /\ sim' = [sim EXCEPT ![x] = "absent"]
      /\ rivals' = {p \in rivals : x \notin p}
  BY DEF SimDelete, Written
<1>2. /\ sim' \in [Sims -> Values] /\ sim'[x] = "absent"
      /\ \A s \in Sims : s # x => sim'[s] = sim[s]
  BY <1>1 DEF SimInv, Tables, Values
<1>3. ASSUME NEW s \in Sims, NEW r \in Sims, Rival(s, r), s # x, r # x PROVE Rival(s, r)'
  BY <1>1, <1>3 DEF Rival
<1>4. Tables' /\ Apart' /\ Form' /\ Within'
  BY <1>1, <1>2 DEF SimInv, Tables, Apart, Form, Within, Mates
<1>5. OneDefault'
  <2>1. ASSUME NEW s \in Sims, NEW r \in Sims, Mates(s, r), sim'[s] = "default", sim'[r] = "default"
        PROVE  Rival(s, r)'
    <3>1. s # x /\ r # x /\ Rival(s, r)
      BY <1>2, <2>1 DEF SimInv, OneDefault, Mates, Rival
    <3> QED BY <1>3, <3>1
  <2> QED BY <2>1 DEF OneDefault, Mates, Rival
<1>6. Over'
  <2> SUFFICES ASSUME NEW f \in Editors, NEW s \in Sims, NEW r \in Sims, Mates(s, r),
                      editor[f].new[s] = "default", editor[f].new[r] = "same", sim'[r] = "default"
               PROVE  Rival(s, r)' \/ Owes(f, r)'
    BY <1>1 DEF Over, Mates
  <2> QED BY <1>1, <1>2, <1>3 DEF SimInv, Over, Owes
<1>7. Beside'
  <2> SUFFICES ASSUME NEW f \in Editors, NEW g \in Editors, NEW s \in Sims, NEW r \in Sims,
                      f # g, Mates(s, r), editor[f].new[s] = "default", editor[g].new[r] = "default"
               PROVE  /\ Rival(s, r)' \/ Owes(f, r)' \/ Owes(g, s)'
                      /\ sim'[s] = "absent" \/ sim'[r] = "absent" => Rival(s, r)'
    BY <1>1 DEF Beside, Mates
  <2>1. s # x /\ r # x
    BY <1>1
  <2> QED BY <1>1, <1>2, <1>3, <2>1 DEF SimInv, Beside, Owes
<1> QED BY <1>4, <1>5, <1>6, <1>7 DEF SimInv

LEMMA WriteStep ==
  ASSUME SimInv, NEW e \in Editors, NEW s \in Sims, NEW value \in {"plain", "default"},
         SimWrite(e, s, value)
  PROVE  SimInv'
<1> DEFINE new == [editor[e].new EXCEPT ![s] = value]
           row == [at |-> IF value = "default" THEN "clear" ELSE "open", new |-> new,
                   saved |-> editor[e].saved \cup {s}, sim |-> {s}, todo |-> {}]
<1>1. /\ editor[e].at = "open" /\ s \notin editor[e].saved
      /\ \A r \in editor[e].saved : DeviceOf[r] = DeviceOf[s]
      /\ \A f \in Editors : f # e => editor[f].new[s] = "same"
      /\ editor' = [editor EXCEPT ![e] = row] /\ sim' = sim
  BY DEF SimWrite, Free, Written
<1>2. \A r, q : Rival(r, q) => Rival(r, q)'
  BY DEF SimWrite, Rival
<1>3. ASSUME NEW r \in Sims, NEW f \in Editors, f # e, Mates(s, r), value = "default",
             editor[f].new[r] = "default", sim[s] = "absent" \/ sim[r] = "absent"
      PROVE  Rival(s, r)'
  BY <1>3 DEF SimWrite, Rival, Siblings, Mates
<1>4. editor[e] \in EditorRow
  BY DEF SimInv, Tables
<1>5. /\ new \in [Sims -> {"same", "plain", "default"}] /\ new[s] = value
      /\ \A r \in Sims : r # s => new[r] = editor[e].new[r]
  BY <1>4 DEF EditorRow
<1> HIDE DEF new
<1>6. /\ row \in EditorRow /\ row.new = new /\ row.saved = editor[e].saved \cup {s}
      /\ row.sim = {s} /\ row.todo = {}
      /\ row.at = IF value = "default" THEN "clear" ELSE "open"
  BY <1>4, <1>5 DEF EditorRow
<1> HIDE DEF row
<1>7. /\ editor' \in [Editors -> EditorRow] /\ editor'[e] = row
      /\ \A f \in Editors : f # e => editor'[f] = editor[f]
  BY <1>1, <1>6 DEF SimInv, Tables
<1>8. Tables'
  BY <1>1, <1>7 DEF SimInv, Tables
<1>9. Apart'
  BY <1>1, <1>5, <1>6, <1>7 DEF SimInv, Apart
<1>10. Form'
  <2> SUFFICES ASSUME NEW f \in Editors
               PROVE
    /\ \A q \in Sims : editor'[f].new[q] = "default" => q \in editor'[f].saved
    /\ \A r \in Sims, q \in editor'[f].saved : editor'[f].new[r] # "same" => DeviceOf[r] = DeviceOf[q]
    /\ \A q \in editor'[f].saved : editor'[f].new[q] # "same"
    /\ \A r \in Sims \ editor'[f].saved : editor'[f].new[r] = "plain" =>
         \E q \in editor'[f].saved : editor'[f].new[q] = "default"
    /\ editor'[f].at # "open" =>
         \E q \in editor'[f].saved : editor'[f].sim = {q} /\ editor'[f].new[q] = "default"
    /\ editor'[f].at = "update" =>
         \A q \in editor'[f].sim, r \in editor'[f].todo : Mates(q, r)
    BY DEF Form, Mates
  <2>1. CASE f # e
    BY <1>7, <2>1 DEF SimInv, Form
  <2>2. CASE f = e
    <3>1. editor[e].saved \subseteq Sims
      BY <1>4 DEF EditorRow
    <3>2. /\ \A q \in Sims : new[q] = "default" => q \in row.saved
          /\ \A q \in row.saved : new[q] # "same"
      BY <1>1, <1>5, <1>6, <3>1 DEF SimInv, Form
    <3>3. ASSUME NEW r \in Sims, new[r] # "same" PROVE DeviceOf[r] = DeviceOf[s]
      <4>1. CASE r = s
        BY <4>1
      <4>2. CASE r # s
        <5>1. editor[e].new[r] # "same"
          BY <1>5, <3>3, <4>2
        <5>2. CASE r \in editor[e].saved
          BY <1>1, <5>2
        <5>3. CASE r \notin editor[e].saved
          <6>1. editor[e].new[r] = "plain"
            BY <1>4, <5>1, <5>3 DEF SimInv, Form, EditorRow
          <6>2. PICK q \in editor[e].saved : editor[e].new[q] = "default"
            BY <5>3, <6>1 DEF SimInv, Form
          <6> QED BY <1>1, <5>1, <6>2 DEF SimInv, Form
        <5> QED BY <5>2, <5>3
      <4> QED BY <4>1, <4>2
    <3>4. \A r \in Sims, q \in row.saved : new[r] # "same" => DeviceOf[r] = DeviceOf[q]
      BY <1>1, <1>6, <3>3
    <3>5. \A r \in Sims \ row.saved : new[r] = "plain" => \E q \in row.saved : new[q] = "default"
      <4>1. ASSUME NEW r \in Sims \ row.saved, new[r] = "plain"
            PROVE  \E q \in row.saved : new[q] = "default"
        <5>1. r \in Sims \ editor[e].saved /\ editor[e].new[r] = "plain"
          BY <1>5, <1>6, <4>1
        <5>2. PICK q \in editor[e].saved : editor[e].new[q] = "default"
          BY <5>1 DEF SimInv, Form
        <5> QED BY <1>1, <1>5, <1>6, <3>1, <5>2
      <4> QED BY <4>1
    <3>6. row.at # "open" => s \in row.saved /\ row.sim = {s} /\ new[s] = "default"
      BY <1>5, <1>6
    <3>7. row.at # "update"
      BY <1>6
    <3> QED BY <1>6, <1>7, <2>2, <3>2, <3>4, <3>5, <3>6, <3>7
  <2> QED BY <2>1, <2>2
<1>11. Within'
  <2> SUFFICES ASSUME NEW f \in Editors, NEW q \in Sims, NEW r \in Sims, Mates(q, r),
                      editor'[f].new[q] = "default", editor'[f].new[r] = "default"
               PROVE  \/ editor'[f].at = "clear" /\ (q \in editor'[f].sim \/ r \in editor'[f].sim)
                      \/ editor'[f].at = "update" /\ (q \in editor'[f].todo \/ r \in editor'[f].todo)
    BY DEF Within, Mates
  <2>1. CASE f # e
    BY <1>7, <2>1 DEF SimInv, Within
  <2>2. CASE f = e /\ (q = s \/ r = s)
    BY <1>5, <1>6, <1>7, <2>2
  <2>3. CASE f = e /\ q # s /\ r # s
    BY <1>1, <1>5, <1>6, <1>7, <2>3 DEF SimInv, Within
  <2> QED BY <2>1, <2>2, <2>3
<1>12. /\ \A f \in Editors, r \in Sims : Owes(f, r) => Owes(f, r)'
       /\ value = "default" => \A r \in Sims : Owes(e, r)'
  BY <1>1, <1>6, <1>7 DEF Owes
<1>13. Over'
  <2> SUFFICES ASSUME NEW f \in Editors, NEW q \in Sims, NEW r \in Sims, Mates(q, r),
                      editor'[f].new[q] = "default", editor'[f].new[r] = "same", sim[r] = "default"
               PROVE  Rival(q, r)' \/ Owes(f, r)'
    BY <1>1 DEF Over, Mates
  <2>1. CASE f # e
    BY <1>2, <1>7, <1>12, <2>1 DEF SimInv, Over
  <2>2. CASE f = e /\ value # "default"
    BY <1>2, <1>5, <1>6, <1>7, <1>12, <2>2 DEF SimInv, Over
  <2> QED BY <1>12, <2>1, <2>2
<1>14. Beside'
  <2> SUFFICES ASSUME NEW f \in Editors, NEW g \in Editors, NEW q \in Sims, NEW r \in Sims,
                      f # g, Mates(q, r), editor'[f].new[q] = "default", editor'[g].new[r] = "default"
               PROVE  /\ Rival(q, r)' \/ Owes(f, r)' \/ Owes(g, q)'
                      /\ sim[q] = "absent" \/ sim[r] = "absent" => Rival(q, r)'
    BY <1>1 DEF Beside, Mates
  <2>1. CASE editor[f].new[q] = "default" /\ editor[g].new[r] = "default"
    BY <1>2, <1>12, <2>1 DEF SimInv, Beside
  <2>2. CASE editor[f].new[q] # "default"
    <3>1. f = e /\ q = s /\ value = "default" /\ editor[g].new[r] = "default"
      BY <1>5, <1>6, <1>7, <2>2
    <3> QED BY <1>3, <1>12, <3>1
  <2>3. CASE editor[g].new[r] # "default"
    <3>1. g = e /\ r = s /\ value = "default" /\ editor[f].new[q] = "default"
      BY <1>5, <1>6, <1>7, <2>3
    <3>2. sim[q] = "absent" \/ sim[r] = "absent" => Rival(r, q)'
      BY <1>3, <3>1 DEF Mates
    <3>3. Rival(r, q)' => Rival(q, r)'
      <4>1. {r, q} = {q, r}
        OBVIOUS
      <4> QED BY <4>1 DEF Rival
    <3> QED BY <1>12, <3>1, <3>2, <3>3
  <2> QED BY <2>1, <2>2, <2>3
<1>15. OneDefault'
  BY <1>1, <1>2 DEF SimInv, OneDefault, Rival
<1> QED BY <1>8, <1>9, <1>10, <1>11, <1>13, <1>14, <1>15 DEF SimInv

LEMMA ClearStep ==
  ASSUME SimInv, NEW e \in Editors, SimClear(e)
  PROVE  SimInv'
<1> DEFINE todo == {r \in Sims : /\ Present(View(e)[r])
                                 /\ \E s \in editor[e].sim : r \in Siblings(s)}
           row == [editor[e] EXCEPT !.at = "update", !.todo = todo]
<1>1. /\ editor[e].at = "clear" /\ sim' = sim /\ rivals' = rivals
      /\ editor' = [editor EXCEPT ![e] = row]
  BY DEF SimClear
<1>2. editor[e] \in EditorRow
  BY DEF SimInv, Tables
<1>3. PICK s0 \in editor[e].saved : editor[e].sim = {s0} /\ editor[e].new[s0] = "default"
  BY <1>1 DEF SimInv, Form
<1>4. s0 \in Sims /\ todo \subseteq Sims
  BY <1>2, <1>3 DEF EditorRow
<1>5. ASSUME NEW r \in todo PROVE Mates(s0, r)
  BY <1>3, <1>5 DEF Siblings, Mates
<1>6. ASSUME NEW r \in Sims, Mates(s0, r),
             editor[e].new[r] = "default" \/ (editor[e].new[r] = "same" /\ sim[r] # "absent")
      PROVE  r \in todo
  BY <1>3, <1>6 DEF Siblings, Mates, View, Written, Present
<1> HIDE DEF todo
<1>7. /\ row \in EditorRow /\ row.at = "update" /\ row.todo = todo /\ row.sim = editor[e].sim
      /\ row.new = editor[e].new /\ row.saved = editor[e].saved
  BY <1>2, <1>4 DEF EditorRow
<1> HIDE DEF row
<1>8. /\ editor' \in [Editors -> EditorRow] /\ editor'[e] = row
      /\ \A f \in Editors : f # e => editor'[f] = editor[f]
      /\ \A f \in Editors : editor'[f].new = editor[f].new
      /\ \A f \in Editors : editor'[f].saved = editor[f].saved
      /\ \A f \in Editors : editor'[f].sim = editor[f].sim
  BY <1>1, <1>7 DEF SimInv, Tables
<1>9. Tables' /\ Apart'
  BY <1>1, <1>8 DEF SimInv, Tables, Apart
<1>10. Form'
  BY <1>1, <1>3, <1>5, <1>7, <1>8 DEF SimInv, Form, Mates
<1>11. ASSUME NEW q \in Sims, editor[e].new[q] = "default" PROVE DeviceOf[q] = DeviceOf[s0]
  BY <1>3, <1>11 DEF SimInv, Form
<1>12. Within'
  <2> SUFFICES ASSUME NEW f \in Editors, NEW q \in Sims, NEW r \in Sims, Mates(q, r),
                      editor[f].new[q] = "default", editor[f].new[r] = "default"
               PROVE  \/ editor'[f].at = "clear" /\ (q \in editor'[f].sim \/ r \in editor'[f].sim)
                      \/ editor'[f].at = "update" /\ (q \in editor'[f].todo \/ r \in editor'[f].todo)
    BY <1>8 DEF Within, Mates
  <2>1. CASE f # e
    BY <1>8, <2>1 DEF SimInv, Within
  <2>2. CASE f = e
    <3>1. q = s0 \/ r = s0
      BY <1>1, <1>3, <2>2 DEF SimInv, Within
    <3>2. q \in todo \/ r \in todo
      BY <1>6, <2>2, <3>1 DEF Mates
    <3> QED BY <1>7, <1>8, <2>2, <3>2
  <2> QED BY <2>1, <2>2
<1>13. ASSUME NEW f \in Editors, f # e, NEW r \in Sims PROVE Owes(f, r)' <=> Owes(f, r)
  BY <1>8, <1>13 DEF Owes
<1>14. ASSUME NEW q \in Sims, NEW r \in Sims, Mates(q, r), editor[e].new[q] = "default",
              editor[e].new[r] = "same", sim[r] # "absent"
       PROVE  Owes(e, r)'
  <2>1. Mates(s0, r)
    BY <1>3, <1>11, <1>14 DEF Mates
  <2>2. r \in todo
    BY <1>6, <1>14, <2>1
  <2> QED BY <1>7, <1>8, <2>2 DEF Owes
<1>15. Over'
  <2> SUFFICES ASSUME NEW f \in Editors, NEW q \in Sims, NEW r \in Sims, Mates(q, r),
                      editor[f].new[q] = "default", editor[f].new[r] = "same", sim[r] = "default"
               PROVE  Rival(q, r)' \/ Owes(f, r)'
    BY <1>1, <1>8 DEF Over, Mates
  <2>1. CASE f # e
    BY <1>1, <1>13, <2>1 DEF SimInv, Over, Rival
  <2>2. CASE f = e
    BY <1>14, <2>2
  <2> QED BY <2>1, <2>2
<1>16. Beside'
  <2> SUFFICES ASSUME NEW f \in Editors, NEW g \in Editors, NEW q \in Sims, NEW r \in Sims,
                      f # g, Mates(q, r), editor[f].new[q] = "default", editor[g].new[r] = "default"
               PROVE  /\ Rival(q, r) \/ Owes(f, r)' \/ Owes(g, q)'
                      /\ sim[q] = "absent" \/ sim[r] = "absent" => Rival(q, r)
    BY <1>1, <1>8 DEF Beside, Mates, Rival
  <2>1. sim[q] = "absent" \/ sim[r] = "absent" => Rival(q, r)
    BY DEF SimInv, Beside
  <2>2. editor[f].new[r] = "same" /\ editor[g].new[q] = "same"
    BY DEF SimInv, Apart
  <2>3. Mates(r, q)
    BY DEF Mates
  <2>4. CASE f = e
    BY <1>14, <2>1, <2>2, <2>4
  <2>5. CASE g = e
    BY <1>14, <2>1, <2>2, <2>3, <2>5
  <2>6. CASE f # e /\ g # e
    BY <1>13, <2>1, <2>6 DEF SimInv, Beside
  <2> QED BY <2>1, <2>4, <2>5, <2>6
<1>17. OneDefault'
  BY <1>1 DEF SimInv, OneDefault
<1> QED BY <1>9, <1>10, <1>12, <1>15, <1>16, <1>17 DEF SimInv

LEMMA ClearedStep ==
  ASSUME SimInv, NEW e \in Editors, SimCleared(e)
  PROVE  SimInv'
<1> DEFINE hit == {r \in editor[e].todo : Present(View(e)[r])}
           new == [s \in Sims |-> IF s \in hit THEN "plain" ELSE editor[e].new[s]]
           row == [editor[e] EXCEPT !.at = "open", !.todo = {}, !.new = new]
<1>1. /\ editor[e].at = "update" /\ sim' = sim /\ rivals' = rivals
      /\ editor' = [editor EXCEPT ![e] = row]
  BY DEF SimCleared
<1>2. \A f \in Editors, r \in Sims : f # e /\ r \in editor[e].todo => editor[f].new[r] = "same"
  BY DEF SimCleared, Free, Written
<1>3. editor[e] \in EditorRow
  BY DEF SimInv, Tables
<1>4. PICK s0 \in editor[e].saved : editor[e].sim = {s0} /\ editor[e].new[s0] = "default"
  BY <1>1 DEF SimInv, Form
<1>5. s0 \in Sims /\ editor[e].todo \subseteq Sims /\ editor[e].saved \subseteq Sims
  BY <1>3, <1>4 DEF EditorRow
<1>6. ASSUME NEW r \in editor[e].todo PROVE Mates(s0, r)
  BY <1>1, <1>4, <1>6 DEF SimInv, Form
<1>7. ASSUME NEW r \in editor[e].todo,
             editor[e].new[r] = "default" \/ (editor[e].new[r] = "same" /\ sim[r] # "absent")
      PROVE  r \in hit
  BY <1>5, <1>7 DEF View, Written, Present
<1>8. hit \subseteq editor[e].todo
  OBVIOUS
<1> HIDE DEF hit
<1>9. /\ new \in [Sims -> {"same", "plain", "default"}]
      /\ \A r \in Sims : new[r] = IF r \in hit THEN "plain" ELSE editor[e].new[r]
  BY <1>3 DEF EditorRow
<1> HIDE DEF new
<1>10. /\ row \in EditorRow /\ row.at = "open" /\ row.todo = {} /\ row.sim = editor[e].sim
       /\ row.new = new /\ row.saved = editor[e].saved
  BY <1>3, <1>9 DEF EditorRow
<1> HIDE DEF row
<1>11. /\ editor' \in [Editors -> EditorRow] /\ editor'[e] = row
       /\ \A f \in Editors : f # e => editor'[f] = editor[f]
  BY <1>1, <1>10 DEF SimInv, Tables
<1>12. new[s0] = "default"
  BY <1>4, <1>5, <1>6, <1>8, <1>9 DEF Mates
<1>13. Tables' /\ OneDefault'
  BY <1>1, <1>11 DEF SimInv, Tables, OneDefault
<1>14. Apart'
  BY <1>2, <1>8, <1>9, <1>10, <1>11 DEF SimInv, Apart
<1>15. Form'
  <2>1. /\ \A q \in Sims : new[q] = "default" => q \in editor[e].saved
        /\ \A q \in editor[e].saved : new[q] # "same"
    BY <1>5, <1>9 DEF SimInv, Form
  <2>2. ASSUME NEW r \in Sims, NEW q \in editor[e].saved, new[r] # "same"
        PROVE  DeviceOf[r] = DeviceOf[q]
    <3>1. CASE r \in hit
      <4>1. DeviceOf[s0] = DeviceOf[q]
        BY <1>4, <1>5 DEF SimInv, Form
      <4> QED BY <1>6, <1>8, <3>1, <4>1 DEF Mates
    <3>2. CASE r \notin hit
      BY <1>9, <2>2, <3>2 DEF SimInv, Form
    <3> QED BY <3>1, <3>2
  <2>3. \E q \in editor[e].saved : new[q] = "default"
    BY <1>4, <1>12
  <2> SUFFICES ASSUME NEW f \in Editors
               PROVE
    /\ \A q \in Sims : editor'[f].new[q] = "default" => q \in editor'[f].saved
    /\ \A r \in Sims, q \in editor'[f].saved : editor'[f].new[r] # "same" => DeviceOf[r] = DeviceOf[q]
    /\ \A q \in editor'[f].saved : editor'[f].new[q] # "same"
    /\ \A r \in Sims \ editor'[f].saved : editor'[f].new[r] = "plain" =>
         \E q \in editor'[f].saved : editor'[f].new[q] = "default"
    /\ editor'[f].at # "open" =>
         \E q \in editor'[f].saved : editor'[f].sim = {q} /\ editor'[f].new[q] = "default"
    /\ editor'[f].at = "update" =>
         \A q \in editor'[f].sim, r \in editor'[f].todo : Mates(q, r)
    BY DEF Form, Mates
  <2>4. CASE f # e
    BY <1>11, <2>4 DEF SimInv, Form
  <2>5. CASE f = e
    BY <1>10, <1>11, <2>1, <2>2, <2>3, <2>5
  <2> QED BY <2>4, <2>5
<1>16. Within'
  <2> SUFFICES ASSUME NEW f \in Editors, NEW q \in Sims, NEW r \in Sims, Mates(q, r),
                      editor'[f].new[q] = "default", editor'[f].new[r] = "default"
               PROVE  \/ editor'[f].at = "clear" /\ (q \in editor'[f].sim \/ r \in editor'[f].sim)
                      \/ editor'[f].at = "update" /\ (q \in editor'[f].todo \/ r \in editor'[f].todo)
    BY DEF Within, Mates
  <2>1. CASE f # e
    BY <1>11, <2>1 DEF SimInv, Within
  <2>2. CASE f = e
    <3>1. /\ q \notin hit /\ r \notin hit
          /\ editor[e].new[q] = "default" /\ editor[e].new[r] = "default"
      BY <1>9, <1>10, <1>11, <2>2
    <3>2. q \in editor[e].todo \/ r \in editor[e].todo
      BY <1>1, <3>1 DEF SimInv, Within
    <3> QED BY <1>7, <3>1, <3>2
  <2> QED BY <2>1, <2>2
<1>17. ASSUME NEW f \in Editors, f # e, NEW r \in Sims PROVE Owes(f, r)' <=> Owes(f, r)
  BY <1>11, <1>17 DEF Owes
<1>18. Over'
  <2> SUFFICES ASSUME NEW f \in Editors, NEW q \in Sims, NEW r \in Sims, Mates(q, r),
                      editor'[f].new[q] = "default", editor'[f].new[r] = "same", sim[r] = "default"
               PROVE  Rival(q, r)' \/ Owes(f, r)'
    BY <1>1 DEF Over, Mates
  <2>1. CASE f # e
    BY <1>1, <1>11, <1>17, <2>1 DEF SimInv, Over, Rival
  <2>2. CASE f = e
    <3>1. r \notin hit /\ editor[e].new[q] = "default" /\ editor[e].new[r] = "same"
      BY <1>9, <1>10, <1>11, <2>2
    <3>2. Rival(q, r) \/ r \in editor[e].todo
      BY <1>1, <3>1 DEF SimInv, Over, Owes
    <3> QED BY <1>1, <1>7, <3>1, <3>2 DEF Rival
  <2> QED BY <2>1, <2>2
<1>19. Beside'
  <2> SUFFICES ASSUME NEW f \in Editors, NEW g \in Editors, NEW q \in Sims, NEW r \in Sims,
                      f # g, Mates(q, r), editor'[f].new[q] = "default", editor'[g].new[r] = "default"
               PROVE  /\ Rival(q, r) \/ Owes(f, r)' \/ Owes(g, q)'
                      /\ sim[q] = "absent" \/ sim[r] = "absent" => Rival(q, r)
    BY <1>1 DEF Beside, Mates, Rival
  <2>1. editor[f].new[q] = "default" /\ editor[g].new[r] = "default"
    BY <1>9, <1>10, <1>11
  <2>2. /\ Rival(q, r) \/ Owes(f, r) \/ Owes(g, q)
        /\ sim[q] = "absent" \/ sim[r] = "absent" => Rival(q, r)
    BY <2>1 DEF SimInv, Beside
  <2>3. f = e => ~Owes(e, r)
    BY <1>1, <1>2, <2>1 DEF Owes
  <2>4. g = e => ~Owes(e, q)
    BY <1>1, <1>2, <2>1 DEF Owes
  <2> QED BY <1>17, <2>2, <2>3, <2>4
<1> QED BY <1>13, <1>14, <1>15, <1>16, <1>18, <1>19 DEF SimInv

LEMMA SimStep == SimInv /\ [Next]_vars => SimInv'
<1> SUFFICES ASSUME SimInv, [Next]_vars PROVE SimInv'
  OBVIOUS
<1>1. CASE UNCHANGED table
  BY <1>1 DEF table, SimInv, Tables, Apart, Form, Within, Over, Beside, OneDefault, Mates, Rival, Owes
<1>2. CASE Phone
  BY <1>1, <1>2 DEF Phone, Seen, PollStart, PollWakes, PollTurn
<1>3. CASE Second
  BY <1>1, <1>3 DEF Second
<1>4. ASSUME NEW a \in BOOLEAN, SetStatus(a) PROVE SimInv'
  BY <1>1, <1>4 DEF SetStatus
<1>5. ASSUME NEW e \in Editors, Admin(e) PROVE SimInv'
  BY <1>5, WriteStep, ClearStep, ClearedStep, CommitStep, AbortStep DEF Admin
<1>6. ASSUME NEW s \in Sims, SimDelete(s) PROVE SimInv'
  BY <1>6, DeleteStep
<1> QED BY <1>1, <1>2, <1>3, <1>4, <1>5, <1>6 DEF Next, vars

(* Two defaults of one device are rivals: transactions that could not see  *)
(* each other's insertion.                                                 *)
THEOREM OneDefaultHolds == Spec => []OneDefault
<1>1. SimInv => OneDefault
  BY DEF SimInv
<1> QED BY <1>1, SimInit, SimStep, PTL DEF Spec

(* Only a commit makes a default plain: it saved that SIM, or another one  *)
(* of the device as the default.                                           *)
THEOREM DefaultIsKept == Spec => DefaultStays
<1> DEFINE Kept == \A s \in Sims : sim[s] = "default" /\ sim'[s] = "plain" =>
              \E e \in Editors : \/ s \in editor[e].saved
                                 \/ \E r \in editor[e].saved : /\ DeviceOf[r] = DeviceOf[s]
                                                                /\ sim'[r] = "default"
<1>1. SimInv /\ [Next]_vars => Kept
  <2> SUFFICES ASSUME SimInv, [Next]_vars, NEW s \in Sims, sim[s] = "default", sim'[s] = "plain"
               PROVE  \E e \in Editors :
                        \/ s \in editor[e].saved
                        \/ \E r \in editor[e].saved : DeviceOf[r] = DeviceOf[s] /\ sim'[r] = "default"
    OBVIOUS
  <2>1. sim' # sim
    OBVIOUS
  <2>2. ASSUME NEW x \in Sims, SimDelete(x) PROVE FALSE
    BY <2>2 DEF SimDelete, SimInv, Tables
  <2>3. PICK e \in Editors : Commit(e)
    BY <2>1, <2>2 DEF Next, vars, table, Phone, Seen, PollStart, PollWakes, PollTurn, Second, SetStatus,
       Admin, SimWrite, SimClear, SimCleared, Abort
  <2>4. \A r \in Sims : sim'[r] = IF editor[e].new[r] # "same" THEN editor[e].new[r] ELSE sim[r]
    BY <2>3 DEF Commit, View, Written
  <2>5. editor[e].new[s] = "plain" /\ editor[e].saved \subseteq Sims
    BY <2>4 DEF SimInv, Tables, EditorRow
  <2>6. CASE s \notin editor[e].saved
    <3>1. PICK q \in editor[e].saved : editor[e].new[q] = "default"
      BY <2>5, <2>6 DEF SimInv, Form
    <3>2. DeviceOf[q] = DeviceOf[s] /\ sim'[q] = "default"
      BY <2>4, <2>5, <3>1 DEF SimInv, Form
    <3> QED BY <3>1, <3>2
  <2> QED BY <2>6
<1>2. SimInv /\ [Next]_vars => [Kept]_vars
  BY <1>1
<1> QED BY <1>2, SimInit, SimStep, PTL DEF Spec, DefaultStays
=============================================================================
