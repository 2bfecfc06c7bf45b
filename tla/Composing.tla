----------------------------- MODULE Composing ------------------------------
(***************************************************************************)
(* What a request becomes before anything is stored: phone numbers are     *)
(* checked, templates are filled in, the SMS segments of each text are     *)
(* counted and the SIMs of the device are shared out.  All of it is pure.  *)
(*                                                                         *)
(* Of a text only its characters of each kind matter: basic ones of the    *)
(* GSM alphabet, extended ones, which take two septets, and those that     *)
(* force the whole text into UCS-2: others, of one unit, and astral ones   *)
(* beyond the BMP, such as emoji, of two units that Python counts as one.  *)
(***************************************************************************)
EXTENDS Naturals, Sequences, Folds

CONSTANTS Single, Multi, UcsSingle, UcsMulti    \* 160, 153, 70, 67

ASSUME SegmentsAssumption ==
  /\ {Single, Multi, UcsSingle, UcsMulti} \subseteq Nat \ {0}
  /\ Multi <= Single /\ UcsMulti <= UcsSingle
  /\ 2 * UcsSingle <= Single /\ 2 * UcsMulti <= Multi

Text == [basic : Nat, extended : Nat, other : Nat, astral : Nat]

Join(t, u) == [basic |-> t.basic + u.basic, extended |-> t.extended + u.extended,
               other |-> t.other + u.other, astral |-> t.astral + u.astral]

(* _septets is None for a text with any other character.                   *)
Gsm(t) == t.other = 0 /\ t.astral = 0
Septets(t) == t.basic + 2 * t.extended

(* len(text) is the number of characters, whatever units they take.        *)
Length(t) ==
  IF Gsm(t) THEN Septets(t) ELSE t.basic + t.extended + t.other + t.astral
OneSms(t) == IF Gsm(t) THEN Single ELSE UcsSingle
EachSms(t) == IF Gsm(t) THEN Multi ELSE UcsMulti

CountTruncated(t) ==        \* mutant: the last segment is counted when it is full
  IF Length(t) <= OneSms(t) THEN 1 ELSE Length(t) \div EachSms(t)

CountSegments(t) ==
  IF Length(t) <= OneSms(t) THEN 1 ELSE (Length(t) + EachSms(t) - 1) \div EachSms(t)

(* What SMS really hold, which is not in the code.  A text takes septets   *)
(* or UCS-2 units, and some characters a pair of them, which no segment    *)
(* boundary divides: each boundary may waste a unit before such a pair.    *)
(* CanHold is necessary for k SMS to be enough, Holds is sufficient for    *)
(* every order of the characters.                                          *)
Units(t) == IF Gsm(t) THEN Septets(t)
            ELSE t.basic + t.extended + t.other + 2 * t.astral
Pairs(t) == IF Gsm(t) THEN t.extended ELSE t.astral
Wasted(t, k) == IF Pairs(t) < k - 1 THEN Pairs(t) ELSE k - 1
Capacity(t, k) == IF k = 1 THEN OneSms(t) ELSE k * EachSms(t)

CanHold(t, k) == Units(t) <= Capacity(t, k)
Holds(t, k) == Units(t) + Wasted(t, k) <= Capacity(t, k)

(* Fewer than k SMS are never enough; k can be without astral characters,  *)
(* and are for sure when no boundary can meet a pair.  Nothing is said of  *)
(* the texts that the code counts too low: those with astral characters,   *)
(* and those of several SMS whose escaped characters fall on boundaries.   *)
CountedRight(t, k) ==
  /\ k \in Nat \ {0}
  /\ \A j \in 1..(k - 1) : ~CanHold(t, j)
  /\ t.astral = 0 => CanHold(t, k)
  /\ t.astral = 0 /\ (k = 1 \/ Pairs(t) = 0) => Holds(t, k)
-----------------------------------------------------------------------------
(* render: a placeholder without a variable makes it fail.  A template is  *)
(* the text around its placeholders, and their names from left to right.   *)
Missing(template, vars) ==
  {i \in DOMAIN template.names : template.names[i] \notin DOMAIN vars}

Render(template, vars) ==
  MapThenFoldSet(Join, template.text, LAMBDA i : vars[template.names[i]],
                 LAMBDA S : CHOOSE i \in S : TRUE, DOMAIN template.names)

BadTemplate(template, recipients) ==     \* mutant: numbers are not looked at
  {i \in DOMAIN recipients : Missing(template, recipients[i].vars) # {}}

(* The recipients with no valid number or without all the variables.  One  *)
(* of them fails the whole campaign.                                       *)
Bad(template, recipients) ==
  {i \in DOMAIN recipients : \/ recipients[i].to \in {"missing", "invalid"}
                             \/ Missing(template, recipients[i].vars) # {}}

(* _resolve_sim.  sims: the SIMs of the device by primary key; first() is  *)
(* the lowest of those found.  The result is {} for an error.              *)
First(S) == {s \in S : \A r \in S : s <= r}

ResolveSim(sims, from) ==
  IF from # "" THEN First({s \in DOMAIN sims : sims[s].number = from})
  ELSE LET defaults == {s \in DOMAIN sims : sims[s].default} IN
       First(IF defaults # {} THEN defaults ELSE DOMAIN sims)

SimOfFirst(i, sims, sim) ==    \* mutant: the turns are not taken
  IF sims = <<>> THEN sim ELSE sims[1]

(* Without rotation every message goes out over the resolved SIM; with it  *)
(* they take turns, in the order the database listed the SIMs.             *)
SimOf(i, sims, sim) == IF sims = <<>> THEN sim ELSE sims[((i - 1) % Len(sims)) + 1]

Compose(template, recipients, sims, sim) ==
  [i \in DOMAIN recipients |->
     LET text == Render(template, recipients[i].vars) IN
     [to |-> recipients[i].to, text |-> text, segments |-> CountSegments(text),
      sim |-> SimOf(i, sims, sim)]]
=============================================================================
