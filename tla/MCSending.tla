------------------------------ MODULE MCSending ------------------------------
(***************************************************************************)
(* Two threads and one key.  The texts lie on the boundaries of the        *)
(* segments: 2 * 153 septets, of which 4 are extended, and 71 characters   *)
(* of UCS-2.  Of the campaigns one rotates over both SIMs, its texts being *)
(* 160 and 161 septets long, one has texts of 70, of 2 * 67 characters and *)
(* of emoji, and one has a recipient with a bad number.                    *)
(* Tables grow without end, so the rows are bounded: MaxRows in all.       *)
(***************************************************************************)
EXTENDS Sending, TLC

CONSTANT MaxRows

FewRows == Len(messages) + Len(campaigns) <= MaxRows

Chars(b, e, o) == [basic |-> b, extended |-> e, other |-> o, astral |-> 0]
Emoji(b, n) == [basic |-> b, extended |-> 0, other |-> 0, astral |-> n]

MCLetter ==
  [long |-> [to |-> "ann", text |-> Chars(302, 2, 0), from |-> ""],
   wide |-> [to |-> "ann", text |-> Chars(70, 0, 1), from |-> "+2"],
   wrong |-> [to |-> "invalid", text |-> Chars(1, 0, 0), from |-> ""],
   blank |-> [to |-> "ann", text |-> Empty, from |-> ""]]

Name(n) == [name |-> Chars(n, 0, 0)]

MCDraft ==
  [news |-> [template |-> [text |-> Chars(152, 2, 0), names |-> <<"name", "name">>],
             recipients |-> <<[to |-> "ann", vars |-> Name(2)], [to |-> "bob", vars |-> Name(3)],
                              [to |-> "cid", vars |-> Name(2)]>>,
             from |-> "", rotate |-> TRUE],
   plain |-> [template |-> [text |-> Chars(0, 0, 67), names |-> <<"name">>],
              recipients |-> <<[to |-> "ann", vars |-> Name(3)], [to |-> "bob", vars |-> Name(67)],
                               [to |-> "cid", vars |-> [name |-> Emoji(1, 66)]]>>,
              from |-> "+1", rotate |-> FALSE],
   flawed |-> [template |-> [text |-> Chars(1, 0, 0), names |-> <<>>],
               recipients |-> <<[to |-> "ann", vars |-> <<>>], [to |-> "invalid", vars |-> <<>>]>>,
               from |-> "", rotate |-> FALSE],
   nobody |-> [template |-> [text |-> Chars(1, 0, 0), names |-> <<>>],
               recipients |-> <<>>, from |-> "", rotate |-> FALSE],
   blank |-> [template |-> [text |-> Empty, names |-> <<>>],
              recipients |-> <<[to |-> "ann", vars |-> <<>>]>>, from |-> "", rotate |-> FALSE]]

MCSims == 1 :> [number |-> "+1", default |-> FALSE] @@ 2 :> [number |-> "+2", default |-> TRUE]

Of(kind, mode, keys, body) ==
  {[kind |-> kind, mode |-> mode, key |-> k, body |-> body] : k \in keys}

MCAsked ==
  LET Either == Keys \cup {NoKey} IN
  UNION {Of("message", "immediate", Either, "long"), Of("message", "test", Keys, "long"),
         Of("message", "queued", Either, "wide"),
         Of("message", "queued", Keys, "wrong"), Of("message", "queued", {NoKey}, "blank"),
         Of("campaign", "queued", Either, "news"), Of("campaign", "queued", {NoKey}, "plain"),
         Of("campaign", "queued", Keys, "flawed"), Of("campaign", "queued", Keys, "nobody"),
         Of("campaign", "queued", {NoKey}, "blank")}

Symmetry == Permutations(Threads)
=============================================================================
