------------------------------- MODULE MCLookup -------------------------------
EXTENDS Lookup

NoList == [next |-> <<0>>, at |-> 0]

(* Voided lists of one to four pages, the last of which ends the list, hands *)
(* out its own cursor again or leads back to the first page; the token is on *)
(* any page or on none.                                                      *)
Lists ==
  UNION {[next : {[p \in 1 .. n |-> IF p < n THEN p + 1 ELSE end] : end \in {0, 1, n}},
          at : 0 .. n] : n \in 1 .. 4}

AllAsks ==
  [kind : AppleKinds, hint : Environments \cup {Null},
   home : Environments \cup {"nowhere"}, list : {NoList}]
  \cup [kind : GoogleKinds, hint : {Null}, home : {"play", "nowhere"}, list : {NoList}]
  \cup [kind : {"voidedFind"}, hint : {Null}, home : {"play"}, list : Lists]
  \cup [kind : {"voidedList", "malformed"}, hint : {Null}, home : {"play"}, list : {NoList}]
=============================================================================
