----------------------------- MODULE MCTransfer -----------------------------
(* Instances of Transfer for TLC. *)
EXTENDS Transfer

(* call numbers of the pager's, the phone's and the bridge's two sessions *)
Numbering(pager, phone) ==
  [l \in Legs |-> CASE l = Pager -> pager [] l = Phone -> phone [] l = ToPager -> 1 [] l = ToPhone -> 2]

Plan(callno, pager, phone, window, nat, dup, expire, late, ends, legs) ==
  [callno |-> callno, sends |-> [e \in Ends |-> IF e = Pager THEN pager ELSE phone], window |-> window,
   nat |-> nat, dup |-> dup, expire |-> expire, late |-> late,
   most |-> [l \in Legs |-> IF l \in Ends THEN ends ELSE legs]]

(* frames sent over the bridge and directly, by one end and by both; *)
Calls == {Plan(Numbering(1, 2), 2, 0, 1, FALSE, FALSE, FALSE, FALSE, 3, 3),
          Plan(Numbering(1, 2), 1, 1, 1, FALSE, TRUE, FALSE, FALSE, 2, 3),
          Plan(Numbering(1, 2), 2, 0, 2, FALSE, FALSE, FALSE, FALSE, 2, 3)}

(* a router, a bridge that is told again, a direct path that fails *)
Troubles == {Plan(Numbering(1, 2), 0, 0, 1, TRUE, TRUE, FALSE, FALSE, 3, 3),
             Plan(Numbering(1, 1), 0, 0, 1, FALSE, TRUE, FALSE, TRUE, 2, 4),
             Plan(Numbering(1, 2), 0, 0, 1, FALSE, TRUE, TRUE, FALSE, 2, 3)}

Tried == Calls \cup Troubles

=============================================================================
