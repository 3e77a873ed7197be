----------------------------- MODULE MCSessions -----------------------------
(* Instances of Sessions for TLC: a registration and two calls, or a
   registration that is renewed during a call; and two callers that may vanish
   and audio that may fail. *)
EXTENDS Sessions

World(sessions, events, register, reuse, fails) ==
  [sessions |-> sessions, events |-> events, register |-> register, reuse |-> reuse,
   waveFails |-> fails, peersVanish |-> fails]

Both == {World(3, 2, TRUE, FALSE, FALSE), World(2, 1, FALSE, FALSE, TRUE)}
Reusing == {World(3, 2, TRUE, TRUE, FALSE)}

=============================================================================
