----------------------------- MODULE MCTransport -----------------------------
(* Instances of Transport for TLC.  Four sequence numbers, so that they wrap
   within the frames an end sends; a window of two, which is the most the
   comparison with Half can tell from old frames. *)
EXTENDS Transport

Load(pager, server, retries, ends) ==
  [sends |-> [n \in Nodes |-> IF n = Pager THEN pager ELSE server],
   retries |-> retries, hangUp |-> ends, odd |-> ends]

(* numbers that wrap, with traffic one way and with answers; retries, ends that
   hang up and frames that nobody answers *)
Mixed == {Load(0, 5, 0, FALSE), Load(1, 4, 0, FALSE), Load(1, 2, 1, TRUE)}
HangUps == {Load(2, 2, 1, TRUE)}
OneWay == {Load(0, 5, 1, FALSE)}

=============================================================================
