------------------------------ MODULE MCDatagrams ------------------------------
(* An instance of Timestamps and one of Elements for TLC: the time and the
   elements of a datagram, of which iax_header_to_event keeps nothing in common.
   A behaviour is of the one or of the other. *)
EXTENDS Timestamps, Elements

(* frames as late as can be, over two wraps *)
Steps == {5000, 10535}

(* bytes of six values, a type of each kind and one that nobody knows *)
Words == {<< >>, <<3>>, <<1, 2>>, <<1, 1, 1, 1, 1>>, <<1, 1, 1, 1, 1, 1>>}
Values == {0, 4, 31}
Addrs == {<<0, 2>>, <<4, 0>>}
Widths == [ie \in {2, 3} |-> IF ie = 2 THEN 1 ELSE 2]
Nones == [ie \in {2, 3} |-> IF ie = 2 THEN -1 ELSE 0]

TimeStep == pc = "build" /\ sent = << >> /\ Next /\ UNCHANGED parserVars
ParserStep == now = 0 /\ ParserNext /\ UNCHANGED vars

DatagramInit == Init /\ ParserInit

DatagramSpec ==
  DatagramInit /\ [][TimeStep \/ ParserStep]_<<vars, parserVars>>

=============================================================================
