--------------------------- MODULE MCJitterbuffer ---------------------------
(* An instance of Jitterbuffer for TLC.  Time is counted in halves of a voice
   frame; the history holds three delays, so that four frames wrap it, and the
   second frame in a row that is out of time makes it resync. *)
EXTENDS Jitterbuffer

Kinds == {"CONTROL", "SILENCE"}
Sent == {0, 2, 5}
Two == {2}
Low == -100
High == 100

=============================================================================
