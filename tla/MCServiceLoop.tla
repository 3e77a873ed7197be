---------------------------- MODULE MCServiceLoop ----------------------------
(* Instances of ServiceLoop for TLC: time for the registration to fall due
   twice, and a DWORD with four times as many values as the clock runs, so
   that the signed and unsigned readings of a difference are told apart. *)
EXTENDS ServiceLoop

Soon == {0, 1}

=============================================================================
