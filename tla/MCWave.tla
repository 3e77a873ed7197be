------------------------------- MODULE MCWave -------------------------------
(* Instances of Wave for TLC: more voice events than headers, so that the ring
   overflows; and tones, looped and played once, of two and a half blocks, so
   that the last block is short, and of three, where the data ends with a block:
   with three headers either one wraps the ring inside the tone. *)
EXTENDS Wave

Tone(loop, end) == [ringTone |-> TRUE, playLoop |-> loop, setVolume |-> loop,
                    start |-> 1, end |-> end, block |-> 2]
Pager == [ringTone |-> FALSE, playLoop |-> FALSE, setVolume |-> TRUE,
          start |-> 1, end |-> 1, block |-> 1]

Settings == {Pager} \cup {Tone(loop, end) : loop \in BOOLEAN, end \in {6, 7}}

=============================================================================
