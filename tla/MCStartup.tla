------------------------------ MODULE MCStartup ------------------------------
(* Instances of Startup for TLC: addresses of three bits, with subnets that nest
   and overlap, one with bits of a host and the /0; every sequence of two
   options and of three subnets, an option and three of the account also with
   the last argument missing. *)
EXTENDS Startup, SequencesExt

Characters == {"a", "f", "p", "v", "c", "h", "u", "s", "r", "l", "x"}

Options ==
  { <<Flag("a"), Subnet(4, 1)>>, <<Flag("a"), Subnet(6, 3)>>, <<Flag("f"), Subnet(4, 2)>>,
    <<Flag("a"), Subnet(6, 1)>>, <<Flag("f"), Subnet(0, 0)>>, <<Flag("a"), Text>>,
    <<Flag("h"), Text>>, <<Flag("u"), Text>>, <<Flag("s"), Text>>, <<Flag("s"), Empty>>,
    <<Flag("r"), Text>>, <<Flag("r"), Empty>>, <<Flag("l")>>, <<Flag("r"), Flag("l")>>,
    <<Flag("p"), Number(0)>>, <<Flag("p"), Number(P)>>, <<Flag("v"), Number(MaxVolume)>>,
    <<Flag("x"), Text>>, <<Text>>, <<Word("a"), Subnet(4, 1)>> }

Numbers ==
  {<<Flag("p"), Text>>, <<Flag("v"), Number(MaxVolume + 1)>>, <<Flag("v"), Subnet(2, 2)>>,
   <<Flag("c"), Number(1)>>, <<Flag("c"), Number(-1)>>, <<Empty>>}

Account == {<<Flag(letter), Text>> : letter \in {"h", "u", "s"}}
Screens == {<<Flag("a"), Subnet(4, 1)>>, <<Flag("a"), Subnet(2, 2)>>, <<Flag("f"), Subnet(4, 2)>>}

Lines(S) == {FlattenSeq(options) : options \in S}

Typed ==
  LET one == Lines([1 .. 1 -> Options \cup Numbers] \cup [1 .. 3 -> Account])
  IN {<< >>} \cup one \cup {Front(line) : line \in one}
     \cup Lines([1 .. 2 -> Options] \cup [1 .. 3 -> Screens])

=============================================================================
