------------------------------- MODULE Settings -------------------------------
(***************************************************************************)
(* The command line and the hosts it lets call: src/settings.c, src/host.c  *)
(* and the screening of callers in main.c.                                  *)
(*                                                                         *)
(* An argument is what the parser can tell of it: a flag ("-a"), a flag     *)
(* written out ("-allow"), a number, a subnet, a text or the empty string.  *)
(* All but the last are texts, and a subnet starts with a number.           *)
(* Addresses have W bits, a port P values.                                  *)
(***************************************************************************)
EXTENDS Integers, Sequences, FiniteSets

CONSTANTS W,          \* bits of an address: 32
          P,          \* values of a port: 2^16
          MaxVolume,  \* 0xFFFF
          DefaultPort,\* IAX_DEFAULT_PORTNO
          Letters     \* characters; "none" is no character

ASSUME WidthsAssumption ==
  /\ W \in Nat \ {0} /\ P \in Nat \ {0} /\ MaxVolume \in Nat
  /\ DefaultPort \in 1 .. P - 1
ASSUME LettersAssumption == "none" \notin Letters

Flag(letter)     == [kind |-> "flag", letter |-> letter]
Word(letter)     == [kind |-> "word", letter |-> letter]       \* "-allow"
Number(n)        == [kind |-> "number", value |-> n]
Subnet(at, bits) == [kind |-> "subnet", address |-> at, bits |-> bits, value |-> at]
Text             == [kind |-> "text"]
Empty            == [kind |-> "empty"]

Addresses == 0 .. 2^W - 1
Arguments ==
  [kind : {"flag", "word"}, letter : Letters] \cup [kind : {"number"}, value : Int]
  \cup [kind : {"subnet"}, address : Addresses, bits : 0 .. W, value : Addresses]
  \cup {Text, Empty}

Scans(arg) == arg.kind \in {"number", "subnet"}      \* _stscanf finds a number

-----------------------------------------------------------------------------
(* Hosts: a mask is the number of low bits it clears *)

Masked(address, mask) == address - (address % 2^mask)

(* host->Network: 0xFFFFFFFF << (32 - net), where a shift by all 32 bits is
   undefined: it clears every bit, or none on a processor that counts shifts
   modulo 32; shift32 is what the build does. *)
Network(bits, shift32) == IF bits = 0 THEN shift32 ELSE W - bits

AppendHost(arg, hosts, shift32) ==
  << [Address |-> arg.address, Network |-> Network(arg.bits, shift32)] >> \o hosts

ContainsHost(address, hosts) ==
  \E i \in DOMAIN hosts : Masked(address, hosts[i].Network) = hosts[i].Address

\* mutant: a caller that is both allowed and forbidden gets through
AllowedFirst(settings, address) ==
  IF settings.AllowedHosts # << >> /\ ContainsHost(address, settings.AllowedHosts) THEN TRUE
  ELSE settings.AllowedHosts = << >> /\ ~ContainsHost(address, settings.ForbiddenHosts)

(* main.c: forbidden hosts first, then the allowed ones if there are any *)
Admits(settings, address) ==
  /\ ~(settings.ForbiddenHosts # << >> /\ ContainsHost(address, settings.ForbiddenHosts))
  /\ settings.AllowedHosts = << >> \/ ContainsHost(address, settings.AllowedHosts)

-----------------------------------------------------------------------------
(* ParseSettings *)

Rejected == [rejected |-> TRUE]

(* the structure before the first argument, and the flag that is waiting for its
   parameter; texts are kept as "is it set?" *)
Defaults ==
  [AllowedHosts |-> << >>, ForbiddenHosts |-> << >>, Register |-> FALSE,
   Host |-> FALSE, UserName |-> FALSE, Secret |-> FALSE, Port |-> DefaultPort,
   RingTone |-> FALSE, PlayLoop |-> FALSE, lastFlag |-> "none"]

(* an argument in the place of a flag *)
TakeFlag(s, arg) ==
  IF arg.kind # "flag" THEN Rejected
  ELSE IF arg.letter = "l" THEN [s EXCEPT !.PlayLoop = TRUE]
  ELSE [s EXCEPT !.lastFlag = arg.letter]

(* CHECKREGSTR *)
Registered(s, arg, account) ==
  IF arg = Empty THEN Rejected ELSE [account EXCEPT !.Register = TRUE]

(* ... in the place of the parameter of s.lastFlag; an unknown flag is found
   out here *)
TakeParameter(s, arg, shift32) ==
  LET flag == s.lastFlag
      t == [s EXCEPT !.lastFlag = "none"]
  IN CASE flag = "c" /\ Scans(arg) -> t
       [] flag = "v" /\ Scans(arg) /\ arg.value \in 0 .. MaxVolume -> t
       [] flag = "a" /\ arg.kind = "subnet" ->
            [t EXCEPT !.AllowedHosts = AppendHost(arg, @, shift32)]
       [] flag = "f" /\ arg.kind = "subnet" ->
            [t EXCEPT !.ForbiddenHosts = AppendHost(arg, @, shift32)]
       [] flag = "p" /\ Scans(arg) -> [t EXCEPT !.Port = arg.value % P]
       [] flag = "r" /\ arg # Empty -> [t EXCEPT !.RingTone = TRUE]
       [] flag = "h" -> Registered(s, arg, [t EXCEPT !.Host = TRUE])
       [] flag = "u" -> Registered(s, arg, [t EXCEPT !.UserName = TRUE])
       [] flag = "s" -> Registered(s, arg, [t EXCEPT !.Secret = TRUE])
       [] OTHER -> Rejected

Take(s, arg, shift32) ==
  IF s.lastFlag = "none" THEN TakeFlag(s, arg)
  ELSE TakeParameter(s, arg, shift32)

(* no argument is missing *)
Complete(s) ==
  /\ s.lastFlag = "none"
  /\ s.RingTone \/ ~s.PlayLoop
  /\ s.Register = s.Host /\ s.Register = s.UserName /\ s.Register = s.Secret

-----------------------------------------------------------------------------
(* What the command line says, as README.md describes it: options one after the
   other, a flag and its parameter or the loop flag alone, where a flag may be
   written out ("only the first character of each parameter gets recognized"). *)

(* S holds the places of the flags *)
Tiled(argv, S) ==
  /\ argv # << >> => 1 \in S
  /\ \A i \in S :
       /\ argv[i].kind \in {"flag", "word"}
       /\ IF argv[i].letter = "l"
          THEN i = Len(argv) \/ i + 1 \in S
          ELSE /\ i + 1 \in DOMAIN argv \ S
               /\ i + 2 \in DOMAIN argv => i + 2 \in S
  /\ \A i \in DOMAIN argv \ S : i - 1 \in S /\ argv[i - 1].letter # "l"

(* what flag is followed by, wherever it stands *)
Given(argv, S, letter) == {argv[i + 1] : i \in {j \in S : argv[j].letter = letter}}
IsGiven(argv, S, letter) == \E i \in S : argv[i].letter = letter

(* "<uint16>" for a port and a volume, "<uint32>" for a card *)
Uint(arg, letter) ==
  /\ arg.kind = "number"
  /\ arg.value \in 0 .. CASE letter = "p" -> P - 1 [] letter = "v" -> MaxVolume [] letter = "c" -> 2^W - 1

WellFormed(argv, S) ==
  /\ Tiled(argv, S)
  /\ \A i \in S : argv[i].letter \in {"a", "f", "p", "v", "c", "h", "u", "s", "r", "l"}
  /\ \A arg \in Given(argv, S, "a") \cup Given(argv, S, "f") : arg.kind = "subnet"
  /\ \A letter \in {"p", "v", "c"} : \A arg \in Given(argv, S, letter) : Uint(arg, letter)
  /\ \A letter \in {"h", "u", "s", "r"} : Empty \notin Given(argv, S, letter)
  /\ IsGiven(argv, S, "l") => IsGiven(argv, S, "r")
  /\ IsGiven(argv, S, "h") = IsGiven(argv, S, "u")
  /\ IsGiven(argv, S, "h") = IsGiven(argv, S, "s")

(* Where settings.c does not depart from that: it refuses a flag that is written
   out, takes a number for what the parameter begins with, and reduces the number
   of a port or a card to its width. *)
Agreed(argv, S) ==
  /\ \A i \in S : argv[i].kind = "flag"
  /\ \A letter \in {"p", "c"} : \A arg \in Given(argv, S, letter) : Scans(arg) => Uint(arg, letter)
  /\ \A arg \in Given(argv, S, "v") : arg.kind # "subnet"

(* the addresses of a subnet *)
Inside(address, arg) ==
  arg.address <= address /\ address < arg.address + 2^(W - arg.bits)

(* a subnet's address without host bits, and not the /0 *)
Plain(arg) == arg.bits > 0 /\ arg.address % 2^(W - arg.bits) = 0

(* "if set, a host must be within the given subnet", "takes precedence over" *)
MayCall(argv, S, address) ==
  /\ ~\E arg \in Given(argv, S, "f") : Inside(address, arg)
  /\ IsGiven(argv, S, "a") => \E arg \in Given(argv, S, "a") : Inside(address, arg)

=============================================================================
