---------------------------- MODULE DatagramsProofs ----------------------------
(***************************************************************************)
(* What is proved of the datagrams.                                          *)
(*   - Timestamps, for every lateness below Wrap - Jump, any gaps and any     *)
(*     number of frames on their way: TypeCorrect and TimesRestored.          *)
(*   - Elements, for any values of a byte, size of the buffer, types and      *)
(*     contents, and messages of any length: ParserAlwaysSafe and             *)
(*     MessagesUnderstood.  The message and its numbers are put together      *)
(*     recursively; that such definitions mean something, and what, is proved *)
(*     here by induction over sets of naturals.                               *)
(***************************************************************************)
EXTENDS Timestamps, Elements, TLAPS, FiniteSetTheorems, SequenceTheorems, WellFoundedInduction

-----------------------------------------------------------------------------
(* Times *)

(* A time is the start of its period and an offset into it. *)
LEMMA Split ==
  ASSUME NEW t \in Nat
  PROVE  /\ High(t) \in Nat /\ High(t) % Wrap = 0
         /\ Low(t) \in Nat /\ Low(t) < Wrap /\ t = High(t) + Low(t)
<1>1. High(t) \in Nat
  BY DEF High, Wrap
<1>2. High(t) % Wrap = 0
  BY DEF High, Wrap
<1>3. Low(t) \in Nat /\ Low(t) < Wrap /\ t = High(t) + Low(t)
  BY DEF High, Low, Wrap
<1>4. QED
  BY <1>1, <1>2, <1>3

(* What has the low bits of another time has its own start. *)
LEMMA Joined ==
  ASSUME NEW h \in Nat, h % Wrap = 0, NEW l \in Nat, l < Wrap
  PROVE  High(h + l) = h /\ Low(h + l) = l
<1>1. High(h + l) = h
  BY DEF High, Wrap
<1>2. Low(h + l) = l
  BY <1>1 DEF High, Low, Wrap
<1>3. QED
  BY <1>1, <1>2

(* The periods of two times that are close are the same or next to each other. *)
LEMMA Neighbours ==
  ASSUME NEW h \in Nat, h % Wrap = 0, NEW g \in Nat, g % Wrap = 0,
         h - g < 2 * Wrap, g - h < 2 * Wrap
  PROVE  h = g \/ h = g + Wrap \/ h = g - Wrap
  BY DEF Wrap

(* Unwrapping in numbers: h and g are where the periods of the last time and of
   the frame's start, k and l their offsets. *)
LEMMA Corrected ==
  ASSUME NEW h \in Nat, h % Wrap = 0, NEW g \in Nat, g % Wrap = 0,
         NEW k \in Nat, k < Wrap, NEW l \in Nat, l < Wrap,
         (g + l) - (h + k) < Wrap - Jump, (h + k) - (g + l) < Wrap - Jump
  PROVE  (IF (h + l) - (h + k) < -Jump THEN h + Wrap + l
          ELSE IF (h + l) - (h + k) > Jump THEN h - Wrap + l ELSE h + l) = g + l
<1>1. g - h < 2 * Wrap /\ h - g < 2 * Wrap
  BY DEF Wrap, Jump
<1>2. g = h \/ g = h + Wrap \/ g = h - Wrap
  BY <1>1, Neighbours
<1>4. CASE g = h
  BY <1>4 DEF Wrap, Jump
<1>5. CASE g = h + Wrap
  BY <1>5 DEF Wrap, Jump
<1>6. CASE g = h - Wrap
  BY <1>6 DEF Wrap, Jump
<1>7. QED
  BY <1>2, <1>4, <1>5, <1>6

(* A 16-bit time that is less than Wrap - Jump away from the last one is put
   back exactly, in either direction. *)
LEMMA Rebuilt ==
  ASSUME NEW t \in Nat, NEW last \in Nat,
         t - last < Wrap - Jump, last - t < Wrap - Jump
  PROVE  Unwrap(High(last) + Low(t), last) = t
<1> DEFINE h == High(last)
           g == High(t)
           ts == h + Low(t)
<1>1. /\ h \in Nat /\ h % Wrap = 0 /\ last = h + Low(last) /\ Low(last) \in Nat /\ Low(last) < Wrap
      /\ g \in Nat /\ g % Wrap = 0 /\ t = g + Low(t) /\ Low(t) \in Nat /\ Low(t) < Wrap
  BY Split
<1>2. High(ts) = h /\ Low(ts) = Low(t)
  BY <1>1, Joined
<1>3. Unwrap(ts, last) =
        IF ts - last < -Jump THEN h + Wrap + Low(t)
        ELSE IF ts - last > Jump THEN h - Wrap + Low(t) ELSE ts
  BY <1>2 DEF Unwrap
<1>4. g + Low(t) - (h + Low(last)) < Wrap - Jump /\ h + Low(last) - (g + Low(t)) < Wrap - Jump
  BY <1>1
<1> HIDE DEF h, g
<1>5. (IF ts - (h + Low(last)) < -Jump THEN h + Wrap + Low(t)
       ELSE IF ts - (h + Low(last)) > Jump THEN h - Wrap + Low(t) ELSE ts) = g + Low(t)
  BY <1>1, <1>4, Corrected
<1>6. Unwrap(ts, last) = t
  BY <1>1, <1>3, <1>5
<1>7. QED
  BY <1>6 DEF h

(* A full time that close is left alone. *)
LEMMA LeftAlone ==
  ASSUME NEW t \in Nat, NEW last \in Nat,
         t - last < Wrap - Jump, last - t < Wrap - Jump
  PROVE  Unwrap(t, last) = t
  BY DEF Unwrap, Wrap, Jump

(* Nothing on its way is older than Late, and last_ts is neither ahead of the
   peer's clock nor further behind it. *)
Close ==
  /\ last_ts <= now /\ now <= last_ts + Late
  /\ \A m \in net : m.ts <= now /\ now <= m.ts + Late

IInv == TypeOK /\ Close /\ Reconstructed

LEMMA InitHolds == Init => IInv
<1> SUFFICES ASSUME Init PROVE IInv
  OBVIOUS
<1>1. TypeOK
  BY DEF Init, TypeOK
<1>2. Close
  BY LateAssumption DEF Init, Close
<1>3. Reconstructed
  BY DEF Init, Reconstructed
<1>4. QED
  BY <1>1, <1>2, <1>3 DEF IInv

LEMMA SendHolds ==
  ASSUME IInv, NEW kind \in {"mini", "voice", "iax"}, Send(kind)
  PROVE  IInv'
<1>1. PICK gap \in Gaps :
        /\ now + gap <= last_ts + Late
        /\ now' = now + gap
        /\ net' = {m \in net : now' <= m.ts + Late} \cup {[kind |-> kind, ts |-> now']}
        /\ UNCHANGED <<last_ts, format, placed>>
  BY DEF Send
<1>2. gap \in Nat /\ now \in Nat /\ last_ts \in Nat /\ Late \in Nat
  BY GapsAssumption, LateAssumption DEF IInv, TypeOK
<1>3. TypeOK'
  BY <1>1, <1>2 DEF IInv, TypeOK, Frames
<1>4. Close'
  <2>1. last_ts' <= now' /\ now' <= last_ts' + Late
    BY <1>1, <1>2 DEF IInv, Close
  <2>2. ASSUME NEW m \in net' PROVE m.ts <= now' /\ now' <= m.ts + Late
    <3>1. CASE m \in net
      <4>1. m.ts \in Nat /\ m.ts <= now
        BY <3>1 DEF IInv, TypeOK, Close, Frames
      <4>2. now' <= m.ts + Late
        BY <1>1, <1>2, <2>2, <4>1
      <4>3. QED
        BY <1>1, <1>2, <4>1, <4>2
    <3>2. CASE m = [kind |-> kind, ts |-> now']
      BY <1>1, <1>2, <3>2
    <3>3. QED
      BY <1>1, <2>2, <3>1, <3>2
  <2>3. QED
    BY <2>1, <2>2 DEF Close
<1>5. Reconstructed'
  BY <1>1 DEF IInv, Reconstructed
<1>6. QED
  BY <1>3, <1>4, <1>5 DEF IInv

(* A frame whose time is read as it was sent keeps the invariant. *)
LEMMA ArrivalHolds ==
  ASSUME IInv, NEW m \in net, Arrive(m), format' \in BOOLEAN,
         last_ts' = Later(last_ts, m.ts),
         placed' = placed \/ placed' = [sent |-> m.ts, got |-> m.ts]
  PROVE  IInv'
<1>1. m.ts \in Nat /\ m.ts <= now /\ now \in Nat /\ last_ts \in Nat /\ Late \in Nat
  BY LateAssumption DEF IInv, TypeOK, Close, Frames
<1>2. now' = now /\ net' \subseteq net
  BY DEF Arrive
<1>3. last_ts' \in Nat /\ last_ts' <= now /\ last_ts <= last_ts'
  BY <1>1 DEF Later, IInv, Close
<1>4. TypeOK'
  BY <1>1, <1>2, <1>3 DEF IInv, TypeOK
<1>5. Close'
  BY <1>1, <1>2, <1>3 DEF IInv, TypeOK, Close, Frames
<1>6. Reconstructed'
  BY DEF IInv, Reconstructed
<1>7. QED
  BY <1>4, <1>5, <1>6 DEF IInv

LEMMA StepHolds == IInv /\ [Next]_vars => IInv'
<1> SUFFICES ASSUME IInv, [Next]_vars PROVE IInv'
  OBVIOUS
<1>1. ASSUME NEW m \in net
      PROVE  /\ m.ts \in Nat /\ last_ts \in Nat
             /\ m.ts - last_ts < Wrap - Jump /\ last_ts - m.ts < Wrap - Jump
  BY LateAssumption DEF IInv, TypeOK, Close, Frames, Wrap, Jump
<1>2. CASE SendMini \/ SendVoice \/ SendIax
  BY <1>2, SendHolds DEF SendMini, SendVoice, SendIax
<1>3. CASE Lose
  BY <1>3 DEF Lose, IInv, TypeOK, Close, Reconstructed
<1>4. CASE MiniArrives
  <2>1. PICK m \in net : Arrive(m) /\ Schedule(m.ts, High(last_ts) + Low(m.ts), last_ts)
    BY <1>4 DEF MiniArrives
  <2>2. Unwrap(High(last_ts) + Low(m.ts), last_ts) = m.ts
    BY <1>1, Rebuilt
  <2>3. format' \in BOOLEAN
    BY <1>4 DEF MiniArrives, IInv, TypeOK
  <2>4. QED
    BY <2>1, <2>2, <2>3, ArrivalHolds DEF Schedule
<1>5. CASE VoiceArrives
  <2>1. PICK m \in net : Arrive(m) /\ Schedule(m.ts, m.ts, last_ts)
    BY <1>5 DEF VoiceArrives
  <2>2. Unwrap(m.ts, last_ts) = m.ts
    BY <1>1, LeftAlone
  <2>3. format' \in BOOLEAN
    BY <1>5 DEF VoiceArrives
  <2>4. QED
    BY <2>1, <2>2, <2>3, ArrivalHolds DEF Schedule
<1>6. CASE IaxArrives
  <2>1. PICK m \in net :
          /\ Arrive(m)
          /\ \/ last_ts' = Later(last_ts, m.ts) /\ UNCHANGED placed
             \/ Schedule(m.ts, m.ts, Later(last_ts, m.ts))
    BY <1>6 DEF IaxArrives
  <2>2. format' \in BOOLEAN
    BY <1>6 DEF IaxArrives, IInv, TypeOK
  <2>3. CASE last_ts' = Later(last_ts, m.ts) /\ UNCHANGED placed
    BY <2>1, <2>2, <2>3, ArrivalHolds
  <2>4. CASE Schedule(m.ts, m.ts, Later(last_ts, m.ts))
    <3> DEFINE last == Later(last_ts, m.ts)
    <3>1. /\ last \in Nat /\ Later(last, m.ts) = last
          /\ m.ts - last < Wrap - Jump /\ last - m.ts < Wrap - Jump
      BY <1>1 DEF Later, Wrap, Jump
    <3>2. Unwrap(m.ts, last) = m.ts
      BY <1>1, <3>1, LeftAlone
    <3>3. QED
      BY <2>1, <2>2, <2>4, <3>1, <3>2, ArrivalHolds DEF Schedule
  <2>5. QED
    BY <2>1, <2>3, <2>4
<1>7. CASE UNCHANGED vars
  BY <1>7 DEF vars, IInv, TypeOK, Close, Reconstructed
<1>8. QED
  BY <1>2, <1>3, <1>4, <1>5, <1>6, <1>7 DEF Next

(* The timestamps' state is well-typed; in particular no frame is placed before
   the start of the call. *)
THEOREM TypeCorrect == Spec => []TypeOK
<1>1. IInv => TypeOK
  BY DEF IInv
<1>2. QED
  BY InitHolds, StepHolds, <1>1, PTL DEF Spec

(* Whatever a session receives is scheduled under the time it was sent at, for
   every lateness below the 15536 ms that unwrap_timestamp can tell. *)
THEOREM TimesRestored == Spec => []Reconstructed
<1>1. IInv => Reconstructed
  BY DEF IInv
<1>2. QED
  BY InitHolds, StepHolds, <1>1, PTL DEF Spec

-----------------------------------------------------------------------------
(* Induction and recursion along 0 .. N *)

Below == {p \in Nat \X Nat : p[1] < p[2]}

(* Naturals cannot go down for ever. *)
LEMMA BelowWellFounded == IsWellFoundedOn(Below, Nat)
  BY NatLessThanWellFounded DEF OpToRel, Below

(* A set of naturals that is not empty has a least member. *)
LEMMA Least ==
  ASSUME NEW T, T \subseteq Nat, NEW a \in T
  PROVE  \E n \in T : \A m \in T : n <= m
<1>1. PICK n \in T : \A m \in T : ~ (<<m, n>> \in Below)
  BY BelowWellFounded, WFMin
<1>2. ASSUME NEW m \in T PROVE n <= m
  <2>1. m \in Nat /\ n \in Nat
    OBVIOUS
  <2>2. m < n => <<m, n>> \in Below
    BY <2>1 DEF Below
  <2>3. ~ (m < n)
    BY <1>1, <2>2
  <2>4. QED
    BY <2>1, <2>3
<1>3. QED
  BY <1>2

(* A set that has 0, and the next of each number it has, has all up to N. *)
LEMMA Induction ==
  ASSUME NEW N \in Nat, NEW S, 0 \in S, \A n \in 0 .. N - 1 : n \in S => n + 1 \in S
  PROVE  0 .. N \subseteq S
<1> DEFINE T == (0 .. N) \ S
<1>1. SUFFICES ASSUME NEW a \in T PROVE FALSE
  OBVIOUS
<1>2. PICK n \in T : \A m \in T : n <= m
  <2>1. T \subseteq Nat
    OBVIOUS
  <2> HIDE DEF T
  <2>2. QED
    BY <2>1, Least
<1>3. n - 1 \in 0 .. N - 1 /\ n - 1 \in S
  BY <1>2
<1>4. QED
  BY <1>3

(* A function whose values stay in S from each argument to the next is into S. *)
LEMMA Stays ==
  ASSUME NEW N \in Nat, NEW S, NEW f, f[0] \in S,
         \A n \in 0 .. N - 1 : f[n] \in S => f[n + 1] \in S
  PROVE  \A n \in 0 .. N : f[n] \in S
<1> DEFINE Typed == {n \in 0 .. N : f[n] \in S}
<1>1. 0 \in Typed /\ \A n \in 0 .. N - 1 : n \in Typed => n + 1 \in Typed
  OBVIOUS
<1>2. 0 .. N \subseteq Typed
  <2> HIDE DEF Typed
  <2>1. QED
    BY <1>1, Induction
<1>3. QED
  BY <1>2

Steps(N, S) == [1 .. N -> [S -> S]]

Follows(g, N, S, a, step) ==
  g \in [0 .. N -> S] /\ g[0] = a /\ \A k \in 1 .. N : g[k] = step[k][g[k - 1]]

(* What is said step by step, from a and within S, is said of some function. *)
LEMMA Recursion ==
  ASSUME NEW N \in Nat, NEW S, NEW a \in S, NEW step \in Steps(N, S)
  PROVE  \E g : Follows(g, N, S, a, step)
<1> USE DEF Steps
<1> DEFINE Upto(n) == {g \in [0 .. n -> S] : g[0] = a /\ \A k \in 1 .. n : g[k] = step[k][g[k - 1]]}
           Good == {n \in 0 .. N : Upto(n) # {}}
<1>1. 0 \in Good
  <2>1. [k \in 0 .. 0 |-> a] \in Upto(0)
    OBVIOUS
  <2>2. QED
    BY <2>1
<1>2. ASSUME NEW n \in 0 .. N - 1, n \in Good PROVE n + 1 \in Good
  <2>1. PICK g \in [0 .. n -> S] : g[0] = a /\ \A k \in 1 .. n : g[k] = step[k][g[k - 1]]
    BY <1>2
  <2> DEFINE h == [k \in 0 .. n + 1 |-> IF k = n + 1 THEN step[n + 1][g[n]] ELSE g[k]]
  <2>2. step[n + 1][g[n]] \in S
    OBVIOUS
  <2>3. h \in [0 .. n + 1 -> S] /\ h[0] = a
    BY <2>1, <2>2
  <2>4. ASSUME NEW k \in 1 .. n + 1 PROVE h[k] = step[k][h[k - 1]]
    <3>1. CASE k = n + 1
      BY <3>1
    <3>2. CASE k \in 1 .. n
      BY <3>2, <2>1
    <3>3. QED
      BY <3>1, <3>2
  <2>5. h \in Upto(n + 1)
    BY <2>3, <2>4
  <2>6. n + 1 \in 0 .. N /\ Upto(n + 1) # {}
    <3> HIDE DEF Upto, h
    <3>1. QED
      BY <2>5
  <2>7. QED
    BY <2>6
<1>3. N \in Good
  <2> HIDE DEF Good
  <2>1. 0 .. N \subseteq Good
    BY <1>1, <1>2, Induction
  <2>2. QED
    BY <2>1
<1>4. QED
  BY <1>3 DEF Follows

-----------------------------------------------------------------------------
(* What is built and read *)

(* What is indexed from 1 is a sequence. *)
LEMMA FunctionIsSeq ==
  ASSUME NEW n \in Nat, NEW S, NEW f \in [1 .. n -> S]
  PROVE  f \in Seq(S) /\ Len(f) = n
  BY SeqDef, LenProperties

(* An element is encoded in bytes. *)
LEMMA EncodedType ==
  ASSUME NEW ie \in Byte, NEW data \in Seq(Byte)
  PROVE  Encoded(ie, data) \in Seq(Byte)
<1>1. Len(data) % Base \in Byte
  BY BytesAssumption DEF Byte
<1>2. <<ie, Len(data) % Base>> \in Seq(Byte)
  BY <1>1
<1>3. QED
  BY <1>2 DEF Encoded

(* Sequences are put together one by one. *)
LEMMA Concatenated ==
  ASSUME NEW N \in Nat, NEW E \in [1 .. N -> Seq(Byte)]
  PROVE  \E g : g = [n \in 0 .. N |-> IF n = 0 THEN << >> ELSE g[n - 1] \o E[n]]
<1> DEFINE step == [n \in 1 .. N |-> [s \in Seq(Byte) |-> s \o E[n]]]
<1>1. << >> \in Seq(Byte) /\ step \in [1 .. N -> [Seq(Byte) -> Seq(Byte)]]
  OBVIOUS
<1>2. PICK g \in [0 .. N -> Seq(Byte)] :
        g[0] = << >> /\ \A k \in 1 .. N : g[k] = step[k][g[k - 1]]
  <2>1. << >> \in Seq(Byte)
    OBVIOUS
  <2>2. step \in Steps(N, Seq(Byte))
    BY <1>1 DEF Steps
  <2> HIDE DEF step
  <2>3. \E g : Follows(g, N, Seq(Byte), << >>, step)
    BY <2>1, <2>2, Recursion
  <2>4. QED
    BY <2>3 DEF Follows
<1>3. ASSUME NEW n \in 1 .. N PROVE g[n] = g[n - 1] \o E[n]
  <2>1. g[n - 1] \in Seq(Byte)
    OBVIOUS
  <2>2. QED
    BY <1>2, <2>1
<1>4. g = [n \in 0 .. N |-> IF n = 0 THEN << >> ELSE g[n - 1] \o E[n]]
  <2> HIDE DEF step
  <2>1. ASSUME NEW n \in 0 .. N PROVE g[n] = IF n = 0 THEN << >> ELSE g[n - 1] \o E[n]
    <3>1. CASE n = 0
      BY <1>2, <3>1
    <3>2. CASE n \in 1 .. N
      BY <1>3, <3>2, SMTT(30)
    <3>3. n = 0 \/ n \in 1 .. N
      OBVIOUS
    <3>4. QED
      BY <3>1, <3>2, <3>3
  <2>2. QED
    BY <2>1
<1>5. QED
  BY <1>4

Piece(els, k) == Encoded(els[k].ie, els[k].data)

(* b[n] is the message of the first n elements. *)
Whole(els, b) ==
  /\ b \in [0 .. Len(els) -> Seq(Byte)] /\ b[0] = << >>
  /\ \A k \in 1 .. Len(els) : b[k] = b[k - 1] \o Piece(els, k)

(* A message is put together of pieces, of whatever elements. *)
LEMMA MessageParts ==
  ASSUME NEW els \in Seq([ie : Byte, data : Seq(Byte)])
  PROVE  \E b : Whole(els, b) /\ Message(els) = b[Len(els)]
<1> DEFINE N == Len(els)
           E == [n \in 1 .. N |-> Encoded(els[n].ie, els[n].data)]
           bytes[n \in 0 .. Len(els)] ==
             IF n = 0 THEN << >> ELSE bytes[n - 1] \o Encoded(els[n].ie, els[n].data)
<1>1. N \in Nat /\ E \in [1 .. N -> Seq(Byte)]
  <2>1. ASSUME NEW n \in 1 .. N PROVE els[n] \in [ie : Byte, data : Seq(Byte)]
    BY ElementOfSeq
  <2>2. ASSUME NEW n \in 1 .. N PROVE Encoded(els[n].ie, els[n].data) \in Seq(Byte)
    BY <2>1, EncodedType
  <2>3. QED
    BY <2>2
<1>2. \E g : g = [n \in 0 .. N |-> IF n = 0 THEN << >> ELSE g[n - 1] \o E[n]]
  <2> HIDE DEF N, E
  <2>1. QED
    BY <1>1, Concatenated
<1>3. \E g : g = [n \in 0 .. Len(els) |->
                 IF n = 0 THEN << >> ELSE g[n - 1] \o Encoded(els[n].ie, els[n].data)]
  <2>1. PICK g : g = [n \in 0 .. N |-> IF n = 0 THEN << >> ELSE g[n - 1] \o E[n]]
    BY <1>2
  <2>2. \A n \in 0 .. N : n # 0 => E[n] = Encoded(els[n].ie, els[n].data)
    BY <1>1
  <2>3. g = [n \in 0 .. Len(els) |->
                 IF n = 0 THEN << >> ELSE g[n - 1] \o Encoded(els[n].ie, els[n].data)]
    <3> HIDE DEF E
    <3>1. QED
      BY <2>1, <2>2
  <2>4. QED
    BY <2>3
<1>4. bytes = [n \in 0 .. Len(els) |->
                 IF n = 0 THEN << >> ELSE bytes[n - 1] \o Encoded(els[n].ie, els[n].data)]
  BY <1>3
<1>5. bytes[0] = << >> /\ \A n \in 1 .. N : bytes[n] = bytes[n - 1] \o E[n]
  <2> HIDE DEF bytes
  <2>1. bytes[0] = << >>
    BY <1>1, <1>4
  <2>2. ASSUME NEW n \in 1 .. N PROVE bytes[n] = bytes[n - 1] \o E[n]
    <3>1. n \in 0 .. Len(els) /\ n # 0 /\ E[n] = Encoded(els[n].ie, els[n].data)
      BY <1>1
    <3> HIDE DEF E, N
    <3>2. QED
      BY <1>4, <3>1
  <2>3. QED
    BY <2>1, <2>2
<1>6. ASSUME NEW n \in 0 .. N - 1, bytes[n] \in Seq(Byte) PROVE bytes[n + 1] \in Seq(Byte)
  <2> HIDE DEF bytes, E, N
  <2>1. n + 1 \in 1 .. N /\ (n + 1) - 1 = n
    BY <1>1
  <2>2. bytes[n + 1] = bytes[n] \o E[n + 1] /\ E[n + 1] \in Seq(Byte)
    BY <1>1, <1>5, <2>1
  <2>3. QED
    BY <1>6, <2>2
<1>7. bytes \in [0 .. N -> Seq(Byte)]
  <2> HIDE DEF bytes, E
  <2>1. bytes[0] \in Seq(Byte)
    BY <1>5
  <2>2. \A n \in 0 .. N : bytes[n] \in Seq(Byte)
    <3> HIDE DEF N
    <3>1. QED
      BY <1>1, <1>6, <2>1, Stays
  <2>3. QED
    BY <1>4, <2>2
<1>8. Message(els) = bytes[N]
  BY DEF Message
<1>9. Whole(els, bytes)
  <2>1. \A n \in 1 .. N : E[n] = Piece(els, n)
    BY DEF Piece
  <2> HIDE DEF bytes, E
  <2>2. QED
    BY <1>5, <1>7, <2>1 DEF Whole
<1>10. QED
  BY <1>8, <1>9

(* A message is a sequence of bytes. *)
LEMMA MessageType ==
  ASSUME NEW els \in Seq([ie : Byte, data : Seq(Byte)])
  PROVE  Message(els) \in Seq(Byte)
<1>1. PICK b : Whole(els, b) /\ Message(els) = b[Len(els)]
  BY MessageParts
<1>2. Len(els) \in 0 .. Len(els)
  BY LenProperties
<1>3. QED
  BY <1>1, <1>2 DEF Whole

(* r[j] is a number without its last j bytes. *)
Shed(r, value, width) ==
  /\ r \in [0 .. width -> Nat] /\ r[0] = value
  /\ \A j \in 1 .. width : r[j] = r[j - 1] \div Base

(* The bytes of a number are what is left of it, one after the other. *)
LEMMA DigitsParts ==
  ASSUME NEW value \in Nat, NEW width \in Nat
  PROVE  \E r : Shed(r, value, width) /\ Digits(value, width) = [k \in 1 .. width |-> r[width - k] % Base]
<1> DEFINE rest[j \in 0 .. width] == IF j = 0 THEN value ELSE rest[j - 1] \div Base
           step == [j \in 1 .. width |-> [s \in Nat |-> s \div Base]]
<1>1. \A s \in Nat : s \div Base \in Nat
  BY BytesAssumption
<1>2. PICK g : Follows(g, width, Nat, value, step)
  <2>1. step \in Steps(width, Nat)
    BY <1>1 DEF Steps
  <2> HIDE DEF step, rest
  <2>2. QED
    BY <2>1, Recursion
<1>3. g \in [0 .. width -> Nat] /\ g[0] = value /\ \A j \in 1 .. width : g[j] = g[j - 1] \div Base
  <2> HIDE DEF rest
  <2>1. g \in [0 .. width -> Nat] /\ g[0] = value
    BY <1>2 DEF Follows
  <2>2. ASSUME NEW j \in 1 .. width PROVE g[j] = g[j - 1] \div Base
    <3>1. g[j] = step[j][g[j - 1]] /\ g[j - 1] \in Nat
      <4> HIDE DEF step
      <4>1. QED
        BY <1>2, <2>1 DEF Follows
    <3>2. QED
      BY <3>1
  <2>3. QED
    BY <2>1, <2>2
<1>4. g = [j \in 0 .. width |-> IF j = 0 THEN value ELSE g[j - 1] \div Base]
  <2> HIDE DEF rest, step
  <2>1. ASSUME NEW j \in 0 .. width PROVE g[j] = IF j = 0 THEN value ELSE g[j - 1] \div Base
    <3>1. j = 0 \/ j \in 1 .. width
      OBVIOUS
    <3>2. QED
      BY <1>3, <3>1
  <2>2. QED
    BY <1>3, <2>1
<1>5. rest = [j \in 0 .. width |-> IF j = 0 THEN value ELSE rest[j - 1] \div Base]
  <2> HIDE DEF step
  <2>1. QED
    BY <1>4
<1>6. Digits(value, width) = [k \in 1 .. width |-> rest[width - k] % Base]
  BY DEF Digits
<1> HIDE DEF rest, step
<1>7. rest[0] = value /\ \A j \in 1 .. width : rest[j] = rest[j - 1] \div Base
  BY <1>5
<1>8. ASSUME NEW j \in 0 .. width - 1, rest[j] \in Nat PROVE rest[j + 1] \in Nat
  <2>1. j + 1 \in 1 .. width /\ (j + 1) - 1 = j
    OBVIOUS
  <2>2. QED
    BY <1>1, <1>7, <1>8, <2>1
<1>9. \A j \in 0 .. width : rest[j] \in Nat
  BY <1>7, <1>8, Stays
<1>10. QED
  BY <1>5, <1>6, <1>7, <1>9 DEF Shed

(* The bytes of a number are bytes. *)
LEMMA DigitsType ==
  ASSUME NEW ie \in DOMAIN Width, NEW value \in Nat
  PROVE  Digits(value, Width[ie]) \in Seq(Byte)
<1>1. Width[ie] \in Nat /\ Base \in Nat /\ Base > 1
  BY BytesAssumption, TypesAssumption
<1>2. PICK r : /\ Shed(r, value, Width[ie])
               /\ Digits(value, Width[ie]) = [k \in 1 .. Width[ie] |-> r[Width[ie] - k] % Base]
  BY <1>1, DigitsParts
<1>3. ASSUME NEW k \in 1 .. Width[ie] PROVE r[Width[ie] - k] % Base \in Byte
  <2>1. r[Width[ie] - k] \in Nat
    BY <1>1, <1>2 DEF Shed
  <2>2. QED
    BY <1>1, <2>1 DEF Byte
<1>4. Digits(value, Width[ie]) \in [1 .. Width[ie] -> Byte]
  BY <1>2, <1>3
<1>5. QED
  BY <1>1, <1>4, FunctionIsSeq

(* h[k] is the number that the first k bytes from p say. *)
Grown(h, p, width) ==
  /\ h \in [0 .. width -> Nat] /\ h[0] = 0
  /\ \A k \in 1 .. width : h[k] = h[k - 1] * Base + mem[p + k - 1]

(* A number is put together byte by byte. *)
LEMMA NumberParts ==
  ASSUME NEW p \in Nat, NEW width \in Nat, \A k \in 1 .. width : mem[p + k - 1] \in Nat
  PROVE  \E h : Grown(h, p, width) /\ NumberAt(p, width) = h[width]
<1> DEFINE high[k \in 0 .. width] == IF k = 0 THEN 0 ELSE high[k - 1] * Base + mem[p + k - 1]
           step == [k \in 1 .. width |-> [s \in Nat |-> s * Base + mem[p + k - 1]]]
<1>1. \A k \in 1 .. width, s \in Nat : s * Base + mem[p + k - 1] \in Nat
  <2> HIDE DEF high, step
  <2>1. TAKE k \in 1 .. width, s \in Nat
  <2>2. s * Base \in Nat
    BY BytesAssumption
  <2>3. mem[p + k - 1] \in Nat
    OBVIOUS
  <2>4. QED
    BY <2>2, <2>3
<1>2. PICK g : Follows(g, width, Nat, 0, step)
  <2>1. step \in Steps(width, Nat)
    <3> HIDE DEF high
    <3>1. QED
      BY <1>1 DEF Steps
  <2> HIDE DEF step, high
  <2>2. QED
    BY <2>1, Recursion
<1>3. g = [k \in 0 .. width |-> IF k = 0 THEN 0 ELSE g[k - 1] * Base + mem[p + k - 1]]
  <2> HIDE DEF high
  <2>1. g \in [0 .. width -> Nat] /\ g[0] = 0
    BY <1>2 DEF Follows
  <2>2. ASSUME NEW k \in 1 .. width PROVE g[k] = g[k - 1] * Base + mem[p + k - 1]
    <3>1. g[k] = step[k][g[k - 1]] /\ g[k - 1] \in Nat
      <4> HIDE DEF step
      <4>1. QED
        BY <1>2, <2>1 DEF Follows
    <3>2. QED
      BY <3>1
  <2> HIDE DEF step
  <2>3. ASSUME NEW k \in 0 .. width
        PROVE  g[k] = IF k = 0 THEN 0 ELSE g[k - 1] * Base + mem[p + k - 1]
    <3>1. k = 0 \/ k \in 1 .. width
      OBVIOUS
    <3>2. QED
      BY <2>1, <2>2, <3>1
  <2>4. QED
    BY <2>1, <2>3
<1>4. high = [k \in 0 .. width |-> IF k = 0 THEN 0 ELSE high[k - 1] * Base + mem[p + k - 1]]
  <2> HIDE DEF step
  <2>1. QED
    BY <1>3
<1> HIDE DEF high, step
<1>5. high[0] \in Nat
  BY <1>4
<1>6. ASSUME NEW k \in 0 .. width - 1, high[k] \in Nat PROVE high[k + 1] \in Nat
  <2>1. k + 1 \in 0 .. width /\ k + 1 # 0 /\ (k + 1) - 1 = k /\ k + 1 \in 1 .. width
    OBVIOUS
  <2>2. high[k + 1] = high[k] * Base + mem[p + (k + 1) - 1]
    BY <1>4, <2>1
  <2>3. QED
    BY <1>1, <1>6, <2>1, <2>2
<1>7. \A k \in 0 .. width : high[k] \in Nat
  BY <1>5, <1>6, Stays
<1>8. high[0] = 0 /\ \A k \in 1 .. width : high[k] = high[k - 1] * Base + mem[p + k - 1]
  BY <1>4
<1>9. Grown(high, p, width)
  BY <1>4, <1>7, <1>8 DEF Grown
<1>10. NumberAt(p, width) = high[width]
  BY DEF NumberAt, high
<1>11. QED
  BY <1>9, <1>10

(* ... and is a number. *)
LEMMA NumberType ==
  ASSUME NEW p \in Nat, NEW width \in Nat, \A k \in 1 .. width : mem[p + k - 1] \in Nat
  PROVE  NumberAt(p, width) \in Nat
<1>1. PICK h : Grown(h, p, width) /\ NumberAt(p, width) = h[width]
  BY NumberParts
<1>2. QED
  BY <1>1 DEF Grown

(* One byte more, and it is the last. *)
LEMMA Shifted ==
  ASSUME NEW h \in Nat, NEW x \in Byte
  PROVE  (h * Base + x) \div Base = h /\ (h * Base + x) % Base = x
<1>1. Base \in Nat /\ Base > 1 /\ x \in Nat /\ x < Base
  BY BytesAssumption DEF Byte
<1>2. (h * Base + x) \div Base = h
  BY <1>1
<1>3. (h * Base + x) % Base = x
  BY <1>1
<1>4. QED
  BY <1>2, <1>3

(* The bytes of the number that bytes say are those. *)
LEMMA DigitsOfNumber ==
  ASSUME NEW p \in Nat, NEW width \in Nat, \A k \in 1 .. width : mem[p + k - 1] \in Byte
  PROVE  Digits(NumberAt(p, width), width) = [k \in 1 .. width |-> mem[p + k - 1]]
<1>1. Base \in Nat /\ Base > 1 /\ Byte \subseteq Nat
  BY BytesAssumption DEF Byte
<1>2. PICK h : Grown(h, p, width) /\ NumberAt(p, width) = h[width]
  BY <1>1, NumberParts
<1>3. NumberAt(p, width) \in Nat
  BY <1>2 DEF Grown
<1>4. PICK r : /\ Shed(r, NumberAt(p, width), width)
               /\ Digits(NumberAt(p, width), width) = [k \in 1 .. width |-> r[width - k] % Base]
  BY <1>3, DigitsParts
<1> DEFINE Same == {j \in 0 .. width : r[j] = h[width - j]}
<1>5. 0 \in Same
  BY <1>2, <1>4 DEF Shed
<1>6. ASSUME NEW j \in 0 .. width - 1, j \in Same PROVE j + 1 \in Same
  <2> DEFINE n == width - j
  <2>1. n \in 1 .. width /\ n - 1 = width - (j + 1) /\ j + 1 \in 1 .. width /\ (j + 1) - 1 = j
    OBVIOUS
  <2>2. r[j + 1] = h[n] \div Base
    <3>1. r[j] = h[n]
      BY <1>6
    <3>2. r[j + 1] = r[j] \div Base
      <4> HIDE DEF n, Same
      <4>1. QED
        BY <1>4, <2>1 DEF Shed
    <3>3. QED
      BY <3>1, <3>2
  <2> HIDE DEF n, Same
  <2>3. h[n] = h[n - 1] * Base + mem[p + n - 1] /\ h[n - 1] \in Nat /\ mem[p + n - 1] \in Byte
    BY <1>2, <2>1 DEF Grown
  <2>4. h[n] \div Base = h[n - 1]
    BY <2>3, Shifted
  <2>5. r[j + 1] = h[width - (j + 1)]
    BY <2>1, <2>2, <2>4
  <2>6. QED
    BY <2>1, <2>5 DEF Same
<1>7. \A j \in 0 .. width : r[j] = h[width - j]
  <2>1. 0 .. width \subseteq Same
    <3> HIDE DEF Same
    <3>1. QED
      BY <1>5, <1>6, Induction
  <2>2. QED
    BY <2>1
<1> HIDE DEF Same
<1>8. ASSUME NEW k \in 1 .. width PROVE r[width - k] % Base = mem[p + k - 1]
  <2>1. r[width - k] = h[k]
    BY <1>7
  <2>2. h[k] = h[k - 1] * Base + mem[p + k - 1] /\ h[k - 1] \in Nat /\ mem[p + k - 1] \in Byte
    BY <1>2 DEF Grown
  <2>3. QED
    BY <2>1, <2>2, Shifted
<1>9. QED
  BY <1>4, <1>8

-----------------------------------------------------------------------------
(* Messages and their elements *)

Elem == [ie : Byte, data : Seq(Byte)]

(* What a byte keeps of a length. *)
LEMMA Cropped ==
  ASSUME NEW n \in Nat
  PROVE  n % Base \in Byte /\ (n < Base => n % Base = n)
  BY BytesAssumption DEF Byte

(* A piece is a type, a length and a content. *)
LEMMA PieceIs ==
  ASSUME NEW e \in Elem
  PROVE  /\ Encoded(e.ie, e.data) \in Seq(Byte)
         /\ Len(Encoded(e.ie, e.data)) = Len(e.data) + 2
         /\ Encoded(e.ie, e.data)[1] = e.ie
         /\ Encoded(e.ie, e.data)[2] = Len(e.data) % Base
         /\ \A j \in 1 .. Len(e.data) : Encoded(e.ie, e.data)[j + 2] = e.data[j]
<1> DEFINE head == <<e.ie, Len(e.data) % Base>>
           d == e.data
<1>1. e.ie \in Byte /\ d \in Seq(Byte)
  BY DEF Elem
<1>2. Len(d) \in Nat /\ Len(d) % Base \in Byte
  <2> HIDE DEF head, d
  <2>1. Len(d) \in Nat
    BY <1>1, LenProperties
  <2>2. QED
    BY <2>1, Cropped
<1>3. head \in Seq(Byte) /\ Len(head) = 2 /\ head[1] = e.ie /\ head[2] = Len(e.data) % Base
  BY <1>1, <1>2
<1>4. Encoded(e.ie, e.data) = head \o d
  BY DEF Encoded
<1> HIDE DEF head, d
<1>5. /\ head \o d \in Seq(Byte) /\ Len(head \o d) = 2 + Len(d)
      /\ \A i \in 1 .. 2 + Len(d) :
           (head \o d)[i] = IF i <= 2 THEN head[i] ELSE d[i - 2]
  <2>1. /\ head \o d \in Seq(Byte) /\ Len(head \o d) = Len(head) + Len(d)
        /\ \A i \in 1 .. Len(head) + Len(d) :
             (head \o d)[i] = IF i <= Len(head) THEN head[i] ELSE d[i - Len(head)]
    BY <1>1, <1>3, ConcatProperties, ZenonT(20)
  <2>2. Len(head) = 2
    BY <1>3
  <2> DEFINE h == Len(head)
  <2> HIDE DEF h
  <2>3. QED
    BY <2>1, <2>2
<1>6. ASSUME NEW j \in 1 .. Len(d) PROVE (head \o d)[j + 2] = d[j]
  <2>1. j + 2 \in 1 .. 2 + Len(d) /\ ~ (j + 2 <= 2) /\ (j + 2) - 2 = j
    BY <1>2
  <2>2. QED
    BY <1>5, <2>1
<1>7. QED
  BY <1>2, <1>3, <1>4, <1>5, <1>6 DEF d

PartFits(els, b, k) ==
  /\ k - 1 \in 0 .. Len(els) /\ k \in 0 .. Len(els) /\ els[k] \in Elem
  /\ Len(b[k - 1]) \in Nat /\ Len(b[k]) = Len(b[k - 1]) + Len(els[k].data) + 2
  /\ \A j \in 1 .. Len(b[k - 1]) : b[k][j] = b[k - 1][j]
  /\ b[k][Len(b[k - 1]) + 1] = els[k].ie
  /\ b[k][Len(b[k - 1]) + 2] = Len(els[k].data) % Base
  /\ \A j \in 1 .. Len(els[k].data) : b[k][Len(b[k - 1]) + 2 + j] = els[k].data[j]

(* Each part is the one before and a piece behind it. *)
LEMMA PartIs ==
  ASSUME NEW els \in Seq(Elem), NEW b, Whole(els, b), NEW k \in 1 .. Len(els)
  PROVE  PartFits(els, b, k)
<1> DEFINE p == Piece(els, k)
           a == b[k - 1]
           d == els[k].data
<1>1. Len(els) \in Nat /\ k - 1 \in 0 .. Len(els) /\ k \in 0 .. Len(els) /\ els[k] \in Elem
  BY LenProperties, ElementOfSeq
<1>2. a \in Seq(Byte) /\ b[k] = a \o p
  BY <1>1 DEF Whole
<1>3. /\ p \in Seq(Byte) /\ Len(p) = Len(d) + 2 /\ p[1] = els[k].ie
      /\ p[2] = Len(d) % Base
      /\ \A j \in 1 .. Len(d) : p[j + 2] = d[j]
  BY <1>1, PieceIs DEF Piece
<1>4. d \in Seq(Byte) /\ Len(d) \in Nat /\ Len(a) \in Nat
  BY <1>1, <1>2, LenProperties DEF Elem
<1> HIDE DEF p, a, d
<1>5. /\ a \o p \in Seq(Byte) /\ Len(a \o p) = Len(a) + Len(p)
      /\ \A i \in 1 .. Len(a) + Len(p) : (a \o p)[i] = IF i <= Len(a) THEN a[i] ELSE p[i - Len(a)]
  BY <1>2, <1>3, ConcatProperties
<1>6. \A j \in 1 .. Len(a) : (a \o p)[j] = a[j]
  BY <1>3, <1>4, <1>5
<1>7. ASSUME NEW i \in 1 .. Len(d) + 2 PROVE (a \o p)[Len(a) + i] = p[i]
  <2>1. Len(a) + i \in 1 .. Len(a) + Len(p) /\ ~ (Len(a) + i <= Len(a)) /\ (Len(a) + i) - Len(a) = i
    BY <1>3, <1>4
  <2>2. QED
    BY <1>5, <2>1
<1>8. (a \o p)[Len(a) + 1] = els[k].ie /\ (a \o p)[Len(a) + 2] = Len(d) % Base
  BY <1>3, <1>4, <1>7
<1>9. ASSUME NEW j \in 1 .. Len(d) PROVE (a \o p)[Len(a) + 2 + j] = d[j]
  <2>1. j + 2 \in 1 .. Len(d) + 2 /\ Len(a) + (j + 2) = Len(a) + 2 + j
    BY <1>4
  <2>2. QED
    BY <1>3, <1>7, <2>1
<1>10. Len(b[k]) = Len(a) + Len(d) + 2
  BY <1>2, <1>3, <1>4, <1>5
<1>11. QED
  BY <1>1, <1>2, <1>4, <1>6, <1>8, <1>9, <1>10 DEF PartFits, a, d

Begins(s, t) == Len(s) <= Len(t) /\ \A j \in 1 .. Len(s) : t[j] = s[j]

(* The message begins with each of its parts. *)
LEMMA Grows ==
  ASSUME NEW els \in Seq(Elem), NEW b, Whole(els, b), NEW n \in 0 .. Len(els)
  PROVE  \A m \in n .. Len(els) : Begins(b[n], b[m])
<1> DEFINE N == Len(els) - n
           Far == {i \in 0 .. N : Begins(b[n], b[n + i])}
<1>1. Len(els) \in Nat /\ n \in Nat /\ N \in Nat
  BY LenProperties
<1>2. ASSUME NEW m \in 0 .. Len(els) PROVE b[m] \in Seq(Byte) /\ Len(b[m]) \in Nat
  BY LenProperties DEF Whole
<1>3. 0 \in Far
  BY <1>1, <1>2 DEF Begins
<1>4. ASSUME NEW i \in 0 .. N - 1, i \in Far PROVE i + 1 \in Far
  <2> DEFINE k == n + (i + 1)
  <2>1. /\ k \in 1 .. Len(els) /\ k - 1 = n + i /\ i + 1 \in 0 .. N
    BY <1>1
  <2>2. Begins(b[n], b[n + i])
    BY <1>4
  <2> HIDE DEF k, N, Far
  <2>3. /\ Len(b[k]) = Len(b[k - 1]) + Len(els[k].data) + 2 /\ els[k] \in Elem
        /\ \A j \in 1 .. Len(b[k - 1]) : b[k][j] = b[k - 1][j]
    <3>1. PartFits(els, b, k)
      BY <2>1, PartIs
    <3>2. QED
      BY <3>1 DEF PartFits
  <2>4. Len(els[k].data) \in Nat /\ Len(b[n]) \in Nat /\ Len(b[k - 1]) \in Nat
    <3>1. k - 1 \in 0 .. Len(els)
      BY <1>1, <2>1
    <3>2. QED
      BY <1>2, <2>3, <3>1, LenProperties DEF Elem
  <2>5. Begins(b[n], b[k])
    <3>1. Len(b[n]) <= Len(b[k - 1]) /\ \A j \in 1 .. Len(b[n]) : b[k - 1][j] = b[n][j]
      BY <2>1, <2>2 DEF Begins
    <3>2. Len(b[n]) <= Len(b[k])
      <4> DEFINE x == Len(b[n])
                 y == Len(b[k - 1])
                 z == Len(els[k].data)
      <4>1. x \in Nat /\ y \in Nat /\ z \in Nat /\ x <= y /\ Len(b[k]) = y + z + 2
        BY <2>3, <2>4, <3>1
      <4> HIDE DEF x, y, z
      <4>2. x <= y + z + 2
        BY <4>1
      <4>3. QED
        BY <4>1, <4>2 DEF x
    <3>3. ASSUME NEW j \in 1 .. Len(b[n]) PROVE b[k][j] = b[n][j]
      <4>1. j \in 1 .. Len(b[k - 1])
        BY <2>4, <3>1
      <4>2. QED
        BY <2>3, <3>1, <4>1
    <3>4. QED
      BY <3>2, <3>3 DEF Begins
  <2>6. QED
    BY <2>1, <2>5 DEF Far, k
<1>5. 0 .. N \subseteq Far
  <2> HIDE DEF N, Far
  <2>1. QED
    BY <1>1, <1>3, <1>4, Induction
<1>6. ASSUME NEW m \in n .. Len(els) PROVE Begins(b[n], b[m])
  <2>1. m - n \in 0 .. N /\ n + (m - n) = m
    BY <1>1
  <2>2. m - n \in Far
    BY <1>5, <2>1
  <2>3. QED
    BY <2>1, <2>2
<1>7. QED
  BY <1>6

Said(els, b, k) ==
  LET m == b[Len(els)]
      start == Len(b[k - 1])
  IN  /\ start \in Nat /\ Len(m) \in Nat /\ Len(els[k].data) \in Nat
      /\ Len(b[k]) = start + Len(els[k].data) + 2 /\ Len(b[k]) <= Len(m)
      /\ m[start + 1] = els[k].ie
      /\ m[start + 2] = Len(els[k].data)
      /\ \A j \in 1 .. Len(els[k].data) : m[start + 2 + j] = els[k].data[j]

(* What a message says at the place of an element. *)
LEMMA SaidAt ==
  ASSUME NEW els \in Seq(Elem), NEW b, Whole(els, b), NEW k \in 1 .. Len(els),
         Len(els[k].data) < Base
  PROVE  Said(els, b, k)
<1> DEFINE m == b[Len(els)]
           start == Len(b[k - 1])
           d == els[k].data
<1>1. /\ k \in 0 .. Len(els) /\ els[k] \in Elem
      /\ start \in Nat /\ Len(b[k]) = start + Len(d) + 2
      /\ b[k][start + 1] = els[k].ie
      /\ b[k][start + 2] = Len(d) % Base
      /\ \A j \in 1 .. Len(d) : b[k][start + 2 + j] = d[j]
  <2>1. PartFits(els, b, k)
    BY PartIs
  <2>2. QED
    BY <2>1 DEF PartFits
<1>2. Len(els) \in k .. Len(els) /\ Len(els) \in 0 .. Len(els)
  BY LenProperties
<1>3. Begins(b[k], m)
  BY <1>1, <1>2, Grows
<1> DEFINE size == Len(d)
<1>4. size \in Nat /\ Len(m) \in Nat
  BY <1>1, <1>2, LenProperties DEF Elem, Whole
<1> HIDE DEF m, start
<1>5. Len(b[k]) <= Len(m) /\ \A j \in 1 .. start + size + 2 : m[j] = b[k][j]
  BY <1>1, <1>3 DEF Begins
<1>6. size < Base
  OBVIOUS
<1> HIDE DEF d, size
<1>7. size % Base = size
  BY <1>4, <1>6, Cropped
<1>8. start + 1 \in 1 .. start + size + 2 /\ start + 2 \in 1 .. start + size + 2
  BY <1>1, <1>4
<1>9. m[start + 1] = els[k].ie /\ m[start + 2] = size
  BY <1>1, <1>5, <1>7, <1>8 DEF size
<1>10. ASSUME NEW j \in 1 .. size PROVE m[start + 2 + j] = d[j]
  <2>1. start + 2 + j \in 1 .. start + size + 2
    BY <1>1, <1>4
  <2>2. QED
    BY <1>1, <1>5, <2>1 DEF size
<1>11. QED
  BY <1>1, <1>4, <1>5, <1>9, <1>10 DEF Said, m, start, d, size

(* The message of no elements, and of one more. *)
LEMMA MessageGrows ==
  /\ Message(<< >>) = << >>
  /\ \A els \in Seq(Elem), e \in Elem :
       Message(Append(els, e)) = Message(els) \o Encoded(e.ie, e.data)
<1>1. Message(<< >>) = << >>
  <2>1. << >> \in Seq([ie : Byte, data : Seq(Byte)]) /\ Len(<< >>) = 0
    OBVIOUS
  <2>2. PICK b : Whole(<< >>, b) /\ Message(<< >>) = b[Len(<< >>)]
    BY <2>1, MessageParts
  <2>3. QED
    BY <2>1, <2>2 DEF Whole
<1>2. ASSUME NEW els \in Seq(Elem), NEW e \in Elem
      PROVE  Message(Append(els, e)) = Message(els) \o Encoded(e.ie, e.data)
  <2> DEFINE more == Append(els, e)
             N == Len(els)
  <2>1. /\ more \in Seq(Elem) /\ Len(more) = N + 1 /\ N \in Nat
        /\ more[N + 1] = e /\ \A k \in 1 .. N : more[k] = els[k]
    BY AppendProperties, LenProperties
  <2>2. PICK b : Whole(els, b) /\ Message(els) = b[N]
    BY MessageParts DEF Elem
  <2> HIDE DEF more
  <2>3. PICK c : Whole(more, c) /\ Message(more) = c[N + 1]
    BY <2>1, MessageParts DEF Elem
  <2> HIDE DEF N
  <2> DEFINE Same == {n \in 0 .. N : c[n] = b[n]}
  <2>4. 0 \in Same
    BY <2>1, <2>2, <2>3 DEF Whole
  <2>5. ASSUME NEW n \in 0 .. N - 1, n \in Same PROVE n + 1 \in Same
    <3>1. n + 1 \in 1 .. N /\ n + 1 \in 1 .. N + 1 /\ (n + 1) - 1 = n /\ n + 1 \in 0 .. N
      BY <2>1
    <3>2. c[n + 1] = c[n] \o Piece(more, n + 1) /\ b[n + 1] = b[n] \o Piece(els, n + 1)
      BY <2>1, <2>2, <2>3, <3>1 DEF Whole, N
    <3>3. Piece(more, n + 1) = Piece(els, n + 1) /\ c[n] = b[n]
      BY <2>1, <2>5, <3>1 DEF Piece
    <3>4. c[n + 1] = b[n + 1]
      <4> HIDE DEF Same
      <4>1. QED
        BY <3>2, <3>3
    <3>5. QED
      BY <3>1, <3>4
  <2>6. c[N] = b[N]
    <3>1. 0 .. N \subseteq Same
      <4> HIDE DEF Same
      <4>1. QED
        BY <2>1, <2>4, <2>5, Induction
    <3>2. QED
      BY <2>1, <3>1
  <2>7. c[N + 1] = c[N] \o Piece(more, N + 1)
    <3>1. N + 1 \in 1 .. Len(more) /\ (N + 1) - 1 = N
      BY <2>1
    <3>2. QED
      BY <2>3, <3>1 DEF Whole
  <2>8. QED
    BY <2>1, <2>2, <2>3, <2>6, <2>7 DEF Piece, more
<1>3. QED
  BY <1>1, <1>2

-----------------------------------------------------------------------------
(* The parser *)

(* Places of texts are in what has been read; the 0 that ends the last of them is
   written at the pointer or before it. *)
Behind ==
  pc = "parse" => at > 0 /\ \A ie \in Texts : ies[ie] # 0 => ies[ie] \in 1 .. at

Parsing == ParserTypeOK /\ InMemory /\ Behind /\ Ended

(* Before anything is read no text has a place. *)
LEMMA FreshType ==
  Fresh \in [Fields -> Int] /\ \A ie \in Texts : Fresh[ie] = 0
  BY TypesAssumption DEF Fresh, Fields

(* The invariant holds while nothing is built. *)
LEMMA InitParsing == ParserInit => Parsing
<1>1. << >> \in Seq(Byte) /\ << >> \in Seq([ie : Byte, data : Seq(Byte)]) /\ Len(<< >>) = 0
  OBVIOUS
<1>2. QED
  BY <1>1, FreshType, BytesAssumption DEF ParserInit, Parsing, ParserTypeOK, InMemory, Behind, Ended

(* An element is appended only where there is room. *)
LEMMA AppendParsing ==
  ASSUME Parsing, NEW ie \in Byte, NEW data \in Seq(Byte), AppendRaw(ie, data)
  PROVE  Parsing'
<1>1. pc = "build" /\ UNCHANGED <<mem, at, left, ies>>
  BY DEF AppendRaw
<1>2. CASE UNCHANGED <<pc, msg, sent>>
  BY <1>1, <1>2 DEF Parsing, ParserTypeOK, InMemory, Behind, Ended
<1>3. CASE pc' = "overrun" /\ UNCHANGED <<msg, sent>>
  BY <1>1, <1>3 DEF Parsing, ParserTypeOK, InMemory, Behind, Ended
<1>4. CASE /\ Len(data) + 2 <= Room /\ UNCHANGED pc
           /\ msg' = msg \o Encoded(ie, data) /\ sent' = Append(sent, [ie |-> ie, data |-> data])
  <2>1. msg \in Seq(Byte) /\ sent \in Seq([ie : Byte, data : Seq(Byte)])
    BY DEF Parsing, ParserTypeOK
  <2>2. Encoded(ie, data) \in Seq(Byte) /\ Len(Encoded(ie, data)) = Len(data) + 2
    <3>1. Len(<<ie, Len(data) % Base>>) = 2 /\ <<ie, Len(data) % Base>> \in Seq(Byte)
      <4>1. Len(data) % Base \in Byte
        BY BytesAssumption DEF Byte
      <4>2. QED
        BY <4>1
    <3>2. QED
      BY <3>1, ConcatProperties DEF Encoded
  <2>3. msg' \in Seq(Byte) /\ Len(msg') = Len(msg) + Len(data) + 2
    <3>1. /\ msg \o Encoded(ie, data) \in Seq(Byte)
          /\ Len(msg \o Encoded(ie, data)) = Len(msg) + Len(Encoded(ie, data))
      BY <2>1, <2>2, ConcatProperties
    <3>2. Len(msg) \in Nat /\ Len(data) \in Nat
      BY <2>1, LenProperties
    <3>3. QED
      BY <1>4, <2>2, <3>1, <3>2
  <2>4. sent' \in Seq([ie : Byte, data : Seq(Byte)])
    <3>1. [ie |-> ie, data |-> data] \in [ie : Byte, data : Seq(Byte)]
      OBVIOUS
    <3>2. QED
      BY <1>4, <2>1, <3>1, AppendProperties
  <2>5. Len(msg') <= Size
    BY <1>4, <2>1, <2>3, BytesAssumption DEF Room
  <2>6. ParserTypeOK'
    BY <1>1, <1>4, <2>3, <2>4, <2>5 DEF Parsing, ParserTypeOK
  <2>7. InMemory' /\ Behind' /\ Ended'
    BY <1>1, <1>4 DEF InMemory, Behind, Ended
  <2>8. QED
    BY <2>6, <2>7 DEF Parsing
<1>5. QED
  BY <1>2, <1>3, <1>4 DEF AppendRaw

(* The event's copy is the message and a byte. *)
LEMMA CopyParsing ==
  ASSUME Parsing, NEW message \in Seq(Byte), Copy(message),
         sent' \in Seq([ie : Byte, data : Seq(Byte)])
  PROVE  Parsing'
<1>1. PICK old \in Byte : mem' = Append(message, old)
  BY DEF Copy
<1>2. /\ mem' \in Seq(Byte) /\ Len(mem') = Len(message) + 1
      /\ \A k \in 1 .. Len(message) : mem'[k] = message[k]
  BY <1>1, AppendProperties
<1>3. pc' = "parse" /\ msg' = message /\ at' = 1 /\ left' = Len(message) /\ ies' = Fresh
  BY DEF Copy
<1>4. Len(message) \in Nat
  BY LenProperties
<1>5. ParserTypeOK'
  BY <1>2, <1>3, <1>4, FreshType DEF ParserTypeOK
<1>6. InMemory'
  BY <1>2, <1>3, <1>4 DEF InMemory
<1>7. Behind' /\ Ended'
  BY <1>3, FreshType DEF Behind, Ended
<1>8. QED
  BY <1>5, <1>6, <1>7 DEF Parsing

(* Whatever arrives is bytes. *)
LEMMA StrewnType ==
  ASSUME NEW most \in Int, NEW bytes \in Strewn(most)
  PROVE  bytes \in Seq(Byte)
<1>1. PICK n \in 0 .. most : bytes \in [1 .. n -> Byte]
  BY DEF Strewn
<1>2. QED
  BY <1>1, FunctionIsSeq

(* ... and what a message is made of is elements. *)
LEMMA PartsType ==
  ASSUME NEW els \in Parts
  PROVE  els \in Seq([ie : Byte, data : Seq(Byte)])
<1>1. PICK n \in 0 .. MaxForeign \div 2 :
        els \in [1 .. n -> [ie : Byte, data : Strewn(MaxForeign - 2 * n)]]
  BY DEF Parts
<1>2. n \in Nat /\ MaxForeign - 2 * n \in Int
  BY BytesAssumption
<1>3. Strewn(MaxForeign - 2 * n) \subseteq Seq(Byte)
  BY <1>2, StrewnType
<1>4. els \in [1 .. n -> [ie : Byte, data : Seq(Byte)]]
  BY <1>1, <1>3
<1>5. QED
  BY <1>2, <1>4, FunctionIsSeq

(* A field is set to a place, to 1 or to a number. *)
LEMMA TakeType ==
  ASSUME ies \in [Fields -> Int], NEW ie, NEW p \in Nat, NEW len,
         ie \in DOMAIN Width /\ len = Width[ie] => NumberAt(p, len) \in Int
  PROVE  Take(ie, p, len) \in [Fields -> Int]
<1>0. ASSUME NEW value \in Int PROVE [ies EXCEPT ![ie] = value] \in [Fields -> Int]
  OBVIOUS
<1>1. CASE ie \in Texts \cup Records
  <2>1. Take(ie, p, len) = [ies EXCEPT ![ie] = p]
    BY <1>1 DEF Take
  <2>2. QED
    BY <1>0, <2>1
<1>2. CASE ie \notin Texts \cup Records /\ ie \in Flags
  <2>1. Take(ie, p, len) = [ies EXCEPT ![ie] = 1]
    BY <1>2 DEF Take
  <2>2. QED
    BY <1>0, <2>1
<1>3. CASE ie \notin Texts \cup Records /\ ie \notin Flags /\ ie \in DOMAIN Width /\ len = Width[ie]
  <2>1. Take(ie, p, len) = [ies EXCEPT ![ie] = NumberAt(p, len)]
    BY <1>3 DEF Take
  <2>2. QED
    BY <1>0, <1>3, <2>1
<1>4. CASE ie \notin Texts \cup Records /\ ie \notin Flags /\ ~ (ie \in DOMAIN Width /\ len = Width[ie])
  <2>1. Take(ie, p, len) = ies
    BY <1>4 DEF Take
  <2>2. QED
    BY <2>1
<1>5. QED
  BY <1>1, <1>2, <1>3, <1>4

(* One element is read, and the pointer is on the next. *)
LEMMA ElementParsing ==
  ASSUME Parsing, Element
  PROVE  Parsing'
<1> DEFINE len == mem[at + 1]
<1>1. /\ pc = "parse" /\ UNCHANGED <<pc, sent, msg>> /\ left >= 2 /\ len <= left - 2
      /\ ies' = Take(mem[at], at + 2, len) /\ mem' = [mem EXCEPT ![at] = 0]
      /\ left' = left - (len + 2) /\ at' = at + len + 2
  BY DEF Element, Cut
<1>2. /\ at \in Nat /\ at > 0 /\ left \in Nat /\ mem \in Seq(Byte) /\ msg \in Seq(Byte)
      /\ at + left = Len(msg) + 1 /\ Len(mem) = Len(msg) + 1 /\ Len(msg) \in Nat
  BY <1>1, LenProperties DEF Parsing, ParserTypeOK, InMemory, Behind
<1>3. Byte \subseteq Nat /\ 0 \in Byte
  BY BytesAssumption DEF Byte
<1>4. \A k \in 1 .. Len(mem) : mem[k] \in Byte
  BY <1>2, ElementOfSeq
<1>5. at \in 1 .. Len(mem) /\ at + 1 \in 1 .. Len(mem)
  BY <1>1, <1>2
<1>6. len \in Nat
  BY <1>3, <1>4, <1>5
<1> HIDE DEF len
<1>7. /\ mem' \in Seq(Byte) /\ Len(mem') = Len(mem)
      /\ \A k \in 1 .. Len(mem) : k # at => mem'[k] = mem[k]
  BY <1>1, <1>2, <1>3, <1>5, ExceptSeq
<1>8. /\ at' \in Nat /\ left' \in Nat /\ at' > at + 1
      /\ at' + left' = Len(msg) + 1
  <2>1. left' = left - (len + 2) /\ at' = at + len + 2 /\ len <= left - 2
    BY <1>1
  <2>2. at \in Nat /\ left \in Nat /\ at + left = Len(msg) + 1 /\ Len(msg) \in Nat
    BY <1>2
  <2>3. QED
    BY <1>6, <2>1, <2>2
<1>9. ies' \in [Fields -> Int]
  <2>1. ies \in [Fields -> Int]
    BY DEF Parsing, ParserTypeOK
  <2>2. ASSUME mem[at] \in DOMAIN Width, len = Width[mem[at]]
        PROVE  NumberAt(at + 2, len) \in Int
    <3>1. ASSUME NEW k \in 1 .. len PROVE mem[at + 2 + k - 1] \in Nat
      <4>1. at + 2 + k - 1 \in 1 .. Len(mem)
        BY <1>1, <1>2, <1>6
      <4>2. QED
        BY <1>3, <1>4, <4>1
    <3>2. NumberAt(at + 2, len) \in Int
      <4>1. at + 2 \in Nat
        BY <1>2
      <4>2. NumberAt(at + 2, len) \in Nat
        BY <1>6, <3>1, <4>1, NumberType
      <4>3. QED
        BY <4>2
    <3>3. QED
      BY <3>2
  <2>3. at + 2 \in Nat
    BY <1>2
  <2>4. Take(mem[at], at + 2, len) \in [Fields -> Int]
    BY <2>1, <2>2, <2>3, TakeType
  <2>5. QED
    BY <1>1, <2>4
<1>10. ParserTypeOK'
  BY <1>1, <1>7, <1>8, <1>9 DEF Parsing, ParserTypeOK
<1>11. InMemory'
  <2>1. ASSUME NEW k \in at' .. Len(msg) PROVE mem'[k] = msg[k]
    <3>1. k \in at .. Len(msg) /\ k \in 1 .. Len(mem) /\ k # at
      BY <1>2, <1>8
    <3>2. mem[k] = msg[k]
      BY <1>1, <3>1 DEF Parsing, InMemory
    <3>3. QED
      BY <1>7, <3>1, <3>2
  <2>2. QED
    BY <1>1, <1>2, <1>7, <1>8, <2>1 DEF InMemory
<1>12. Behind'
  <2>1. ASSUME NEW ie \in Texts, ies'[ie] # 0 PROVE ies'[ie] \in 1 .. at'
    <3>1. ies \in [Fields -> Int] /\ ie \in Fields /\ ie \notin DOMAIN Width
      BY TypesAssumption DEF Parsing, ParserTypeOK, Fields
    <3>2. CASE ie = mem[at]
      <4>1. ies' = [ies EXCEPT ![ie] = at + 2]
        BY <1>1, <3>2 DEF Take
      <4>2. ies'[ie] = at + 2
        BY <3>1, <4>1
      <4>3. QED
        BY <1>1, <1>2, <1>6, <4>2
    <3>3. CASE ie # mem[at]
      <4>1. ies'[ie] = ies[ie]
        BY <1>1, <3>1, <3>3 DEF Take
      <4>2. ies[ie] \in 1 .. at
        BY <1>1, <2>1, <4>1 DEF Parsing, Behind
      <4>3. QED
        BY <1>2, <1>8, <4>1, <4>2
    <3>4. QED
      BY <3>2, <3>3
  <2>2. QED
    BY <1>2, <1>8, <2>1 DEF Behind
<1>13. Ended'
  BY <1>1 DEF Ended
<1>14. QED
  BY <1>10, <1>11, <1>12, <1>13 DEF Parsing

(* The last byte, or the byte behind, ends whatever text is open. *)
LEMMA FinishParsing ==
  ASSUME Parsing, Finish
  PROVE  Parsing'
<1>1. /\ pc = "parse" /\ UNCHANGED <<sent, msg, at, left, ies>> /\ mem' = [mem EXCEPT ![at] = 0]
      /\ pc' = IF left = 0 THEN "done" ELSE "error"
  BY DEF Finish, Cut
<1>2. /\ at \in Nat /\ at > 0 /\ left \in Nat /\ mem \in Seq(Byte)
      /\ at + left = Len(msg) + 1 /\ Len(mem) = Len(msg) + 1 /\ Len(msg) \in Nat
  BY <1>1, LenProperties DEF Parsing, ParserTypeOK, InMemory, Behind
<1>3. 0 \in Byte /\ at \in 1 .. Len(mem)
  BY <1>2, BytesAssumption DEF Byte
<1>4. mem' \in Seq(Byte) /\ Len(mem') = Len(mem) /\ mem'[at] = 0
  BY <1>1, <1>2, <1>3, ExceptSeq
<1>5. ParserTypeOK'
  BY <1>1, <1>4 DEF Parsing, ParserTypeOK
<1>6. InMemory' /\ Behind'
  BY <1>1 DEF InMemory, Behind
<1>7. Ended'
  <2>1. ASSUME NEW ie \in Texts, ies'[ie] # 0
        PROVE  ies'[ie] \in 1 .. Len(mem') /\ \E k \in ies'[ie] .. Len(mem') : mem'[k] = 0
    <3>1. ies'[ie] \in 1 .. at
      BY <1>1, <2>1 DEF Parsing, Behind
    <3>2. at \in ies'[ie] .. Len(mem') /\ ies'[ie] \in 1 .. Len(mem')
      BY <1>3, <1>4, <3>1
    <3>3. QED
      BY <1>4, <3>2
  <2>2. QED
    BY <2>1 DEF Ended
<1>8. QED
  BY <1>5, <1>6, <1>7 DEF Parsing

(* Every action keeps the invariant. *)
LEMMA StepParsing == Parsing /\ [ParserNext]_parserVars => Parsing'
<1> SUFFICES ASSUME Parsing, [ParserNext]_parserVars PROVE Parsing'
  OBVIOUS
<1>1. sent \in Seq([ie : Byte, data : Seq(Byte)]) /\ msg \in Seq(Byte)
  BY DEF Parsing, ParserTypeOK
<1>2. CASE AppendStr
  <2>1. PICK ie \in Texts, text \in Strings : AppendRaw(ie, text)
    BY <1>2 DEF AppendStr
  <2>2. ie \in Byte /\ text \in Seq(Byte)
    BY TypesAssumption, ContentsAssumption DEF Fields
  <2>3. QED
    BY <2>1, <2>2, AppendParsing
<1>3. CASE AppendNumber
  <2>1. PICK ie \in DOMAIN Width, value \in Numbers : AppendRaw(ie, Digits(value, Width[ie]))
    BY <1>3 DEF AppendNumber
  <2>2. ie \in Byte /\ value \in Nat
    BY TypesAssumption, ContentsAssumption DEF Fields
  <2>3. Digits(value, Width[ie]) \in Seq(Byte)
    BY <2>2, DigitsType
  <2>4. QED
    BY <2>1, <2>2, <2>3, AppendParsing
<1>4. CASE AppendAddr
  <2>1. PICK ie \in Records, address \in Addresses : AppendRaw(ie, address)
    BY <1>4 DEF AppendAddr
  <2>2. ie \in Byte /\ address \in Seq(Byte)
    BY TypesAssumption, ContentsAssumption DEF Fields
  <2>3. QED
    BY <2>1, <2>2, AppendParsing
<1>5. CASE AppendFlag
  <2>1. PICK ie \in Flags : AppendRaw(ie, << >>)
    BY <1>5 DEF AppendFlag
  <2>2. ie \in Byte /\ << >> \in Seq(Byte)
    BY TypesAssumption DEF Fields
  <2>3. QED
    BY <2>1, <2>2, AppendParsing
<1>6. CASE Receive
  BY <1>1, <1>6, CopyParsing DEF Receive
<1>7. CASE ReceiveForeign
  <2>1. PICK els \in Parts : sent' = els /\ Copy(Message(els))
    BY <1>7 DEF ReceiveForeign
  <2>2. els \in Seq([ie : Byte, data : Seq(Byte)])
    BY PartsType
  <2>3. Message(els) \in Seq(Byte)
    BY <2>2, MessageType
  <2>4. QED
    BY <2>1, <2>2, <2>3, CopyParsing
<1>8. CASE ReceiveGarbled
  <2>1. PICK bytes \in Garbled : Copy(bytes)
    BY <1>8 DEF ReceiveGarbled
  <2>2. bytes \in Strewn(MaxForeign) /\ MaxForeign \in Int
    BY BytesAssumption DEF Garbled
  <2>3. bytes \in Seq(Byte)
    BY <2>2, StrewnType
  <2>4. QED
    BY <1>1, <1>8, <2>1, <2>3, CopyParsing DEF ReceiveGarbled
<1>9. CASE Element
  BY <1>9, ElementParsing
<1>10. CASE TooLong
  BY <1>10 DEF TooLong, Parsing, ParserTypeOK, InMemory, Behind, Ended
<1>11. CASE Finish
  BY <1>11, FinishParsing
<1>12. CASE UNCHANGED parserVars
  BY <1>12 DEF parserVars, Parsing, ParserTypeOK, InMemory, Behind, Ended
<1>13. QED
  BY <1>2, <1>3, <1>4, <1>5, <1>6, <1>7, <1>8, <1>9, <1>10, <1>11, <1>12 DEF ParserNext

(* The invariant of the parser. *)
LEMMA AlwaysParsing == ParserSpec => []Parsing
<1>1. QED
  BY InitParsing, StepParsing, PTL DEF ParserSpec

-----------------------------------------------------------------------------
(* What is read of a message *)

Short(els) == \A k \in 1 .. Len(els) : Len(els[k].data) < Base

(* Element k has something to say of the fields of type ie *)
Tells(els, k, ie) ==
  els[k].ie = ie /\ (ie \in DOMAIN Width => Len(els[k].data) = Width[ie])

(* ... and that is a place, the first of its content, or 1, or a number. *)
Told(els, b, k, ie, value) ==
  /\ ie \in Texts \cup Records => value = Len(b[k - 1]) + 3
  /\ ie \in Flags => value = 1
  /\ ie \in DOMAIN Width => Digits(value, Width[ie]) = els[k].data

LastToTell(els, k, n, ie) ==
  Tells(els, k, ie) /\ \A m \in k + 1 .. n : ~ Tells(els, m, ie)

(* The fields tell what the last of the first n elements of a type said. *)
Values(els, b, n, fields) ==
  \A ie \in Fields :
    /\ (\A k \in 1 .. n : ~ Tells(els, k, ie)) => fields[ie] = Fresh[ie]
    /\ \A k \in 1 .. n : LastToTell(els, k, n, ie) => Told(els, b, k, ie, fields[ie])

(* The contents of the first n elements are where they arrived, and there is a 0
   behind each of them, but for the last. *)
Kept(els, b, n, bytes) ==
  \A k \in 1 .. n : \A j \in 1 .. Len(els[k].data) :
    bytes[Len(b[k - 1]) + 2 + j] = els[k].data[j]

Apart(els, b, n, bytes) == \A k \in 1 .. n - 1 : bytes[Len(b[k]) + 1] = 0

Read(els, b, n, fields, bytes) ==
  Values(els, b, n, fields) /\ Kept(els, b, n, bytes) /\ Apart(els, b, n, bytes)

(* What is in the memory where the content of element k should be, what is made of
   the fields, and what a field is then. *)
Arrived(els, k, start) ==
  \A j \in 1 .. Len(els[k].data) : mem[start + 2 + j] = els[k].data[j]

Taken(els, k, start, fields) == fields = Take(els[k].ie, start + 3, Len(els[k].data))

Fits(els, b, k, ie, fields) ==
  /\ Tells(els, k, ie) => Told(els, b, k, ie, fields[ie])
  /\ ~ Tells(els, k, ie) => fields[ie] = ies[ie]

(* What an element makes of the fields. *)
LEMMA TakeTells ==
  ASSUME NEW els \in Seq(Elem), NEW b, NEW k \in 1 .. Len(els), NEW start \in Nat,
         start = Len(b[k - 1]), ies \in [Fields -> Int], Arrived(els, k, start),
         NEW ie \in Fields, NEW fields, Taken(els, k, start, fields)
  PROVE  Fits(els, b, k, ie, fields)
<1> DEFINE d == els[k].data
           w == Len(d)
           p == start + 3
           type == els[k].ie
<1>1. type \in Byte /\ d \in Seq(Byte) /\ w \in Nat /\ p \in Nat
  <2>1. els[k] \in Elem
    BY ElementOfSeq
  <2>2. type \in Byte /\ d \in Seq(Byte)
    BY <2>1 DEF Elem
  <2> HIDE DEF d, type
  <2>3. QED
    BY <2>2, LenProperties
<1>2. CASE ie # type
  BY <1>2 DEF Fits, Taken, Take, Tells
<1>3. CASE ie = type /\ ie \in Texts \cup Records
  <2>1. ie \notin DOMAIN Width /\ ie \notin Flags
    BY <1>3, TypesAssumption
  <2>2. fields = [ies EXCEPT ![ie] = p]
    BY <1>3 DEF Taken, Take
  <2>3. fields[ie] = p
    BY <2>2
  <2>4. QED
    BY <1>3, <2>1, <2>3 DEF Fits, Tells, Told
<1>4. CASE ie = type /\ ie \in Flags
  <2>1. ie \notin DOMAIN Width /\ ie \notin Texts \cup Records
    BY <1>4, TypesAssumption
  <2>2. fields = [ies EXCEPT ![ie] = 1]
    BY <1>4, <2>1 DEF Taken, Take
  <2>3. fields[ie] = 1
    BY <2>2
  <2>4. QED
    BY <1>4, <2>1, <2>3 DEF Fits, Tells, Told
<1>5. CASE ie = type /\ ie \in DOMAIN Width /\ w # Width[ie]
  <2>1. ie \notin Flags /\ ie \notin Texts \cup Records
    BY <1>5, TypesAssumption
  <2>2. fields = ies
    BY <1>5, <2>1 DEF Taken, Take
  <2>3. QED
    BY <1>5, <2>2 DEF Fits, Tells
<1>6. CASE ie = type /\ ie \in DOMAIN Width /\ w = Width[ie]
  <2>1. ie \notin Flags /\ ie \notin Texts \cup Records
    BY <1>6, TypesAssumption
  <2>2. fields = [ies EXCEPT ![ie] = NumberAt(p, w)]
    BY <1>6, <2>1 DEF Taken, Take
  <2>3. fields[ie] = NumberAt(p, w)
    BY <2>2
  <2>4. ASSUME NEW j \in 1 .. w PROVE mem[p + j - 1] = d[j] /\ d[j] \in Byte
    <3>1. p + j - 1 = start + 2 + j
      BY <1>1
    <3>2. d[j] \in Byte
      BY <1>1, ElementOfSeq
    <3>3. mem[start + 2 + j] = d[j]
      BY DEF Arrived
    <3>4. QED
      BY <3>1, <3>2, <3>3
  <2> HIDE DEF d, w, p, type
  <2>5. Digits(NumberAt(p, w), w) = [j \in 1 .. w |-> mem[p + j - 1]]
    BY <1>1, <2>4, DigitsOfNumber
  <2>6. d = [j \in 1 .. w |-> d[j]]
    BY <1>1, LenProperties DEF w
  <2>7. Digits(NumberAt(p, w), w) = d
    BY <2>4, <2>5, <2>6
  <2>8. QED
    BY <1>6, <2>1, <2>3, <2>7 DEF Fits, Tells, Told, d, w, type
<1>7. QED
  BY <1>2, <1>3, <1>4, <1>5, <1>6 DEF Fits, Fields

(* One more element is read. *)
LEMMA OneMore ==
  ASSUME NEW els \in Seq(Elem), NEW b, Whole(els, b), NEW n \in 0 .. Len(els) - 1,
         NEW start \in Nat, start = Len(b[n]), ies \in [Fields -> Int],
         Read(els, b, n, ies, mem),
         Arrived(els, n + 1, start), NEW fields, Taken(els, n + 1, start, fields),
         NEW bytes, n > 0 => bytes[start + 1] = 0,
         \A i \in 1 .. Len(b[Len(els)]) : i # start + 1 => bytes[i] = mem[i]
  PROVE  Read(els, b, n + 1, fields, bytes)
<1>1. n \in Nat /\ n \in 0 .. Len(els) /\ n + 1 \in 1 .. Len(els) /\ (n + 1) - 1 = n /\ Len(els) \in Nat
  BY LenProperties
<1>2. ASSUME NEW ie \in Fields
      PROVE  /\ Tells(els, n + 1, ie) => Told(els, b, n + 1, ie, fields[ie])
             /\ ~ Tells(els, n + 1, ie) => fields[ie] = ies[ie]
  <2> DEFINE k == n + 1
  <2>1. /\ k \in 1 .. Len(els) /\ start = Len(b[k - 1])
        /\ Arrived(els, k, start) /\ Taken(els, k, start, fields)
    BY <1>1
  <2> HIDE DEF k
  <2>2. Fits(els, b, k, ie, fields)
    BY <2>1, TakeTells
  <2>3. QED
    BY <2>2 DEF k, Fits
<1>3. ASSUME NEW k \in 0 .. n PROVE Len(b[k]) \in Nat /\ Len(b[k]) <= start
  <2>1. k \in 0 .. Len(els) /\ n \in k .. Len(els)
    BY <1>1
  <2>2. Begins(b[k], b[n])
    BY <2>1, Grows
  <2>3. b[k] \in Seq(Byte)
    BY <2>1 DEF Whole
  <2>4. QED
    BY <2>2, <2>3, LenProperties DEF Begins
<1>4. ASSUME NEW k \in 1 .. n + 1
      PROVE  /\ Len(b[k - 1]) \in Nat /\ Len(els[k].data) \in Nat
             /\ Len(b[k]) = Len(b[k - 1]) + Len(els[k].data) + 2
             /\ Len(b[k]) <= Len(b[Len(els)])
  <2>1. k \in 1 .. Len(els) /\ k \in 0 .. Len(els) /\ Len(els) \in k .. Len(els)
    BY <1>1
  <2>2. PartFits(els, b, k)
    BY <2>1, PartIs
  <2>3. els[k] \in Elem /\ Begins(b[k], b[Len(els)])
    BY <2>1, <2>2, Grows DEF PartFits
  <2>4. Len(els[k].data) \in Nat
    BY <2>3, LenProperties DEF Elem
  <2>5. QED
    BY <2>2, <2>3, <2>4 DEF PartFits, Begins
<1>5. Values(els, b, n + 1, fields)
  <2>1. ASSUME NEW ie \in Fields, \A k \in 1 .. n + 1 : ~ Tells(els, k, ie)
        PROVE  fields[ie] = Fresh[ie]
    <3>1. \A k \in 1 .. n : ~ Tells(els, k, ie)
      BY <1>1, <2>1
    <3>2. ~ Tells(els, n + 1, ie)
      BY <1>1, <2>1
    <3>3. fields[ie] = ies[ie] /\ ies[ie] = Fresh[ie]
      BY <1>2, <3>1, <3>2 DEF Read, Values
    <3>4. QED
      BY <3>3
  <2>2. ASSUME NEW ie \in Fields, NEW k \in 1 .. n + 1, LastToTell(els, k, n + 1, ie)
        PROVE  Told(els, b, k, ie, fields[ie])
    <3>1. CASE k = n + 1
      BY <1>2, <2>2, <3>1 DEF LastToTell
    <3>2. CASE k # n + 1
      <4>1. k \in 1 .. n /\ n + 1 \in k + 1 .. n + 1 /\ \A m \in k + 1 .. n : m \in k + 1 .. n + 1
        BY <1>1, <3>2
      <4>2. ~ Tells(els, n + 1, ie) /\ LastToTell(els, k, n, ie)
        BY <2>2, <4>1 DEF LastToTell
      <4>3. fields[ie] = ies[ie] /\ Told(els, b, k, ie, ies[ie])
        BY <1>2, <4>1, <4>2 DEF Read, Values
      <4>4. QED
        BY <4>3
    <3>3. QED
      BY <3>1, <3>2
  <2>3. QED
    BY <2>1, <2>2 DEF Values
<1>6. Kept(els, b, n + 1, bytes)
  <2>1. ASSUME NEW k \in 1 .. n + 1, NEW j \in 1 .. Len(els[k].data)
        PROVE  bytes[Len(b[k - 1]) + 2 + j] = els[k].data[j]
    <3> DEFINE before == Len(b[k - 1])
               size == Len(els[k].data)
               i == before + 2 + j
    <3>1. /\ before \in Nat /\ size \in Nat /\ j \in 1 .. size
          /\ Len(b[k]) = before + size + 2 /\ Len(b[k]) <= Len(b[Len(els)])
      BY <1>4
    <3>2. Len(b[Len(els)]) \in Nat
      BY <1>1, LenProperties DEF Whole
    <3> DEFINE all == Len(b[Len(els)])
               here == Len(b[k])
    <3> HIDE DEF before, size, all, here
    <3>3. i \in 1 .. all /\ i <= here /\ i > before + 1 /\ here \in Nat
      BY <3>1, <3>2 DEF all, here
    <3>4. CASE k = n + 1
      <4>1. before = start
        BY <1>1, <3>4 DEF before
      <4>2. i # start + 1
        BY <3>1, <3>3, <4>1
      <4>3. bytes[i] = mem[i]
        BY <3>3, <4>2 DEF all
      <4>4. mem[i] = els[k].data[j]
        BY <3>4, <4>1 DEF Arrived
      <4>5. QED
        BY <4>3, <4>4 DEF before
    <3>5. CASE k # n + 1
      <4>1. k \in 1 .. n /\ k \in 0 .. n
        BY <1>1, <3>5
      <4>2. here <= start
        BY <1>3, <4>1 DEF here
      <4>3. i # start + 1
        BY <3>1, <3>3, <4>2
      <4>4. bytes[i] = mem[i]
        BY <3>3, <4>3 DEF all
      <4>5. mem[i] = els[k].data[j]
        BY <4>1 DEF Read, Kept, before
      <4>6. QED
        BY <4>4, <4>5 DEF before
    <3>6. QED
      BY <3>4, <3>5
  <2>2. QED
    BY <2>1 DEF Kept
<1>7. Apart(els, b, n + 1, bytes)
  <2>1. ASSUME NEW k \in 1 .. n PROVE bytes[Len(b[k]) + 1] = 0
    <3>1. CASE k = n
      BY <1>1, <3>1
    <3>2. CASE k # n
      <4> DEFINE i == Len(b[k]) + 1
      <4>1. k \in 1 .. n - 1 /\ k + 1 \in 1 .. n + 1 /\ k + 1 \in 0 .. n /\ (k + 1) - 1 = k /\ k \in 0 .. n
        BY <1>1, <3>2
      <4>2. /\ Len(b[k]) \in Nat /\ Len(els[k + 1].data) \in Nat
            /\ Len(b[k + 1]) = Len(b[k]) + Len(els[k + 1].data) + 2
            /\ Len(b[k + 1]) <= Len(b[Len(els)]) /\ Len(b[k + 1]) <= start
        BY <1>3, <1>4, <4>1
      <4>3. Len(b[Len(els)]) \in Nat
        BY <1>1, LenProperties DEF Whole
      <4> DEFINE x == Len(b[k])
                 y == Len(els[k + 1].data)
                 z == Len(b[Len(els)])
                 v == Len(b[k + 1])
      <4>4. x \in Nat /\ y \in Nat /\ z \in Nat /\ v = x + y + 2 /\ v <= z /\ v <= start
        BY <4>2, <4>3
      <4> HIDE DEF x, y, z, v
      <4>5. x + 1 \in 1 .. z /\ x + 1 # start + 1
        BY <4>4
      <4>6. bytes[i] = mem[i]
        BY <4>5 DEF x, z
      <4>7. mem[i] = 0
        BY <4>1 DEF Read, Apart
      <4>8. QED
        BY <4>6, <4>7
    <3>3. QED
      BY <3>1, <3>2
  <2>2. QED
    BY <1>1, <2>1 DEF Apart
<1>8. QED
  BY <1>5, <1>6, <1>7 DEF Read

(* On the way through a message of short elements, behind the n-th of them. *)
Along(b, n) ==
  /\ Whole(sent, b) /\ msg = b[Len(sent)] /\ n \in 0 .. Len(sent)
  /\ at = Len(b[n]) + 1 /\ Read(sent, b, n, ies, mem)
  /\ pc = "done" => n = Len(sent) /\ mem[at] = 0

Walked ==
  pc \in {"parse", "done", "error"} /\ Short(sent) /\ msg = Message(sent) =>
    /\ pc # "error" /\ Len(mem) = Len(msg) + 1
    /\ \E b, n : Along(b, n)

Faces(b, n) ==
  /\ n = Len(sent) => left = 0
  /\ n # Len(sent) =>
       /\ n \in 0 .. Len(sent) - 1 /\ left >= 2
       /\ mem[at] = sent[n + 1].ie /\ mem[at + 1] = Len(sent[n + 1].data)
       /\ mem[at + 1] <= left - 2 /\ Len(sent[n + 1].data) \in Nat
       /\ Len(b[n + 1]) = Len(b[n]) + Len(sent[n + 1].data) + 2
       /\ Arrived(sent, n + 1, Len(b[n]))

(* What the parser has before it is the next element, or nothing. *)
LEMMA Facing ==
  ASSUME Parsing, pc = "parse", Short(sent), NEW b, NEW n, Along(b, n)
  PROVE  Faces(b, n)
<1>1. /\ sent \in Seq(Elem) /\ msg \in Seq(Byte) /\ mem \in Seq(Byte) /\ left \in Nat
      /\ at + left = Len(msg) + 1 /\ \A k \in at .. Len(msg) : mem[k] = msg[k]
  BY DEF Parsing, ParserTypeOK, InMemory, Elem
<1>2. /\ Whole(sent, b) /\ msg = b[Len(sent)] /\ n \in 0 .. Len(sent)
      /\ at = Len(b[n]) + 1
  BY DEF Along
<1>3. Len(sent) \in Nat /\ Len(b[n]) \in Nat /\ Len(msg) \in Nat
  BY <1>1, <1>2, LenProperties DEF Whole
<1>4. CASE n = Len(sent)
  <2>1. Len(b[n]) = Len(msg)
    BY <1>2, <1>4
  <2> DEFINE x == Len(msg)
  <2>2. x \in Nat /\ at = x + 1 /\ at + left = x + 1
    BY <1>1, <1>2, <1>3, <2>1
  <2> HIDE DEF x
  <2>3. left = 0
    BY <1>1, <2>2
  <2>4. QED
    BY <1>4, <2>3 DEF Faces
<1>5. CASE n # Len(sent)
  <2> DEFINE k == n + 1
             start == Len(b[n])
             d == sent[n + 1].data
             size == Len(d)
             all == Len(msg)
  <2>1. k \in 1 .. Len(sent) /\ n \in 0 .. Len(sent) - 1 /\ k - 1 = n
    BY <1>2, <1>3, <1>5
  <2>2. Said(sent, b, k)
    <3>1. Len(sent[k].data) < Base
      BY <2>1 DEF Short
    <3> HIDE DEF k
    <3>2. QED
      BY <1>1, <1>2, <2>1, <3>1, SaidAt
  <2>3. /\ start \in Nat /\ all \in Nat /\ size \in Nat
        /\ Len(b[k]) = start + size + 2 /\ Len(b[k]) <= all
        /\ msg[start + 1] = sent[k].ie /\ msg[start + 2] = size
        /\ \A j \in 1 .. size : msg[start + 2 + j] = d[j]
    BY <1>2, <2>1, <2>2 DEF Said
  <2> DEFINE here == Len(b[k])
  <2>4. at = start + 1 /\ at + left = all + 1 /\ here = start + size + 2 /\ here <= all
    BY <1>1, <1>2, <2>3
  <2> HIDE DEF start, size, all, here
  <2>5. left >= size + 2
    BY <1>1, <2>3, <2>4
  <2>6. at \in at .. all /\ at + 1 \in at .. all /\ at + 1 = start + 2
    BY <2>3, <2>4
  <2>7. mem[at] = sent[k].ie /\ mem[at + 1] = size
    BY <1>1, <2>3, <2>4, <2>6 DEF all
  <2>8. ASSUME NEW j \in 1 .. size PROVE mem[start + 2 + j] = d[j]
    <3>1. start + 2 + j \in at .. all
      BY <2>3, <2>4
    <3>2. QED
      BY <1>1, <2>3, <3>1 DEF all
  <2>9. Arrived(sent, n + 1, Len(b[n]))
    BY <2>8 DEF Arrived, start, size
  <2>10. left >= 2 /\ mem[at + 1] <= left - 2
    BY <1>1, <2>3, <2>5, <2>7
  <2>11. Len(b[n + 1]) = Len(b[n]) + Len(sent[n + 1].data) + 2
    BY <2>4 DEF here, start, size
  <2>12. size \in Nat
    BY <2>3
  <2>13. QED
    BY <1>5, <2>1, <2>7, <2>9, <2>10, <2>11, <2>12 DEF Faces, size
<1>6. QED
  BY <1>4, <1>5

(* Nothing is read yet of what has just been copied. *)
LEMMA CopyWalked ==
  ASSUME NEW message \in Seq(Byte), Copy(message), sent' \in Seq(Elem)
  PROVE  Walked'
<1>1. PICK old \in Byte : mem' = Append(message, old)
  BY DEF Copy
<1>2. Len(mem') = Len(message) + 1
  BY <1>1, AppendProperties
<1>3. pc' = "parse" /\ msg' = message /\ at' = 1 /\ ies' = Fresh
  BY DEF Copy
<1>4. ASSUME msg' = Message(sent') PROVE \E b, n : Along(b, n)'
  <2>1. PICK b : Whole(sent', b) /\ Message(sent') = b[Len(sent')]
    BY MessageParts DEF Elem
  <2>2. 0 \in 0 .. Len(sent') /\ b[0] = << >> /\ Len(b[0]) = 0
    BY <2>1, LenProperties DEF Whole
  <2>3. Read(sent', b, 0, Fresh, mem')
    BY DEF Read, Values, Kept, Apart
  <2>4. Along(b, 0)'
    BY <1>3, <1>4, <2>1, <2>2, <2>3 DEF Along
  <2>5. QED
    BY <2>4
<1>5. QED
  BY <1>2, <1>3, <1>4 DEF Walked

(* One element further. *)
LEMMA ElementWalked ==
  ASSUME Parsing, Walked, Element
  PROVE  Walked'
<1>1. /\ pc = "parse" /\ UNCHANGED <<pc, sent, msg>> /\ left >= 2
      /\ ies' = Take(mem[at], at + 2, mem[at + 1]) /\ mem' = [mem EXCEPT ![at] = 0]
      /\ at' = at + mem[at + 1] + 2
  BY DEF Element, Cut
<1>2. /\ sent \in Seq(Elem) /\ msg \in Seq(Byte) /\ mem \in Seq(Byte) /\ at \in Nat /\ at > 0
      /\ at + left = Len(msg) + 1 /\ Len(mem) = Len(msg) + 1 /\ ies \in [Fields -> Int]
      /\ left \in Nat
  BY <1>1 DEF Parsing, ParserTypeOK, InMemory, Behind, Elem
<1>3. Len(msg) \in Nat /\ at \in 1 .. Len(mem)
  BY <1>1, <1>2, LenProperties
<1>4. /\ Len(mem') = Len(mem) /\ mem'[at] = 0
      /\ \A i \in 1 .. Len(mem) : i # at => mem'[i] = mem[i]
  <2>1. 0 \in Byte
    BY BytesAssumption DEF Byte
  <2>2. QED
    BY <1>1, <1>2, <1>3, <2>1, ExceptSeq
<1>5. SUFFICES ASSUME Short(sent), msg = Message(sent) PROVE \E b, n : Along(b, n)'
  BY <1>1, <1>2, <1>4 DEF Walked
<1>6. PICK b, n : Along(b, n)
  BY <1>1, <1>5 DEF Walked
<1>7. Faces(b, n)
  BY <1>1, <1>5, <1>6, Facing
<1>8. /\ Whole(sent, b) /\ msg = b[Len(sent)] /\ n \in 0 .. Len(sent)
      /\ at = Len(b[n]) + 1 /\ Read(sent, b, n, ies, mem)
  BY <1>6 DEF Along
<1> DEFINE start == Len(b[n])
           size == Len(sent[n + 1].data)
           all == Len(msg)
<1>9. n # Len(sent)
  BY <1>1, <1>7 DEF Faces
<1>10. /\ n \in 0 .. Len(sent) - 1 /\ mem[at] = sent[n + 1].ie /\ mem[at + 1] = size
       /\ size \in Nat /\ Len(b[n + 1]) = start + size + 2 /\ Arrived(sent, n + 1, start)
  BY <1>7, <1>9 DEF Faces
<1>11. start \in Nat /\ n + 1 \in 0 .. Len(sent)
  <2>1. b[n] \in Seq(Byte)
    BY <1>8 DEF Whole
  <2>2. QED
    BY <1>2, <1>10, <2>1, LenProperties
<1>12. Taken(sent, n + 1, start, ies')
  <2>1. at + 2 = start + 3
    BY <1>8, <1>11
  <2>2. QED
    BY <1>1, <1>10, <2>1 DEF Taken
<1>13. Read(sent, b, n + 1, ies', mem')
  <2>1. at = start + 1
    BY <1>8
  <2>2. \A i \in 1 .. Len(b[Len(sent)]) : i # start + 1 => mem'[i] = mem[i]
    <3>1. b[Len(sent)] = msg
      BY <1>8
    <3>2. \A i \in 1 .. all : i \in 1 .. Len(mem)
      BY <1>2, <1>3
    <3>3. QED
      BY <1>4, <2>1, <3>1, <3>2
  <2>3. mem'[start + 1] = 0
    BY <1>4, <2>1
  <2> HIDE DEF start
  <2>4. start = Len(b[n])
    BY DEF start
  <2>5. QED
    BY <1>2, <1>8, <1>10, <1>11, <1>12, <2>2, <2>3, <2>4, OneMore
<1>14. at' = Len(b[n + 1]) + 1
  <2> DEFINE here == Len(b[n + 1])
  <2>1. at' = at + size + 2 /\ here = start + size + 2 /\ at = start + 1
    BY <1>1, <1>8, <1>10
  <2> HIDE DEF here, start, size
  <2>2. at' = here + 1
    BY <1>2, <1>10, <1>11, <2>1
  <2>3. QED
    BY <2>2 DEF here
<1>15. Along(b, n + 1)'
  BY <1>1, <1>8, <1>11, <1>13, <1>14 DEF Along
<1>16. QED
  BY <1>15

(* The end of the message is the end of its last element. *)
LEMMA FinishWalked ==
  ASSUME Parsing, Walked, Finish
  PROVE  Walked'
<1>1. /\ pc = "parse" /\ UNCHANGED <<sent, msg, at, left, ies>> /\ left < 2
      /\ mem' = [mem EXCEPT ![at] = 0] /\ pc' = IF left = 0 THEN "done" ELSE "error"
  BY DEF Finish, Cut
<1>2. /\ sent \in Seq(Elem) /\ msg \in Seq(Byte) /\ mem \in Seq(Byte) /\ at \in Nat /\ at > 0
      /\ at + left = Len(msg) + 1 /\ Len(mem) = Len(msg) + 1 /\ left \in Nat
  BY <1>1 DEF Parsing, ParserTypeOK, InMemory, Behind, Elem
<1>3. Len(msg) \in Nat /\ at \in 1 .. Len(mem)
  BY <1>1, <1>2, LenProperties
<1>4. /\ Len(mem') = Len(mem) /\ mem'[at] = 0
      /\ \A i \in 1 .. Len(mem) : i # at => mem'[i] = mem[i]
  <2>1. 0 \in Byte
    BY BytesAssumption DEF Byte
  <2>2. QED
    BY <1>1, <1>2, <1>3, <2>1, ExceptSeq
<1>5. SUFFICES ASSUME Short(sent), msg = Message(sent)
               PROVE  pc' # "error" /\ \E b, n : Along(b, n)'
  BY <1>1, <1>2, <1>4 DEF Walked
<1>6. PICK b, n : Along(b, n)
  BY <1>1, <1>5 DEF Walked
<1>7. Faces(b, n)
  BY <1>1, <1>5, <1>6, Facing
<1>8. /\ Whole(sent, b) /\ msg = b[Len(sent)] /\ n \in 0 .. Len(sent)
      /\ at = Len(b[n]) + 1 /\ Read(sent, b, n, ies, mem)
  BY <1>6 DEF Along
<1>9. n = Len(sent) /\ left = 0
  <2>1. n # Len(sent) => left >= 2
    BY <1>7 DEF Faces
  <2>2. n = Len(sent)
    BY <1>1, <1>2, <2>1
  <2>3. QED
    BY <1>7, <2>2 DEF Faces
<1>10. pc' = "done"
  BY <1>1, <1>9
<1>11. ASSUME NEW k \in 1 .. n
       PROVE  /\ Len(b[k - 1]) \in Nat /\ Len(sent[k].data) \in Nat
              /\ Len(b[k]) = Len(b[k - 1]) + Len(sent[k].data) + 2
              /\ Len(b[k]) <= Len(msg)
  <2>1. k \in 1 .. Len(sent) /\ k \in 0 .. Len(sent) /\ Len(sent) \in k .. Len(sent)
    BY <1>2, <1>8, <1>9, LenProperties
  <2>2. PartFits(sent, b, k)
    BY <1>2, <1>8, <2>1, PartIs
  <2>3. sent[k] \in Elem /\ Begins(b[k], b[Len(sent)])
    BY <1>2, <1>8, <2>1, <2>2, Grows DEF PartFits
  <2>4. Len(sent[k].data) \in Nat
    BY <2>3, LenProperties DEF Elem
  <2>5. QED
    BY <1>8, <2>2, <2>3, <2>4 DEF PartFits, Begins
<1>12. \A i \in 1 .. Len(msg) : mem'[i] = mem[i]
  <2>1. Len(b[n]) = Len(msg)
    BY <1>8, <1>9
  <2> DEFINE x == Len(msg)
             y == Len(mem)
  <2>2. at = x + 1 /\ y = x + 1 /\ x \in Nat
    BY <1>2, <1>3, <1>8, <2>1
  <2> HIDE DEF x, y
  <2>3. \A i \in 1 .. x : i \in 1 .. y /\ i # at
    BY <2>2
  <2>4. QED
    BY <1>4, <2>3 DEF x, y
<1>13. Kept(sent, b, n, mem')
  <2>1. ASSUME NEW k \in 1 .. n, NEW j \in 1 .. Len(sent[k].data)
        PROVE  mem'[Len(b[k - 1]) + 2 + j] = sent[k].data[j]
    <3> DEFINE before == Len(b[k - 1])
               size == Len(sent[k].data)
               here == Len(b[k])
               all == Len(msg)
    <3>1. /\ before \in Nat /\ size \in Nat /\ j \in 1 .. size
          /\ here = before + size + 2 /\ here <= all /\ all \in Nat
      BY <1>3, <1>11
    <3> HIDE DEF before, size, all, here
    <3>2. before + 2 + j \in 1 .. all
      BY <3>1
    <3>3. mem'[before + 2 + j] = mem[before + 2 + j]
      BY <1>12, <3>2 DEF all
    <3>4. QED
      BY <1>8, <3>3 DEF Read, Kept, before
  <2>2. QED
    BY <2>1 DEF Kept
<1>14. Apart(sent, b, n, mem')
  <2>1. ASSUME NEW k \in 1 .. n - 1 PROVE mem'[Len(b[k]) + 1] = 0
    <3>1. k + 1 \in 1 .. n /\ (k + 1) - 1 = k
      BY <1>8
    <3> DEFINE x == Len(b[k])
               y == Len(sent[k + 1].data)
               z == Len(b[k + 1])
               all == Len(msg)
    <3>2. x \in Nat /\ y \in Nat /\ z = x + y + 2 /\ z <= all /\ all \in Nat
      BY <1>3, <1>11, <3>1
    <3> HIDE DEF x, y, z, all
    <3>3. x + 1 \in 1 .. all
      BY <3>2
    <3>4. mem'[x + 1] = mem[x + 1]
      BY <1>12, <3>3 DEF all
    <3>5. QED
      BY <1>8, <3>4 DEF Read, Apart, x
  <2>2. QED
    BY <2>1 DEF Apart
<1>15. Read(sent, b, n, ies, mem')
  BY <1>8, <1>13, <1>14 DEF Read
<1>16. Along(b, n)'
  BY <1>1, <1>4, <1>8, <1>9, <1>15 DEF Along
<1>17. QED
  BY <1>10, <1>16

(* A message is not cut off. *)
LEMMA TooLongWalked ==
  ASSUME Parsing, Walked, TooLong
  PROVE  Walked'
<1>1. /\ pc = "parse" /\ left >= 2 /\ mem[at + 1] > left - 2
      /\ UNCHANGED <<sent, msg, mem, at, left, ies>>
  BY DEF TooLong
<1>2. SUFFICES ASSUME Short(sent), msg = Message(sent) PROVE FALSE
  BY <1>1 DEF Walked
<1>3. PICK b, n : Along(b, n)
  BY <1>1, <1>2 DEF Walked
<1>4. Faces(b, n)
  BY <1>1, <1>2, <1>3, Facing
<1>5. n # Len(sent)
  BY <1>1, <1>4 DEF Faces
<1>6. mem[at + 1] <= left - 2 /\ mem[at + 1] = Len(sent[n + 1].data) /\ Len(sent[n + 1].data) \in Nat
  BY <1>4, <1>5 DEF Faces
<1>7. left \in Nat
  BY DEF Parsing, ParserTypeOK
<1> DEFINE x == mem[at + 1]
<1>8. x <= left - 2 /\ x > left - 2 /\ x \in Nat
  BY <1>1, <1>6
<1> HIDE DEF x
<1>9. QED
  BY <1>7, <1>8

-----------------------------------------------------------------------------
(* What is no message *)

(* What arrived is the message of what was sent, or none of any elements. *)
Origin ==
  /\ pc = "build" => msg = Message(sent)
  /\ pc \in {"parse", "done", "error"} =>
       \/ msg = Message(sent)
       \/ msg \in Garbled /\ sent = << >>

(* It begins with the message of these elements, and they are as large as they can
   be at most. *)
Likely(els) ==
  /\ els \in Seq(Elem) /\ Short(els)
  /\ Len(Message(els)) = at - 1 /\ Begins(Message(els), msg)
  /\ 2 * Len(els) <= at - 1
  /\ \A k \in 1 .. Len(els) : Len(els[k].data) + 2 * Len(els) <= at - 1

Unread ==
  pc \in {"parse", "done"} /\ msg \in Garbled => pc = "parse" /\ \E els : Likely(els)

Small(els, size) ==
  /\ Len(Message(els)) = size /\ 2 * Len(els) <= size
  /\ \A k \in 1 .. Len(els) : Len(els[k].data) + 2 * Len(els) <= size

(* Elements that make a message of no more than MaxForeign bytes are among Parts. *)
LEMMA LikelyParts ==
  ASSUME NEW els \in Seq(Elem), Short(els), NEW size \in Nat, size <= MaxForeign, Small(els, size)
  PROVE  els \in Parts
<1> DEFINE n == Len(els)
<1>1. n \in Nat /\ els \in [1 .. n -> Elem] /\ MaxForeign \in Nat
  BY LenProperties, BytesAssumption
<1>2. 2 * n <= MaxForeign /\ \A k \in 1 .. n : Len(els[k].data) < Base
  BY <1>1 DEF Short, Small
<1>3. ASSUME NEW k \in 1 .. n PROVE els[k] \in [ie : Byte, data : Strewn(MaxForeign - 2 * n)]
  <2> DEFINE d == els[k].data
             m == Len(d)
  <2>1. els[k] \in Elem /\ m + 2 * n <= size
    BY <1>1 DEF Small
  <2>2. d \in Seq(Byte)
    BY <2>1 DEF Elem
  <2>3. m \in Nat /\ d \in [1 .. m -> Byte]
    <3> HIDE DEF d
    <3>1. QED
      BY <2>2, LenProperties
  <2> HIDE DEF m, n
  <2>4. m \in 0 .. MaxForeign - 2 * n
    BY <1>1, <2>1, <2>3
  <2>5. d \in Strewn(MaxForeign - 2 * n)
    BY <2>3, <2>4 DEF Strewn
  <2>6. QED
    BY <2>1, <2>5 DEF Elem
<1>4. Len(Message(els)) <= MaxForeign
  BY <1>1 DEF Small
<1> HIDE DEF n
<1>5. n \in 0 .. MaxForeign \div 2
  BY <1>1, <1>2
<1>6. els \in [1 .. n -> [ie : Byte, data : Strewn(MaxForeign - 2 * n)]]
  BY <1>1, <1>3
<1>7. QED
  BY <1>2, <1>4, <1>5, <1>6 DEF Parts

(* What is no message has a length, and is not empty. *)
LEMMA GarbledIs ==
  ASSUME NEW bytes \in Garbled
  PROVE  /\ bytes \in Seq(Byte) /\ Len(bytes) <= MaxForeign
         /\ bytes # Message(<< >>) /\ \A els \in Parts : bytes # Message(els)
<1>1. MaxForeign \in Nat /\ bytes \in Strewn(MaxForeign)
  BY BytesAssumption DEF Garbled
<1>2. PICK m \in 0 .. MaxForeign : bytes \in [1 .. m -> Byte]
  BY <1>1 DEF Strewn
<1>3. bytes \in Seq(Byte) /\ Len(bytes) = m
  BY <1>2, FunctionIsSeq
<1>4. \A els \in Parts : bytes # Message(els)
  BY DEF Garbled
<1>5. << >> \in Parts
  <2>1. << >> \in Seq(Elem) /\ Len(<< >>) = 0 /\ Len(Message(<< >>)) = 0
    BY MessageGrows
  <2>2. Short(<< >>) /\ 2 * Len(<< >>) <= 0
    BY <2>1 DEF Short
  <2>3. \A k \in 1 .. Len(<< >>) : Len((<< >>)[k].data) + 2 * Len(<< >>) <= 0
    BY <2>1
  <2>4. Small(<< >>, 0)
    BY <2>1, <2>2, <2>3 DEF Small
  <2>5. 0 \in Nat /\ 0 <= MaxForeign
    BY <1>1
  <2>6. QED
    BY <2>1, <2>2, <2>4, <2>5, LikelyParts
<1>6. QED
  BY <1>2, <1>3, <1>4, <1>5

LEMMA CopyUnread ==
  ASSUME NEW message \in Seq(Byte), Copy(message)
  PROVE  Unread'
<1>1. pc' = "parse" /\ msg' = message /\ at' = 1
  BY DEF Copy
<1>2. << >> \in Seq(Elem) /\ Len(<< >>) = 0 /\ Message(<< >>) = << >>
  BY MessageGrows
<1>3. Len(message) \in Nat
  BY LenProperties
<1>4. Likely(<< >>)'
  BY <1>1, <1>2, <1>3 DEF Likely, Short, Begins
<1>5. QED
  BY <1>1, <1>4 DEF Unread

(* One element further, it is still likely. *)
LEMMA ElementUnread ==
  ASSUME Parsing, Unread, Element
  PROVE  Unread'
<1>1. /\ pc = "parse" /\ UNCHANGED <<pc, sent, msg>> /\ left >= 2
      /\ mem[at + 1] <= left - 2 /\ at' = at + mem[at + 1] + 2
  BY DEF Element
<1>2. /\ msg \in Seq(Byte) /\ mem \in Seq(Byte) /\ at \in Nat /\ at > 0 /\ left \in Nat
      /\ at + left = Len(msg) + 1 /\ Len(mem) = Len(msg) + 1
      /\ \A k \in at .. Len(msg) : mem[k] = msg[k]
  BY <1>1 DEF Parsing, ParserTypeOK, InMemory, Behind
<1> DEFINE all == Len(msg)
           len == msg[at + 1]
<1>3. all \in Nat /\ at + left = all + 1
  BY <1>2, LenProperties
<1>4. /\ at \in 1 .. all /\ at + 1 \in 1 .. all
      /\ at \in at .. all /\ at + 1 \in at .. all
  <2> HIDE DEF all
  <2>1. QED
    BY <1>1, <1>2, <1>3
<1>5. \A k \in 1 .. all : msg[k] \in Byte
  BY <1>2, ElementOfSeq
<1>6. mem[at + 1] = len /\ len \in Byte /\ len \in Nat /\ len < Base
  <2>1. Byte \subseteq Nat /\ \A x \in Byte : x < Base
    BY BytesAssumption DEF Byte
  <2>2. QED
    BY <1>2, <1>4, <1>5, <2>1
<1>7. len <= left - 2 /\ at' = at + len + 2
  BY <1>1, <1>6
<1>8. SUFFICES ASSUME msg \in Garbled PROVE \E els : Likely(els)'
  BY <1>1 DEF Unread
<1>9. PICK els : Likely(els)
  BY <1>1, <1>8 DEF Unread
<1> HIDE DEF all, len
<1>10. PICK data \in Seq(Byte) :
         Len(data) = len /\ \A i \in 1 .. len : data[i] = msg[at + 2 + i - 1]
  <2> DEFINE first == at + 2
             last == at + len + 1
  <2>1. first \in Int /\ last \in Int /\ \A i \in first .. last : i \in 1 .. all
    BY <1>1, <1>2, <1>3, <1>6, <1>7
  <2>2. \A i \in first .. last : msg[i] \in Byte
    BY <1>5, <2>1
  <2>3. last - first + 1 = len /\ (IF first <= last THEN last - first + 1 ELSE 0) = len
    BY <1>2, <1>6
  <2> HIDE DEF first, last
  <2>4. /\ SubSeq(msg, first, last) \in Seq(Byte)
        /\ Len(SubSeq(msg, first, last)) = IF first <= last THEN last - first + 1 ELSE 0
        /\ \A i \in 1 .. last - first + 1 : SubSeq(msg, first, last)[i] = msg[first + i - 1]
    BY <2>1, <2>2, SubSeqProperties
  <2>5. QED
    BY <2>3, <2>4 DEF first, last
<1>11. PICK e \in Elem : e.ie = msg[at] /\ e.data = data
  <2>1. [ie |-> msg[at], data |-> data] \in Elem
    BY <1>4, <1>5 DEF Elem
  <2>2. QED
    BY <2>1
<1> DEFINE more == Append(els, e)
           M == Message(els)
           P == Encoded(e.ie, e.data)
           N == Len(els)
           here == at - 1
           there == at' - 1
<1>12. /\ els \in Seq(Elem) /\ Short(els) /\ N \in Nat
       /\ Len(M) = at - 1 /\ Begins(M, msg) /\ 2 * N <= at - 1
       /\ \A k \in 1 .. N : Len(els[k].data) + 2 * N <= at - 1
  BY <1>9, LenProperties DEF Likely
<1>13. /\ P \in Seq(Byte) /\ Len(P) = len + 2 /\ P[1] = msg[at] /\ P[2] = len
       /\ \A j \in 1 .. len : P[j + 2] = data[j]
  <2>1. len % Base = len
    BY <1>6, Cropped
  <2>2. /\ P \in Seq(Byte) /\ Len(P) = Len(data) + 2 /\ P[1] = msg[at]
        /\ P[2] = Len(data) % Base /\ \A j \in 1 .. Len(data) : P[j + 2] = data[j]
    BY <1>11, PieceIs
  <2>3. QED
    BY <1>10, <2>1, <2>2
<1>14. M \in Seq(Byte)
  BY <1>12, MessageType DEF Elem
<1>15. /\ more \in Seq(Elem) /\ Len(more) = N + 1 /\ more[N + 1] = e
       /\ \A k \in 1 .. N : more[k] = els[k]
  BY <1>11, <1>12, AppendProperties
<1>16. Message(more) = M \o P
  BY <1>11, <1>12, MessageGrows
<1> HIDE DEF M, P, more, N
<1>17. /\ Len(M \o P) = Len(M) + Len(P)
       /\ \A i \in 1 .. Len(M) + Len(P) : (M \o P)[i] = IF i <= Len(M) THEN M[i] ELSE P[i - Len(M)]
  BY <1>13, <1>14, ConcatProperties
<1>18. /\ here \in Nat /\ at = here + 1 /\ there = here + (len + 2) /\ there \in Nat
       /\ there <= all
  BY <1>2, <1>3, <1>6, <1>7
<1>19. N \in Nat /\ 2 * N <= here
  BY <1>12
<1>20. Len(M) = here /\ Len(P) = len + 2 /\ \A i \in 1 .. here : msg[i] = M[i]
  <2>1. Len(M) = here
    BY <1>12
  <2>2. \A i \in 1 .. Len(M) : msg[i] = M[i]
    BY <1>12 DEF Begins
  <2>3. QED
    BY <1>13, <2>1, <2>2
<1>21. \A k \in 1 .. N : Len(els[k].data) + 2 * N <= here
  BY <1>12
<1> HIDE DEF here, there
<1>22. /\ Len(Message(more)) = there
       /\ \A i \in 1 .. there : Message(more)[i] = IF i <= here THEN M[i] ELSE P[i - here]
  <2> DEFINE lm == Len(M)
             lp == Len(P)
  <2>1. lm = here /\ lp = len + 2
    BY <1>20
  <2>2. /\ Len(M \o P) = lm + lp
        /\ \A i \in 1 .. lm + lp : (M \o P)[i] = IF i <= lm THEN M[i] ELSE P[i - lm]
    BY <1>17
  <2> HIDE DEF lm, lp
  <2>3. lm + lp = there
    BY <1>18, <2>1
  <2>4. QED
    BY <1>16, <2>1, <2>2, <2>3
<1>23. ASSUME NEW i \in 1 .. there PROVE msg[i] = Message(more)[i]
  <2>1. CASE i <= here
    BY <1>18, <1>20, <1>22, <2>1
  <2>2. CASE ~ (i <= here)
    <3> DEFINE j == i - here
    <3>1. j \in 1 .. len + 2 /\ i = here + j
      BY <1>6, <1>18, <2>2
    <3>2. Message(more)[i] = P[j]
      BY <1>22, <2>2
    <3> HIDE DEF j
    <3>3. CASE j = 1
      <4>1. i = at
        BY <1>18, <3>1, <3>3
      <4>2. QED
        BY <1>13, <3>2, <3>3, <4>1
    <3>4. CASE j = 2
      <4>1. i = at + 1
        BY <1>18, <3>1, <3>4
      <4>2. QED
        BY <1>13, <3>2, <3>4, <4>1 DEF len
    <3>5. CASE j > 2
      <4>1. j - 2 \in 1 .. len /\ (j - 2) + 2 = j /\ at + 2 + (j - 2) - 1 = i
        BY <1>6, <1>18, <3>1, <3>5
      <4>2. P[j] = data[j - 2] /\ data[j - 2] = msg[i]
        BY <1>10, <1>13, <4>1
      <4>3. QED
        BY <3>2, <4>2
    <3>6. QED
      BY <1>6, <3>1, <3>3, <3>4, <3>5
  <2>3. QED
    BY <2>1, <2>2
<1>24. Begins(Message(more), msg)
  <2> DEFINE size == Len(Message(more))
  <2>1. size = there
    BY <1>22
  <2> HIDE DEF size
  <2>2. size <= all /\ \A i \in 1 .. size : msg[i] = Message(more)[i]
    BY <1>18, <1>23, <2>1
  <2>3. QED
    BY <2>2 DEF Begins, all, size
<1>25. 2 * (N + 1) <= there
  BY <1>6, <1>18, <1>19
<1>26. ASSUME NEW k \in 1 .. N + 1
       PROVE  Len(more[k].data) < Base /\ Len(more[k].data) + 2 * (N + 1) <= there
  <2> DEFINE y == Len(more[k].data)
  <2>1. CASE k = N + 1
    <3>1. y = len
      BY <1>10, <1>11, <1>15, <2>1
    <3> HIDE DEF y
    <3>2. y < Base /\ y + 2 * (N + 1) <= there
      BY <1>6, <1>18, <1>19, <3>1
    <3>3. QED
      BY <3>2 DEF y
  <2>2. CASE k # N + 1
    <3>1. k \in 1 .. N /\ more[k] = els[k]
      BY <1>15, <1>19, <2>2
    <3>2. y = Len(els[k].data)
      BY <3>1
    <3>3. y \in Nat
      <4>1. els[k] \in Elem
        BY <1>12, <3>1, ElementOfSeq DEF N
      <4>2. els[k].data \in Seq(Byte)
        BY <4>1 DEF Elem
      <4>3. QED
        BY <3>2, <4>2, LenProperties
    <3>4. y < Base /\ y + 2 * N <= here
      BY <1>12, <1>21, <3>1, <3>2 DEF Short, N
    <3> HIDE DEF y
    <3>5. y + 2 * (N + 1) <= there
      BY <1>6, <1>18, <1>19, <3>3, <3>4
    <3>6. QED
      BY <3>4, <3>5 DEF y
  <2>3. QED
    BY <2>1, <2>2
<1>27. msg' = msg /\ Len(more) = N + 1 /\ there = at' - 1
  BY <1>1, <1>15 DEF there
<1>28. Likely(more)'
  <2>1. Short(more)
    BY <1>26, <1>27 DEF Short
  <2>2. 2 * Len(more) <= there /\ \A k \in 1 .. Len(more) : Len(more[k].data) + 2 * Len(more) <= there
    BY <1>25, <1>26, <1>27
  <2>3. Len(Message(more)) = there
    BY <1>22
  <2>4. QED
    BY <1>15, <1>24, <1>27, <2>1, <2>2, <2>3 DEF Likely
<1>29. QED
  BY <1>28

(* What is no message is not taken for one. *)
LEMMA FinishUnread ==
  ASSUME Parsing, Unread, Finish
  PROVE  Unread'
<1>1. /\ pc = "parse" /\ UNCHANGED <<sent, msg, at, left, ies>>
      /\ pc' = IF left = 0 THEN "done" ELSE "error"
  BY DEF Finish
<1>2. msg \in Seq(Byte) /\ at \in Nat /\ left \in Nat /\ at + left = Len(msg) + 1
  BY <1>1 DEF Parsing, ParserTypeOK, InMemory
<1>3. SUFFICES ASSUME msg \in Garbled, left = 0 PROVE FALSE
  BY <1>1 DEF Unread
<1>4. PICK els : Likely(els)
  BY <1>1, <1>3 DEF Unread
<1> DEFINE size == Len(msg)
           M == Message(els)
<1>5. size \in Nat /\ at - 1 = size
  BY <1>2, <1>3, LenProperties
<1>6. /\ els \in Seq(Elem) /\ Short(els) /\ Len(M) = size /\ Begins(M, msg)
      /\ 2 * Len(els) <= size /\ \A k \in 1 .. Len(els) : Len(els[k].data) + 2 * Len(els) <= size
  <2> HIDE DEF size
  <2>1. QED
    BY <1>4, <1>5 DEF Likely
<1>7. size <= MaxForeign /\ \A s \in Parts : msg # Message(s)
  BY <1>3, GarbledIs
<1>8. els \in Parts
  <2>1. Small(els, size)
    BY <1>6 DEF Small
  <2> HIDE DEF size
  <2>2. QED
    BY <1>5, <1>6, <1>7, <2>1, LikelyParts
<1>9. M = msg
  <2>1. M \in Seq(Byte)
    BY <1>6, MessageType DEF Elem
  <2> HIDE DEF M
  <2>2. Len(M) = Len(msg) /\ \A i \in 1 .. Len(M) : M[i] = msg[i]
    BY <1>6 DEF Begins
  <2>3. QED
    BY <1>2, <2>1, <2>2, SeqEqual
<1>10. QED
  BY <1>7, <1>8, <1>9

-----------------------------------------------------------------------------
(* The parser understands *)

Following == Parsing /\ Origin /\ Walked /\ Unread

LEMMA InitFollowing == ParserInit => Following
<1> SUFFICES ASSUME ParserInit PROVE Following
  OBVIOUS
<1>1. pc = "build" /\ sent = << >> /\ msg = << >>
  BY DEF ParserInit
<1>2. Origin /\ Walked /\ Unread
  BY <1>1, MessageGrows DEF Origin, Walked, Unread
<1>3. QED
  BY <1>2, InitParsing DEF Following

(* What is built is the message of what was sent. *)
LEMMA AppendFollowing ==
  ASSUME Following, NEW ie \in Byte, NEW data \in Seq(Byte), AppendRaw(ie, data)
  PROVE  Following'
<1>1. Parsing'
  BY AppendParsing DEF Following
<1>2. pc = "build" /\ pc' \in {"build", "overrun"}
  BY DEF AppendRaw
<1>3. Walked' /\ Unread'
  BY <1>2 DEF Walked, Unread
<1>4. ASSUME pc' = "build" PROVE msg' = Message(sent')
  <2>1. msg = Message(sent) /\ sent \in Seq(Elem)
    BY <1>2 DEF Following, Origin, Parsing, ParserTypeOK, Elem
  <2>2. CASE UNCHANGED <<msg, sent>>
    BY <2>1, <2>2
  <2>3. CASE msg' = msg \o Encoded(ie, data) /\ sent' = Append(sent, [ie |-> ie, data |-> data])
    <3> DEFINE e == [ie |-> ie, data |-> data]
    <3>1. e \in Elem /\ e.ie = ie /\ e.data = data
      BY DEF Elem
    <3> HIDE DEF e
    <3>2. Message(Append(sent, e)) = Message(sent) \o Encoded(e.ie, e.data)
      BY <2>1, <3>1, MessageGrows
    <3>3. sent' = Append(sent, e) /\ msg' = msg \o Encoded(e.ie, e.data)
      BY <2>3, <3>1 DEF e
    <3>4. QED
      BY <2>1, <3>2, <3>3
  <2>4. QED
    BY <1>2, <1>4, <2>2, <2>3 DEF AppendRaw
<1>5. Origin'
  BY <1>2, <1>4 DEF Origin
<1>6. QED
  BY <1>1, <1>3, <1>5 DEF Following

(* What is received is followed from its start. *)
LEMMA CopyFollowing ==
  ASSUME Following, NEW message \in Seq(Byte), Copy(message), sent' \in Seq(Elem),
         message = Message(sent') \/ (message \in Garbled /\ sent' = << >>)
  PROVE  Following'
<1>1. Parsing'
  BY CopyParsing DEF Following, Elem
<1>2. Walked' /\ Unread'
  BY CopyWalked, CopyUnread
<1>3. pc' = "parse" /\ msg' = message
  BY DEF Copy
<1>4. Origin'
  BY <1>3 DEF Origin
<1>5. QED
  BY <1>1, <1>2, <1>4 DEF Following

(* An action of the parser does not change what it reads. *)
LEMMA ParseFollowing ==
  ASSUME Following, Element \/ TooLong \/ Finish
  PROVE  Following'
<1>1. /\ pc = "parse" /\ UNCHANGED <<sent, msg>> /\ pc' \in {"parse", "done", "error"}
  BY DEF Element, TooLong, Finish
<1>2. Origin'
  BY <1>1 DEF Following, Origin
<1>3. Parsing'
  <2>1. Element => Parsing'
    BY ElementParsing DEF Following
  <2>2. Finish => Parsing'
    BY FinishParsing DEF Following
  <2>3. TooLong => Parsing'
    BY DEF Following, TooLong, Parsing, ParserTypeOK, InMemory, Behind, Ended
  <2>4. QED
    BY <2>1, <2>2, <2>3
<1>4. Walked'
  <2>1. Parsing /\ Walked
    BY DEF Following
  <2>2. QED
    BY <2>1, ElementWalked, TooLongWalked, FinishWalked
<1>5. Unread'
  <2>1. Parsing /\ Unread
    BY DEF Following
  <2>2. TooLong => Unread'
    BY DEF TooLong, Unread
  <2>3. QED
    BY <2>1, <2>2, ElementUnread, FinishUnread
<1>6. QED
  BY <1>2, <1>3, <1>4, <1>5 DEF Following

LEMMA StepFollowing == Following /\ [ParserNext]_parserVars => Following'
<1> SUFFICES ASSUME Following, [ParserNext]_parserVars PROVE Following'
  OBVIOUS
<1>1. sent \in Seq(Elem) /\ msg \in Seq(Byte)
  BY DEF Following, Parsing, ParserTypeOK, Elem
<1>2. CASE AppendStr
  <2>1. PICK ie \in Texts, text \in Strings : AppendRaw(ie, text)
    BY <1>2 DEF AppendStr
  <2>2. ie \in Byte /\ text \in Seq(Byte)
    BY TypesAssumption, ContentsAssumption DEF Fields
  <2>3. QED
    BY <2>1, <2>2, AppendFollowing
<1>3. CASE AppendNumber
  <2>1. PICK ie \in DOMAIN Width, value \in Numbers : AppendRaw(ie, Digits(value, Width[ie]))
    BY <1>3 DEF AppendNumber
  <2>2. ie \in Byte /\ value \in Nat
    BY TypesAssumption, ContentsAssumption DEF Fields
  <2>3. Digits(value, Width[ie]) \in Seq(Byte)
    BY <2>2, DigitsType
  <2>4. QED
    BY <2>1, <2>2, <2>3, AppendFollowing
<1>4. CASE AppendAddr
  <2>1. PICK ie \in Records, address \in Addresses : AppendRaw(ie, address)
    BY <1>4 DEF AppendAddr
  <2>2. ie \in Byte /\ address \in Seq(Byte)
    BY TypesAssumption, ContentsAssumption DEF Fields
  <2>3. QED
    BY <2>1, <2>2, AppendFollowing
<1>5. CASE AppendFlag
  <2>1. PICK ie \in Flags : AppendRaw(ie, << >>)
    BY <1>5 DEF AppendFlag
  <2>2. ie \in Byte /\ << >> \in Seq(Byte)
    BY TypesAssumption DEF Fields
  <2>3. QED
    BY <2>1, <2>2, AppendFollowing
<1>6. CASE Receive
  <2>1. msg = Message(sent) /\ Copy(msg) /\ sent' = sent
    BY <1>6 DEF Receive, Following, Origin
  <2>2. QED
    BY <1>1, <2>1, CopyFollowing
<1>7. CASE ReceiveForeign
  <2>1. PICK els \in Parts : sent' = els /\ Copy(Message(els))
    BY <1>7 DEF ReceiveForeign
  <2>2. els \in Seq(Elem)
    BY PartsType DEF Elem
  <2>3. Message(els) \in Seq(Byte)
    BY <2>2, MessageType DEF Elem
  <2>4. QED
    BY <2>1, <2>2, <2>3, CopyFollowing
<1>8. CASE ReceiveGarbled
  <2>1. PICK bytes \in Garbled : Copy(bytes)
    BY <1>8 DEF ReceiveGarbled
  <2>2. bytes \in Seq(Byte)
    BY GarbledIs
  <2>3. sent' = << >> /\ sent' \in Seq(Elem)
    BY <1>1, <1>8 DEF ReceiveGarbled
  <2>4. QED
    BY <2>1, <2>2, <2>3, CopyFollowing
<1>9. CASE Element \/ TooLong \/ Finish
  BY <1>9, ParseFollowing
<1>10. CASE UNCHANGED parserVars
  <2>1. UNCHANGED <<pc, sent, msg, mem, at, left, ies>>
    BY <1>10 DEF parserVars
  <2>2. Parsing'
    BY <2>1 DEF Following, Parsing, ParserTypeOK, InMemory, Behind, Ended
  <2>3. Origin' /\ Unread'
    BY <2>1 DEF Following, Origin, Unread, Likely
  <2>4. Walked'
    BY <2>1 DEF Following, Walked, Along
  <2>5. QED
    BY <2>2, <2>3, <2>4 DEF Following
<1>11. QED
  BY <1>2, <1>3, <1>4, <1>5, <1>6, <1>7, <1>8, <1>9, <1>10 DEF ParserNext

(* A text in the copy, with a 0 behind it, is read up to its first 0. *)
LEMMA TextIs ==
  ASSUME mem \in Seq(Byte), NEW d \in Seq(Byte), NEW p \in Nat, p > 0,
         p + Len(d) <= Len(mem), mem[p + Len(d)] = 0,
         \A j \in 1 .. Len(d) : mem[p + j - 1] = d[j]
  PROVE  TextAt(p) = UpToZero(d)
<1> DEFINE size == Len(d)
           all == Len(mem)
           Zeros == {j \in 1 .. size + 1 : mem[p + j - 1] = 0}
<1>1. size \in Nat /\ all \in Nat /\ p + size <= all /\ mem[p + size] = 0
  BY LenProperties
<1>2. /\ \A j \in 1 .. size : mem[p + j - 1] = d[j]
      /\ \A j \in 1 .. all : mem[j] \in Byte
      /\ \A j \in 1 .. size : d[j] \in Byte
  BY ElementOfSeq
<1> HIDE DEF size, all
<1>3. size + 1 \in Zeros
  BY <1>1
<1>4. PICK z \in Zeros : \A m \in Zeros : z <= m
  <2>1. Zeros \subseteq Nat
    BY <1>1
  <2> HIDE DEF Zeros
  <2>2. QED
    BY <1>3, <2>1, Least
<1>5. /\ z \in 1 .. size + 1 /\ mem[p + z - 1] = 0
      /\ \A j \in 1 .. z - 1 : mem[p + j - 1] # 0
  <2>1. z \in 1 .. size + 1 /\ mem[p + z - 1] = 0
    BY <1>4
  <2>2. ASSUME NEW j \in 1 .. z - 1, mem[p + j - 1] = 0 PROVE FALSE
    <3>1. j \in Zeros
      BY <1>1, <2>1, <2>2
    <3>2. z <= j
      <4> HIDE DEF Zeros
      <4>1. QED
        BY <1>4, <3>1
    <3>3. QED
      BY <2>1, <3>2
  <2>3. QED
    BY <2>1, <2>2
<1> HIDE DEF Zeros
<1> DEFINE q == p + z - 1
<1>6. q \in p .. all /\ mem[q] = 0 /\ \A j \in p .. q - 1 : mem[j] # 0
  <2>1. ASSUME NEW j \in p .. q - 1 PROVE mem[j] # 0
    <3>1. j - p + 1 \in 1 .. z - 1 /\ p + (j - p + 1) - 1 = j
      BY <1>5
    <3>2. QED
      BY <1>5, <3>1
  <2>2. QED
    BY <1>1, <1>5, <2>1
<1>7. ASSUME NEW k \in p .. all, mem[k] = 0, \A j \in p .. k - 1 : mem[j] # 0
      PROVE  k = q
  <2> HIDE DEF q
  <2>1. ~ (q < k)
    BY <1>6, <1>7
  <2>2. ~ (k < q)
    BY <1>6, <1>7
  <2>3. QED
    BY <1>6, <2>1, <2>2
<1>8. (CHOOSE k \in p .. all : mem[k] = 0 /\ \A j \in p .. k - 1 : mem[j] # 0) = q
  <2> HIDE DEF q
  <2>1. QED
    BY <1>6, <1>7
<1>9. TextAt(p) = SubSeq(mem, p, q - 1)
  <2> HIDE DEF q
  <2>1. QED
    BY <1>8 DEF TextAt, all
<1>10. {k \in 1 .. size : \A j \in 1 .. k : d[j] # 0} = 1 .. z - 1
  <2>1. ASSUME NEW k \in 1 .. size, \A j \in 1 .. k : d[j] # 0 PROVE k \in 1 .. z - 1
    <3>1. CASE z \in 1 .. k
      <4>1. z \in 1 .. size
        BY <1>1, <1>5, <3>1
      <4>2. d[z] = 0
        BY <1>2, <1>5, <4>1
      <4>3. QED
        BY <2>1, <3>1, <4>2
    <3>2. CASE z \notin 1 .. k
      BY <1>1, <1>5, <3>2
    <3>3. QED
      BY <3>1, <3>2
  <2>2. ASSUME NEW k \in 1 .. z - 1 PROVE k \in 1 .. size /\ \A j \in 1 .. k : d[j] # 0
    <3>1. \A j \in 1 .. k : j \in 1 .. z - 1 /\ j \in 1 .. size
      BY <1>1, <1>5
    <3>2. \A j \in 1 .. k : d[j] # 0
      BY <1>2, <1>5, <3>1
    <3>3. QED
      BY <1>1, <1>5, <3>2
  <2>3. QED
    BY <2>1, <2>2
<1>11. Cardinality(1 .. z - 1) = z - 1
  <2> DEFINE x == z - 1
  <2>1. 1 \in Int /\ x \in Int /\ x >= 0
    BY <1>1, <1>5
  <2> HIDE DEF x
  <2>2. Cardinality(1 .. x) = IF 1 > x THEN 0 ELSE x - 1 + 1
    BY <2>1, FS_Interval
  <2>3. (IF 1 > x THEN 0 ELSE x - 1 + 1) = x
    BY <2>1
  <2>4. Cardinality(1 .. x) = x
    BY <2>2, <2>3
  <2>5. QED
    BY <2>4 DEF x
<1>12. UpToZero(d) = SubSeq(d, 1, z - 1)
  BY <1>10, <1>11 DEF UpToZero, size
<1>13. SubSeq(mem, p, q - 1) = SubSeq(d, 1, z - 1)
  <2> DEFINE s == SubSeq(mem, p, q - 1)
             t == SubSeq(d, 1, z - 1)
             last == q - 1
             len == z - 1
  <2>1. /\ p \in Int /\ last \in Int /\ len \in Nat /\ last - p + 1 = len
        /\ (IF p <= last THEN last - p + 1 ELSE 0) = len
        /\ (IF 1 <= len THEN len - 1 + 1 ELSE 0) = len /\ len - 1 + 1 = len
    BY <1>1, <1>5
  <2>2. \A i \in p .. last : mem[i] \in Byte
    <3>1. \A i \in p .. last : i \in 1 .. all
      BY <1>1, <1>5
    <3>2. QED
      BY <1>2, <3>1
  <2>3. \A i \in 1 .. len : d[i] \in Byte /\ mem[p + i - 1] = d[i]
    <3>1. \A i \in 1 .. len : i \in 1 .. size
      BY <1>1, <1>5
    <3>2. QED
      BY <1>2, <3>1
  <2> HIDE DEF last, len, q
  <2>4. /\ SubSeq(mem, p, last) \in Seq(Byte)
        /\ Len(SubSeq(mem, p, last)) = IF p <= last THEN last - p + 1 ELSE 0
        /\ \A i \in 1 .. last - p + 1 : SubSeq(mem, p, last)[i] = mem[p + i - 1]
    BY <2>1, <2>2, SubSeqProperties
  <2>5. /\ SubSeq(d, 1, len) \in Seq(Byte)
        /\ Len(SubSeq(d, 1, len)) = IF 1 <= len THEN len - 1 + 1 ELSE 0
        /\ \A i \in 1 .. len - 1 + 1 : SubSeq(d, 1, len)[i] = d[1 + i - 1]
    <3>1. 1 \in Int /\ len \in Int
      BY <2>1
    <3>2. QED
      BY <2>3, <3>1, SubSeqProperties
  <2>6. Len(SubSeq(mem, p, last)) = len /\ \A i \in 1 .. len : SubSeq(mem, p, last)[i] = mem[p + i - 1]
    BY <2>1, <2>4
  <2>7. Len(SubSeq(d, 1, len)) = len /\ \A i \in 1 .. len : SubSeq(d, 1, len)[i] = d[i]
    <3>1. \A i \in 1 .. len : 1 + i - 1 = i
      BY <2>1
    <3>2. QED
      BY <2>1, <2>5, <3>1
  <2>8. SubSeq(mem, p, last) = SubSeq(d, 1, len)
    <3> DEFINE u == SubSeq(mem, p, last)
               v == SubSeq(d, 1, len)
    <3>1. u \in Seq(Byte) /\ v \in Seq(Byte) /\ Len(u) = Len(v)
      BY <2>4, <2>5, <2>6, <2>7
    <3>2. \A i \in 1 .. Len(u) : u[i] = v[i]
      BY <2>3, <2>6, <2>7
    <3> HIDE DEF u, v
    <3>3. u = v
      BY <3>1, <3>2, SeqEqual
    <3>4. QED
      BY <3>3 DEF u, v
  <2>9. QED
    BY <2>8 DEF last, len
<1>14. QED
  BY <1>9, <1>12, <1>13

(* What a field tells at the end of a message. *)
Answers(ie) ==
  /\ Counts(ie) = {} => ies[ie] = Fresh[ie]
  /\ Counts(ie) # {} =>
       /\ ie \in Texts => ies[ie] # 0 /\ TextAt(ies[ie]) = UpToZero(Says(ie))
       /\ ie \in Records /\ Len(Says(ie)) = RecordSize =>
            SubSeq(mem, ies[ie], ies[ie] + RecordSize - 1) = Says(ie)
       /\ ie \in Flags => ies[ie] = 1
       /\ ie \in DOMAIN Width => Says(ie) = Digits(ies[ie], Width[ie])

(* Of the elements that have something to say of a field one is the last. *)
LEMMA LastCounts ==
  ASSUME sent \in Seq(Elem), NEW ie, Counts(ie) # {}
  PROVE  \E k \in 1 .. Len(sent) : LastToTell(sent, k, Len(sent), ie) /\ Says(ie) = sent[k].data
<1> DEFINE N == Len(sent)
           C == Counts(ie)
           Back == {m \in 0 .. N : N - m \in C}
<1>1. N \in Nat /\ C \subseteq 1 .. N /\ \A k \in 1 .. N : k \in C <=> Tells(sent, k, ie)
  BY LenProperties DEF Counts, Tells
<1> HIDE DEF N
<1>2. PICK a \in C : TRUE
  OBVIOUS
<1> HIDE DEF C
<1>3. N - a \in Back
  <2>1. a \in 1 .. N
    BY <1>1
  <2>2. N - a \in 0 .. N /\ N - (N - a) = a
    BY <1>1, <2>1
  <2>3. QED
    BY <1>2, <2>2
<1>4. PICK m \in Back : \A j \in Back : m <= j
  <2>1. Back \subseteq Nat
    BY <1>1
  <2> HIDE DEF Back
  <2>2. QED
    BY <1>3, <2>1, Least
<1> DEFINE k == N - m
<1>5. k \in C /\ k \in 1 .. N
  BY <1>1, <1>4
<1>6. ASSUME NEW j \in C PROVE j <= k
  <2>1. j \in 1 .. N
    BY <1>1
  <2>2. N - j \in 0 .. N /\ N - (N - j) = j
    BY <1>1, <2>1
  <2>3. N - j \in Back
    BY <2>2
  <2>4. m <= N - j /\ m \in 0 .. N
    <3>1. m \in 0 .. N
      BY <1>4
    <3> HIDE DEF Back
    <3>2. QED
      BY <1>4, <2>3, <3>1
  <2>5. QED
    BY <1>1, <2>1, <2>4
<1> HIDE DEF k, Back
<1>7. ASSUME NEW i \in C, \A j \in C : j <= i PROVE i = k
  <2>1. i <= k /\ k <= i
    BY <1>5, <1>6, <1>7
  <2>2. i \in 1 .. N
    BY <1>1
  <2>3. QED
    BY <1>1, <1>5, <2>1, <2>2
<1>8. (CHOOSE i \in C : \A j \in C : j <= i) = k
  BY <1>5, <1>6, <1>7
<1>9. Says(ie) = sent[k].data
  BY <1>8 DEF Says, C
<1>10. LastToTell(sent, k, N, ie)
  <2>1. ASSUME NEW j \in k + 1 .. N, Tells(sent, j, ie) PROVE FALSE
    <3>1. j \in 1 .. N
      BY <1>1, <1>5
    <3>2. j <= k
      BY <1>1, <1>6, <2>1, <3>1
    <3>3. QED
      BY <1>1, <1>5, <3>1, <3>2
  <2>2. Tells(sent, k, ie)
    BY <1>1, <1>5
  <2>3. QED
    BY <2>1, <2>2 DEF LastToTell
<1>11. QED
  BY <1>5, <1>9, <1>10 DEF N

(* At the end of a message the fields answer. *)
LEMMA AllAnswer ==
  ASSUME Parsing, pc = "done", Len(mem) = Len(msg) + 1, NEW b, NEW n, Along(b, n),
         NEW ie \in Fields
  PROVE  Answers(ie)
<1>1. /\ sent \in Seq(Elem) /\ msg \in Seq(Byte) /\ mem \in Seq(Byte)
  BY DEF Parsing, ParserTypeOK, Elem
<1>2. /\ Whole(sent, b) /\ msg = b[Len(sent)] /\ n = Len(sent)
      /\ at = Len(b[n]) + 1 /\ mem[at] = 0
      /\ Values(sent, b, n, ies) /\ Kept(sent, b, n, mem) /\ Apart(sent, b, n, mem)
  BY DEF Along, Read
<1>3. n \in Nat /\ Len(msg) \in Nat
  BY <1>1, <1>2, LenProperties
<1>4. CASE Counts(ie) = {}
  <2>1. \A k \in 1 .. n : ~ Tells(sent, k, ie)
    BY <1>2, <1>4 DEF Counts, Tells
  <2>2. ies[ie] = Fresh[ie]
    BY <1>2, <2>1 DEF Values
  <2>3. QED
    BY <1>4, <2>2 DEF Answers
<1>5. CASE Counts(ie) # {}
  <2>1. PICK k \in 1 .. Len(sent) :
          LastToTell(sent, k, Len(sent), ie) /\ Says(ie) = sent[k].data
    BY <1>1, <1>5, LastCounts
  <2>2. Told(sent, b, k, ie, ies[ie]) /\ k \in 1 .. n
    BY <1>2, <2>1 DEF Values
  <2> DEFINE d == sent[k].data
             start == Len(b[k - 1])
             p == start + 3
             size == Len(d)
             here == Len(b[k])
             all == Len(msg)
  <2>3. PartFits(sent, b, k)
    BY <1>1, <1>2, PartIs
  <2>4. d \in Seq(Byte)
    BY <2>3 DEF PartFits, Elem
  <2>5. size \in Nat
    <3> HIDE DEF d
    <3>1. QED
      BY <2>4, LenProperties
  <2>6. start \in Nat /\ here = start + size + 2
    BY <2>3 DEF PartFits
  <2>7. here <= all
    <3>1. k \in 0 .. Len(sent) /\ Len(sent) \in k .. Len(sent)
      BY <1>2, <1>3
    <3>2. Begins(b[k], b[Len(sent)])
      BY <1>1, <1>2, <3>1, Grows
    <3>3. QED
      BY <1>2, <3>2 DEF Begins
  <2>8. p \in Nat /\ p > 0 /\ p + size = here + 1 /\ p + size <= all + 1 /\ p # 0
    <3>1. all \in Nat
      BY <1>3
    <3> HIDE DEF start, size, here, all
    <3>2. QED
      BY <2>5, <2>6, <2>7, <3>1
  <2>9. ASSUME NEW j \in 1 .. size PROVE mem[p + j - 1] = d[j]
    <3>1. mem[start + 2 + j] = d[j]
      BY <1>2, <2>2 DEF Kept
    <3> HIDE DEF start, size, d
    <3>2. p + j - 1 = start + 2 + j
      BY <2>5, <2>6
    <3>3. QED
      BY <3>1, <3>2
  <2>10. mem[p + size] = 0
    <3>1. CASE k = n
      <4>1. at = here + 1
        BY <1>2, <3>1
      <4> HIDE DEF start, size, here, p
      <4>2. QED
        BY <1>2, <2>8, <4>1
    <3>2. CASE k # n
      <4>1. k \in 1 .. n - 1
        BY <1>3, <2>2, <3>2
      <4>2. mem[here + 1] = 0
        BY <1>2, <4>1 DEF Apart
      <4> HIDE DEF start, size, here, p
      <4>3. QED
        BY <2>8, <4>2
    <3>3. QED
      BY <3>1, <3>2
  <2>11. Says(ie) = d
    BY <2>1
  <2>12. p + size <= Len(mem)
    <3> DEFINE room == Len(mem)
    <3>1. room = all + 1
      OBVIOUS
    <3> HIDE DEF room, all, p, size
    <3>2. p + size <= room
      BY <2>8, <3>1
    <3>3. QED
      BY <3>2 DEF room
  <2>13. ie \in Texts => ies[ie] # 0 /\ TextAt(ies[ie]) = UpToZero(Says(ie))
    <3>1. SUFFICES ASSUME ie \in Texts PROVE ies[ie] # 0 /\ TextAt(ies[ie]) = UpToZero(Says(ie))
      OBVIOUS
    <3>2. ies[ie] = p
      BY <2>2, <3>1 DEF Told
    <3>3. TextAt(p) = UpToZero(d)
      <4> HIDE DEF p, d
      <4>1. QED
        BY <1>1, <2>4, <2>8, <2>9, <2>10, <2>12, TextIs
    <3>4. QED
      BY <2>8, <2>11, <3>2, <3>3
  <2>14. ie \in Records /\ Len(Says(ie)) = RecordSize =>
           SubSeq(mem, ies[ie], ies[ie] + RecordSize - 1) = Says(ie)
    <3>1. SUFFICES ASSUME ie \in Records, Len(Says(ie)) = RecordSize
                   PROVE  SubSeq(mem, ies[ie], ies[ie] + RecordSize - 1) = Says(ie)
      OBVIOUS
    <3>2. ies[ie] = p
      BY <2>2, <3>1 DEF Told
    <3>3. size = RecordSize
      BY <2>11, <3>1
    <3> DEFINE last == p + size - 1
               u == SubSeq(mem, p, last)
    <3>4. /\ p \in Int /\ last \in Int /\ last - p + 1 = size
          /\ (IF p <= last THEN last - p + 1 ELSE 0) = size
      <4> HIDE DEF size, p
      <4>1. QED
        BY <2>5, <2>8
    <3>5. \A i \in 1 .. size : d[i] \in Byte
      <4> HIDE DEF d
      <4>1. QED
        BY <2>4, ElementOfSeq
    <3>6. ASSUME NEW i \in p .. last PROVE mem[i] \in Byte
      <4>1. i - p + 1 \in 1 .. size /\ p + (i - p + 1) - 1 = i
        <5> HIDE DEF size, p
        <5>1. QED
          BY <2>5, <2>8
      <4> HIDE DEF size, p, d
      <4>2. QED
        BY <2>9, <3>5, <4>1
    <3> HIDE DEF last, p, size, d
    <3>7. /\ SubSeq(mem, p, last) \in Seq(Byte)
          /\ Len(SubSeq(mem, p, last)) = IF p <= last THEN last - p + 1 ELSE 0
          /\ \A i \in 1 .. last - p + 1 : SubSeq(mem, p, last)[i] = mem[p + i - 1]
      BY <3>4, <3>6, SubSeqProperties
    <3>8. u \in Seq(Byte) /\ Len(u) = size /\ \A i \in 1 .. size : u[i] = d[i]
      BY <2>9, <3>4, <3>7
    <3> HIDE DEF u
    <3>9. u = d
      <4>1. Len(u) = Len(d) /\ \A i \in 1 .. Len(u) : u[i] = d[i]
        BY <3>8 DEF size
      <4>2. QED
        BY <2>4, <3>8, <4>1, SeqEqual
    <3>10. ies[ie] + RecordSize - 1 = last
      BY <3>2, <3>3 DEF last
    <3>11. QED
      BY <2>11, <3>2, <3>9, <3>10 DEF u
  <2>15. ie \in Flags => ies[ie] = 1
    BY <2>2 DEF Told
  <2>16. ie \in DOMAIN Width => Says(ie) = Digits(ies[ie], Width[ie])
    BY <2>2, <2>11 DEF Told
  <2>17. QED
    BY <1>5, <2>13, <2>14, <2>15, <2>16 DEF Answers
<1>6. QED
  BY <1>4, <1>5

LEMMA FollowingUnderstands == Following => Understood
<1> SUFFICES ASSUME Following, pc \in {"done", "error"}, Short(sent) PROVE
      /\ pc = "done" <=> msg = Message(sent)
      /\ pc = "done" => \A ie \in Fields : Answers(ie)
  BY DEF Understood, Answers, Short
<1>1. pc = "done" => msg = Message(sent)
  BY DEF Following, Origin, Unread
<1>2. msg = Message(sent) => pc = "done"
  BY DEF Following, Walked
<1>3. ASSUME pc = "done", NEW ie \in Fields PROVE Answers(ie)
  <2>1. Len(mem) = Len(msg) + 1 /\ \E b, n : Along(b, n)
    BY <1>1, <1>3 DEF Following, Walked
  <2>2. PICK b, n : Along(b, n)
    BY <2>1
  <2>3. Parsing
    BY DEF Following
  <2>4. QED
    BY <1>3, <2>1, <2>2, <2>3, AllAnswer
<1>4. QED
  BY <1>1, <1>2, <1>3

-----------------------------------------------------------------------------
(* Theorems *)

(* Whatever arrives, of any length: the parser stays inside its copy and the one
   byte behind it, overwrites nothing that it has still to read, and every text of
   a message it accepts ends there.  What this program builds fits its buffer. *)
THEOREM ParserAlwaysSafe == ParserSpec => []ParserSafe
<1>1. Parsing => ParserSafe
  BY DEF Parsing, ParserSafe
<1>2. QED
  BY AlwaysParsing, <1>1, PTL

(* The parser accepts a message exactly if it is one of short elements, and then
   every field holds what the last element of its type says: a text up to its first
   0, an address and a number byte for byte.  None of the zeros that it writes into
   the message spoils what is still to be read or what it has found, whatever was
   sent, of any number of elements, and whatever garbled bytes arrive instead. *)
THEOREM MessagesUnderstood == ParserSpec => []Understood
<1>1. QED
  BY InitFollowing, StepFollowing, FollowingUnderstands, PTL DEF ParserSpec

================================================================================
