--------------------------- MODULE ClientConnProofs ---------------------------
(***************************************************************************)
(* Proofs about Wire and ClientConn.                                       *)
(*                                                                         *)
(* The decoder: it returns the message that was encoded, whatever its      *)
(* buffer holds from earlier messages, if and only if all of the message   *)
(* has arrived (DecodeAgrees).  The connections: what is under way on one  *)
(* is a prefix of what was written and not yet decoded (Stream), so each   *)
(* end decodes what the other wrote.  No decoder panics as long as no cell *)
(* of a message, taken for a length, wraps around.                         *)
(***************************************************************************)
EXTENDS ClientConn, Integers, SequenceTheorems, WellFoundedInduction, TLAPS

--------------------------------------------------------------------------------
(* Reading. *)

\* Decoders whose buffer and input hold cells of C.
DecodingOn(C) == [buf : Seq(C), off : Nat, input : Seq(C), err : BOOLEAN, panic : BOOLEAN]

Room(d, n) == [i \in 1..(IF Len(d.buf) < d.off + n THEN d.off + n ELSE Len(d.buf)) |->
                    IF i <= Len(d.buf) THEN d.buf[i] ELSE 0]

\* The buffer that a read makes room in.
LEMMA RoomMade ==
    ASSUME NEW C, 0 \in C, NEW d \in DecodingOn(C), NEW n \in Nat
    PROVE  /\ Room(d, n) \in Seq(C)
           /\ Len(Room(d, n)) >= d.off + n
<1>1. d.buf \in Seq(C) /\ d.off \in Nat /\ Len(d.buf) \in Nat
  BY DEF DecodingOn
<1> DEFINE k == IF Len(d.buf) < d.off + n THEN d.off + n ELSE Len(d.buf)
<1>2. k \in Nat /\ k >= d.off + n
  BY <1>1
<1>3. Room(d, n) = [i \in 1..k |-> IF i <= Len(d.buf) THEN d.buf[i] ELSE 0]
  BY DEF Room
<1> HIDE DEF k
<1>4. \A i \in 1..k : (IF i <= Len(d.buf) THEN d.buf[i] ELSE 0) \in C
  BY <1>1, <1>2
<1>5. Room(d, n) \in [1..k -> C]
  BY <1>3, <1>4
<1> QED
  BY <1>2, <1>5

\* read() when there is enough to read: the buffer begins with it.
LEMMA ReadFilled ==
    ASSUME NEW C, 0 \in C, NEW d \in DecodingOn(C), NEW n \in Nat
    PROVE  LET r == Read(d, n) IN
           /\ r \in DecodingOn(C)
           /\ r.panic = d.panic
           /\ Len(r.buf) >= d.off + n
           /\ r.off = IF d.err THEN d.off ELSE 0
           /\ r.err <=> d.err \/ Len(d.input) < n
           /\ ~r.err => /\ r.input = SubSeq(d.input, n + 1, Len(d.input))
                        /\ \A i \in 1..n : r.buf[i] = d.input[i]
<1> DEFINE room == Room(d, n)
           taken == Smaller(n, Len(d.input))
           r == Read(d, n)
           front == SubSeq(d.input, 1, taken)
           back == SubSeq(room, taken + 1, Len(room))
           left == SubSeq(d.input, taken + 1, Len(d.input))
<1>1. /\ d.buf \in Seq(C) /\ d.input \in Seq(C) /\ d.off \in Nat
      /\ d.err \in BOOLEAN /\ d.panic \in BOOLEAN
      /\ d = [buf |-> d.buf, off |-> d.off, input |-> d.input, err |-> d.err, panic |-> d.panic]
  BY DEF DecodingOn
<1>2. Len(d.input) \in Nat /\ taken \in 0..n /\ taken <= Len(d.input) /\ (taken < n <=> Len(d.input) < n)
  BY <1>1 DEF Smaller
<1>3. room \in Seq(C) /\ Len(room) \in Nat /\ Len(room) >= d.off + n
  BY RoomMade
<1>4. CASE d.err
  <2>1. r = [d EXCEPT !.buf = room]
    BY <1>4 DEF Read, Room
  <2> HIDE DEF room, r
  <2>2. r = [buf |-> room, off |-> d.off, input |-> d.input, err |-> d.err, panic |-> d.panic]
    BY <1>1, <2>1
  <2> QED
    BY <1>1, <1>3, <1>4, <2>2 DEF DecodingOn, r
<1>5. CASE ~d.err
  <2>1. r = [d EXCEPT !.buf = front \o back, !.off = 0, !.input = left, !.err = taken < n]
    BY <1>5 DEF Read, Room
  <2>2. r = [buf |-> front \o back, off |-> 0, input |-> left, err |-> taken < n, panic |-> d.panic]
    <3> HIDE DEF room, r, front, back, left, taken
    <3> QED
      BY <1>1, <2>1
  <2>3. front \in Seq(C) /\ Len(front) = taken /\ \A i \in 1..taken : front[i] = d.input[i]
    <3> HIDE DEF taken
    <3> QED
      BY <1>1, <1>2
  <2>4. back \in Seq(C) /\ Len(back) = Len(room) - taken
    <3> HIDE DEF taken, room
    <3> QED
      BY <1>2, <1>3, <1>1
  <2>5. left \in Seq(C)
    <3> HIDE DEF taken
    <3> QED
      BY <1>1, <1>2
  <2> DEFINE b == front \o back
  <2>6. b \in Seq(C) /\ Len(b) = Len(room) /\ \A i \in 1..taken : b[i] = d.input[i]
    <3> HIDE DEF front, back, taken, room
    <3> QED
      BY <1>2, <1>3, <2>3, <2>4
  <2>7. ~(taken < n) => left = SubSeq(d.input, n + 1, Len(d.input)) /\ taken = n
    BY <1>2
  <2> HIDE DEF b, front, back, left, taken, room, r
  <2>8. r = [buf |-> b, off |-> 0, input |-> left, err |-> taken < n, panic |-> d.panic]
    BY <2>2 DEF b
  <2>9. r \in DecodingOn(C)
    BY <1>1, <2>5, <2>6, <2>8 DEF DecodingOn
  <2>10. /\ r.panic = d.panic /\ r.off = 0 /\ r.err = (taken < n)
         /\ r.buf = b /\ r.input = left
    BY <2>8
  <2>11. r.err <=> d.err \/ Len(d.input) < n
    BY <1>2, <1>5, <2>10
  <2>12. Len(r.buf) >= d.off + n
    BY <1>3, <2>6, <2>10
  <2>13. ~r.err => /\ r.input = SubSeq(d.input, n + 1, Len(d.input))
                  /\ \A i \in 1..n : r.buf[i] = d.input[i]
    BY <2>6, <2>7, <2>10
  <2> QED
    BY <1>5, <2>9, <2>10, <2>11, <2>12, <2>13 DEF r
<1> QED
  BY <1>1, <1>4, <1>5

\* Lengths below the limit are not changed by the arithmetic on lengths.
LEMMA Modulo ==
    ASSUME NEW x \in Nat, NEW w \in Nat, w > 1
    PROVE  x % w \in Nat /\ (x < w => x % w = x)
OBVIOUS

\* What the decoder has in front of it, in its buffer and in its input.
Holds(d, s)   == d.off + Len(s) <= Len(d.buf) /\ \A i \in 1..Len(s) : d.buf[d.off + i] = s[i]
Agrees(in, s) == \A i \in 1..Len(s) : i <= Len(in) => in[i] = s[i]

\* Taking n cells from the buffer moves the offset and nothing else, and
\* panics when the buffer is too short.
LEMMA AfterDef ==
    ASSUME NEW C, NEW d \in DecodingOn(C), NEW n \in Nat
    PROVE  /\ After(d, n) \in DecodingOn(C)
           /\ After(d, n).buf = d.buf /\ After(d, n).off = d.off + n
           /\ After(d, n).input = d.input /\ After(d, n).err = d.err
           /\ After(d, n).panic = (d.panic \/ ~InRange(d, n))
<1>1. /\ d.buf \in Seq(C) /\ d.input \in Seq(C) /\ d.off \in Nat
      /\ d.err \in BOOLEAN /\ d.panic \in BOOLEAN
      /\ d = [buf |-> d.buf, off |-> d.off, input |-> d.input, err |-> d.err, panic |-> d.panic]
  BY DEF DecodingOn
<1> DEFINE panics == d.panic \/ ~InRange(d, n)
<1>2. panics \in BOOLEAN
  OBVIOUS
<1>3. After(d, n) = [d EXCEPT !.off = d.off + n, !.panic = panics]
  BY DEF After
<1> HIDE DEF panics
<1>4. After(d, n) = [buf |-> d.buf, off |-> d.off + n, input |-> d.input, err |-> d.err, panic |-> panics]
  BY <1>1, <1>3
<1>5. After(d, n) \in DecodingOn(C)
  BY <1>1, <1>2, <1>4 DEF DecodingOn
<1> QED
  BY <1>4, <1>5 DEF panics

\* The same, one fact at a time.
LEMMA AfterTyped ==
    ASSUME NEW C, NEW d \in DecodingOn(C), NEW n \in Nat
    PROVE  After(d, n) \in DecodingOn(C)
BY AfterDef
\* The error of a decoder is not changed by taking cells ...
LEMMA AfterErr ==
    ASSUME NEW C, NEW d \in DecodingOn(C), NEW n \in Nat
    PROVE  After(d, n).err = d.err
BY AfterDef
\* ... and it panics if it did before, or if the bytes are out of range.
LEMMA AfterPanic ==
    ASSUME NEW C, NEW d \in DecodingOn(C), NEW n \in Nat
    PROVE  After(d, n).panic = (d.panic \/ ~InRange(d, n))
BY AfterDef

\* What is cut out of a sequence.
LEMMA Slice ==
    ASSUME NEW C, NEW s \in Seq(C), NEW a \in Nat, NEW n \in Nat, a + n <= Len(s)
    PROVE  LET g == SubSeq(s, a + 1, a + n) IN
           g \in Seq(C) /\ Len(g) = n /\ \A i \in 1..n : g[i] = s[a + i]
<1>1. Len(s) \in Nat /\ a + 1 \in Int /\ a + n \in Int
  OBVIOUS
<1>2. SubSeq(s, a + 1, a + n) = [i \in 1..n |-> s[a + i]]
  <2>1. SubSeq(s, a + 1, a + n) = [i \in 1..(1 + (a + n) - (a + 1)) |-> s[i + (a + 1) - 1]]
    OBVIOUS
  <2>2. 1 + (a + n) - (a + 1) = n /\ \A i \in 1..n : i + (a + 1) - 1 = a + i
    OBVIOUS
  <2> QED
    BY <2>1, <2>2
<1>3. \A i \in 1..n : a + i \in 1..Len(s) /\ s[a + i] \in C
  BY <1>1
<1>4. [i \in 1..n |-> s[a + i]] \in [1..n -> C]
  BY <1>3
<1> QED
  BY <1>2, <1>4

\* Taking n cells gives n cells, even in the model's continuation after a
\* panic.
LEMMA GetsTyped ==
    ASSUME NEW C, 0 \in C, NEW d \in DecodingOn(C), NEW n \in Nat
    PROVE  Gets(d, n) \in Seq(C) /\ Len(Gets(d, n)) = n
<1>1. d.buf \in Seq(C) /\ d.off \in Nat /\ Len(d.buf) \in Nat
  BY DEF DecodingOn
<1>2. CASE InRange(d, n)
  <2>1. Gets(d, n) = SubSeq(d.buf, d.off + 1, d.off + n)
    BY <1>2 DEF Gets
  <2>2. d.off + n <= Len(d.buf)
    BY <1>2 DEF InRange
  <2> DEFINE s == d.buf
             a == d.off
  <2>3. s \in Seq(C) /\ a \in Nat /\ a + n <= Len(s)
    BY <1>1, <2>2
  <2> HIDE DEF s, a
  <2>4. SubSeq(s, a + 1, a + n) \in Seq(C) /\ Len(SubSeq(s, a + 1, a + n)) = n
    BY <2>3, Slice
  <2> QED
    BY <2>1, <2>4 DEF s, a
<1>3. CASE ~InRange(d, n)
  <2>1. Gets(d, n) = [i \in 1..n |-> 0]
    BY <1>3 DEF Gets
  <2>2. [i \in 1..n |-> 0] \in [1..n -> C]
    OBVIOUS
  <2> QED
    BY <2>1, <2>2
<1> QED
  BY <1>2, <1>3

\* A length or tag is a cell.
LEMMA GetTyped ==
    ASSUME NEW C, 0 \in C, NEW d \in DecodingOn(C)
    PROVE  Get(d) \in C
<1>1. Gets(d, 1) \in Seq(C) /\ Len(Gets(d, 1)) = 1
  BY GetsTyped
<1> QED
  BY <1>1 DEF Get

\* Taking two parts off a sequence, one after the other.
LEMMA DropDrop ==
    ASSUME NEW C, NEW s \in Seq(C), NEW a \in Nat, NEW b \in Nat, a + b <= Len(s),
           NEW t, t = SubSeq(s, a + 1, Len(s))
    PROVE  SubSeq(t, b + 1, Len(t)) = SubSeq(s, (a + b) + 1, Len(s))
<1> DEFINE n == Len(s) - a
           m == n - b
           u == SubSeq(t, b + 1, b + m)
           w == SubSeq(s, (a + b) + 1, (a + b) + m)
<1>1. Len(s) \in Nat /\ n \in Nat /\ m \in Nat /\ a + n = Len(s) /\ b + m = n /\ (a + b) + m = Len(s)
  OBVIOUS
<1> HIDE DEF n, m
<1>2. t \in Seq(C) /\ Len(t) = n /\ \A i \in 1..n : t[i] = s[a + i]
  <2>1. t = SubSeq(s, a + 1, a + n) /\ a + n <= Len(s)
    BY <1>1
  <2> QED
    BY <1>1, <2>1, Slice
<1>3. u \in Seq(C) /\ Len(u) = m /\ \A i \in 1..m : u[i] = t[b + i]
  <2>1. b + m <= Len(t)
    BY <1>1, <1>2
  <2> QED
    BY <1>1, <1>2, <2>1, Slice
<1>4. w \in Seq(C) /\ Len(w) = m /\ \A i \in 1..m : w[i] = s[(a + b) + i]
  <2>1. a + b \in Nat /\ (a + b) + m <= Len(s)
    BY <1>1
  <2> QED
    BY <1>1, <2>1, Slice
<1> HIDE DEF u, w
<1>5. ASSUME NEW i \in 1..m PROVE u[i] = w[i]
  <2>1. b + i \in 1..n /\ a + (b + i) = (a + b) + i
    BY <1>1
  <2>2. t[b + i] = s[a + (b + i)]
    BY <1>2, <2>1
  <2> QED
    BY <1>3, <1>4, <2>1, <2>2
<1>6. u = w
  BY <1>3, <1>4, <1>5, SeqEqual
<1> QED
  BY <1>1, <1>2, <1>6 DEF u, w

\* The buffer gives what it holds.
LEMMA GetsHeld ==
    ASSUME NEW C, 0 \in C, NEW d \in DecodingOn(C), NEW s \in Seq(C), NEW t \in Seq(C), Holds(d, s \o t)
    PROVE  /\ Gets(d, Len(s)) = s
           /\ Holds(After(d, Len(s)), t)
           /\ After(d, Len(s)).panic = d.panic
<1>1. /\ d.buf \in Seq(C) /\ d.off \in Nat /\ Len(d.buf) \in Nat /\ d.panic \in BOOLEAN
      /\ Len(s) \in Nat /\ Len(t) \in Nat
  BY DEF DecodingOn
<1>2. Len(s \o t) = Len(s) + Len(t) /\ d.off + Len(s) + Len(t) <= Len(d.buf)
  BY <1>1 DEF Holds
<1>3. ASSUME NEW i \in 1..Len(s) PROVE d.buf[d.off + i] = s[i]
  <2>1. i \in 1..Len(s \o t) /\ (s \o t)[i] = s[i]
    BY <1>1, <1>2
  <2> QED
    BY <2>1 DEF Holds
<1>4. ASSUME NEW i \in 1..Len(t) PROVE d.buf[d.off + Len(s) + i] = t[i]
  <2>1. Len(s) + i \in 1..Len(s \o t) /\ (s \o t)[Len(s) + i] = t[i]
    BY <1>1, <1>2
  <2>2. d.buf[d.off + (Len(s) + i)] = (s \o t)[Len(s) + i]
    BY <2>1 DEF Holds
  <2>3. d.off + (Len(s) + i) = d.off + Len(s) + i
    BY <1>1
  <2> QED
    BY <2>1, <2>2, <2>3
<1>5. InRange(d, Len(s))
  BY <1>1, <1>2 DEF InRange
<1>6. Gets(d, Len(s)) = s
  <2> DEFINE g == SubSeq(d.buf, d.off + 1, d.off + Len(s))
  <2>1. g \in Seq(C) /\ Len(g) = Len(s) /\ \A i \in 1..Len(s) : g[i] = d.buf[d.off + i]
    <3> DEFINE b == d.buf
               a == d.off
               n == Len(s)
    <3>1. b \in Seq(C) /\ a \in Nat /\ n \in Nat /\ a + n <= Len(b)
      BY <1>1, <1>2
    <3> HIDE DEF b, a, n
    <3>2. LET h == SubSeq(b, a + 1, a + n) IN
          h \in Seq(C) /\ Len(h) = n /\ \A i \in 1..n : h[i] = b[a + i]
      BY <3>1, Slice
    <3> QED
      BY <3>2 DEF b, a, n
  <2>2. Gets(d, Len(s)) = g
    BY <1>5 DEF Gets
  <2> HIDE DEF g
  <2>3. g = s
    BY <1>1, <1>3, <2>1, SeqEqual
  <2> QED
    BY <2>2, <2>3
<1>7. Holds(After(d, Len(s)), t)
  <2>1. After(d, Len(s)).buf = d.buf /\ After(d, Len(s)).off = d.off + Len(s)
    BY <1>1, AfterDef
  <2> QED
    BY <1>1, <1>2, <1>4, <2>1 DEF Holds
<1> QED
  BY <1>1, <1>5, <1>6, <1>7, AfterDef

\* The next cell, when the buffer holds it.
LEMMA GetHeld ==
    ASSUME NEW C, 0 \in C, NEW d \in DecodingOn(C), NEW x \in C, NEW t \in Seq(C), Holds(d, <<x>> \o t)
    PROVE  /\ Get(d) = x
           /\ Holds(After(d, 1), t)
           /\ After(d, 1).panic = d.panic
<1>1. <<x>> \in Seq(C) /\ Len(<<x>>) = 1 /\ <<x>>[1] = x
  OBVIOUS
<1> QED
  BY <1>1, GetsHeld DEF Get

\* A read of what the input begins with.
LEMMA ReadAgrees ==
    ASSUME NEW C, 0 \in C, NEW d \in DecodingOn(C), NEW s \in Seq(C), NEW t \in Seq(C),
           ~d.err, Agrees(d.input, s \o t)
    PROVE  LET r == Read(d, Len(s)) IN
           /\ r \in DecodingOn(C)
           /\ r.panic = d.panic
           /\ r.err <=> Len(d.input) < Len(s)
           /\ ~r.err => /\ Holds(r, s) /\ Agrees(r.input, t)
                        /\ r.input = SubSeq(d.input, Len(s) + 1, Len(d.input))
                        /\ Len(r.input) = Len(d.input) - Len(s)
<1> DEFINE n == Len(s)
           r == Read(d, n)
<1>1. /\ d.off \in Nat /\ d.input \in Seq(C) /\ Len(d.input) \in Nat
      /\ n \in Nat /\ Len(t) \in Nat /\ Len(s \o t) = n + Len(t)
  BY DEF DecodingOn
<1>2. /\ r \in DecodingOn(C) /\ r.panic = d.panic
      /\ Len(r.buf) >= d.off + n /\ r.off = 0
      /\ r.err <=> Len(d.input) < n
      /\ ~r.err => /\ r.input = SubSeq(d.input, n + 1, Len(d.input))
                   /\ \A i \in 1..n : r.buf[i] = d.input[i]
  BY <1>1, ReadFilled
<1> HIDE DEF r
<1>3. ASSUME ~r.err
      PROVE  Holds(r, s) /\ Agrees(r.input, t) /\ Len(r.input) = Len(d.input) - n
  <2>1. n <= Len(d.input)
    BY <1>1, <1>2, <1>3
  <2>2. ASSUME NEW i \in 1..n PROVE r.buf[0 + i] = s[i]
    <3>1. (s \o t)[i] = s[i] /\ i \in 1..Len(s \o t) /\ i <= Len(d.input)
      BY <1>1, <2>1
    <3>2. d.input[i] = s[i]
      BY <3>1 DEF Agrees
    <3> QED
      BY <1>2, <1>3, <3>2
  <2>3. Holds(r, s)
    BY <1>1, <1>2, <2>2 DEF Holds, DecodingOn
  <2>4. /\ Len(r.input) = Len(d.input) - n
        /\ \A i \in 1..(Len(d.input) - n) : r.input[i] = d.input[n + i]
    <3> DEFINE k == Len(d.input) - n
    <3>1. k \in Nat /\ Len(d.input) = n + k
      BY <1>1, <2>1
    <3>2. r.input = SubSeq(d.input, n + 1, n + k)
      BY <1>2, <1>3, <3>1
    <3> HIDE DEF k, n
    <3>3. Len(r.input) = k /\ \A i \in 1..k : r.input[i] = d.input[n + i]
      BY <1>1, <3>1, <3>2, Slice
    <3> QED
      BY <3>3 DEF k
  <2>5. ASSUME NEW i \in 1..Len(t), i <= Len(r.input) PROVE r.input[i] = t[i]
    <3>1. n + i \in 1..Len(s \o t) /\ n + i <= Len(d.input) /\ (s \o t)[n + i] = t[i]
      BY <1>1, <2>1, <2>4, <2>5
    <3>2. d.input[n + i] = t[i]
      BY <3>1 DEF Agrees
    <3> QED
      BY <1>1, <2>1, <2>4, <2>5, <3>2
  <2> QED
    BY <2>3, <2>4, <2>5 DEF Agrees
<1> QED
  BY <1>2, <1>3 DEF r

--------------------------------------------------------------------------------
(* Decoders stay well formed. *)

\* Reading and taking cells keeps the decoder well formed, and an error.
LEMMA ReadTyped ==
    ASSUME NEW C, 0 \in C, NEW d \in DecodingOn(C), NEW n \in Nat
    PROVE  LET r == Read(d, n) IN
           /\ r \in DecodingOn(C) /\ r.panic = d.panic /\ (d.err => r.err)
           /\ Len(r.buf) >= r.off + n
<1>1. d.off \in Nat
  BY DEF DecodingOn
<1> DEFINE r == Read(d, n)
<1>2. /\ r \in DecodingOn(C) /\ r.panic = d.panic /\ Len(r.buf) >= d.off + n
      /\ r.off = IF d.err THEN d.off ELSE 0
      /\ r.err <=> d.err \/ Len(d.input) < n
  BY ReadFilled
<1> HIDE DEF r
<1>3. Len(r.buf) \in Nat
  BY <1>2 DEF DecodingOn
<1> QED
  BY <1>1, <1>2, <1>3 DEF r

\* The body of a get, an error or an auth message.
LEMMA TextTyped ==
    ASSUME NEW C \in SUBSET Nat, 0 \in C, NEW d \in DecodingOn(C), NEW kind, NEW tag
    PROVE  LET r == DecodeText(d, kind, tag).d IN
           /\ r \in DecodingOn(C)
           /\ d.err => r.err
<1> DEFINE n == Get(d)
           d1 == After(d, 1)
           text == Read(d1, n)
           r == After(text, n)
<1>1. n \in Nat
  BY GetTyped
<1>2. d1 \in DecodingOn(C) /\ d1.err = d.err /\ d1.panic = (d.panic \/ ~InRange(d, 1))
  BY AfterDef
<1>3. DecodeText(d, kind, tag).d = r
  BY DEF DecodeText, Decoded
<1> HIDE DEF n, d1
<1>4. text \in DecodingOn(C) /\ text.panic = d1.panic /\ (d1.err => text.err) /\ Len(text.buf) >= text.off + n
  BY <1>1, <1>2, ReadTyped
<1> HIDE DEF text
<1>5. r \in DecodingOn(C) /\ r.err = text.err /\ r.panic = (text.panic \/ ~InRange(text, n))
  BY <1>1, <1>4, AfterDef
<1> HIDE DEF r
<1> QED
  BY <1>2, <1>3, <1>4, <1>5

\* The body of a put, of which the decoder reads n + 1 and n + VersionCells cells
\* modulo Word.
LEMMA PutTyped ==
    ASSUME NEW C \in SUBSET Nat, 0 \in C, NEW d \in DecodingOn(C), NEW tag
    PROVE  LET r == DecodePut(d, tag).d IN
           /\ r \in DecodingOn(C)
           /\ d.err => r.err
<1>w. VersionCells \in Nat /\ VersionCells > 0 /\ Word \in Nat /\ Word > 1
  BY WireAssumption
<1> DEFINE n == Get(d)
           d1 == After(d, 1)
           k == (n + 1) % Word
           key == Read(d1, k)
           vlen == After(key, n)
           vn == Get(vlen)
           v1 == After(vlen, 1)
           l == (vn + VersionCells) % Word
           value == Read(v1, l)
           ver == After(value, vn)
           r == After(ver, VersionCells)
<1>0. DecodePut(d, tag).d = r
  BY DEF DecodePut, Decoded
<1>1. n \in C /\ n \in Nat
  BY GetTyped
<1>2. d1 \in DecodingOn(C) /\ d1.err = d.err /\ d1.panic = (d.panic \/ ~InRange(d, 1))
  BY AfterDef
<1> HIDE DEF n, d1
<1>3. k \in Nat
  <2>1. n + 1 \in Nat
    BY <1>1
  <2> QED
    BY <1>w, <2>1, Modulo
<1> HIDE DEF k
<1>4a. key \in DecodingOn(C)
  BY <1>2, <1>3, ReadTyped
<1>4. key.panic = d1.panic /\ (d1.err => key.err) /\ Len(key.buf) >= key.off + k
  BY <1>2, <1>3, ReadTyped
<1> HIDE DEF key
<1>5. /\ vlen \in DecodingOn(C) /\ vlen.err = key.err
      /\ vlen.panic = (key.panic \/ ~InRange(key, n))
  BY <1>1, <1>4a, AfterTyped, AfterErr, AfterPanic
<1> HIDE DEF vlen
<1>7. vn \in C /\ vn \in Nat
  BY <1>5, GetTyped
<1>8. v1 \in DecodingOn(C) /\ v1.err = vlen.err /\ v1.panic = (vlen.panic \/ ~InRange(vlen, 1))
  BY <1>5, AfterDef
<1> HIDE DEF vn, v1
<1>9. l \in Nat
  <2>1. vn + VersionCells \in Nat
    BY <1>7, <1>w
  <2> QED
    BY <1>w, <2>1, Modulo
<1> HIDE DEF l
<1>10a. value \in DecodingOn(C)
  BY <1>8, <1>9, ReadTyped
<1>10. value.panic = v1.panic /\ (v1.err => value.err) /\ Len(value.buf) >= value.off + l
  BY <1>8, <1>9, ReadTyped
<1> HIDE DEF value
<1>11. /\ ver \in DecodingOn(C) /\ ver.err = value.err
       /\ ver.panic = (value.panic \/ ~InRange(value, vn))
  BY <1>7, <1>10a, AfterTyped, AfterErr, AfterPanic
<1> HIDE DEF ver
<1>13. r \in DecodingOn(C) /\ r.err = ver.err /\ r.panic = (ver.panic \/ ~InRange(ver, VersionCells))
  BY <1>11, <1>w, AfterDef
<1> HIDE DEF r
<1> QED
  BY <1>0, <1>2, <1>4, <1>5, <1>8, <1>10, <1>11, <1>13

\* Decoders between two messages.
DecodersOn(C) == [buf : Seq(C), off : Nat]

\* Decode leaves a well-formed decoder, whatever its buffer held before.
LEMMA DecodeTyped ==
    ASSUME NEW C \in SUBSET Nat, 0 \in C, NEW dec \in DecodersOn(C), NEW in \in Seq(C)
    PROVE  LET r == Decode(dec, in).d IN
           /\ r \in DecodingOn(C)
           /\ Kept(r) \in DecodersOn(C)
<1> DEFINE d == Decoding(dec, in)
           header == Read(d, HeaderCells)
           kind == Get(header)
           tag == Get(After(header, 1))
           body == After(header, 2)
           r == Decode(dec, in).d
<1>1. d \in DecodingOn(C)
  BY DEF Decoding, DecodersOn, DecodingOn
<1> HIDE DEF d
<1>2a. header \in DecodingOn(C)
  BY <1>1, ReadTyped DEF HeaderCells
<1> HIDE DEF header
<1>4. body \in DecodingOn(C)
  BY <1>2a, AfterTyped
<1> HIDE DEF body
<1> HIDE DEF kind, tag
<1>6. r = (CASE kind = KindPut -> DecodePut(body, tag)
             [] kind \in {KindGet, KindError, KindAuth} -> DecodeText(body, kind, tag)
             [] OTHER -> Decoded(body, NewMessage(kind, tag, <<>>, <<>>, 0))).d
  BY DEF Decode, d, header, kind, tag, body
<1> HIDE DEF r
<1>7. r \in {DecodePut(body, tag).d, DecodeText(body, kind, tag).d, body}
  <2>1. CASE kind = KindPut
    BY <1>6, <2>1
  <2>2. CASE kind \in {KindGet, KindError, KindAuth} /\ kind # KindPut
    BY <1>6, <2>2
  <2>3. CASE kind \notin {KindGet, KindError, KindAuth, KindPut}
    BY <1>6, <2>3 DEF Decoded
  <2> QED
    BY <2>1, <2>2, <2>3
<1>8. r \in DecodingOn(C)
  <2>1. DecodePut(body, tag).d \in DecodingOn(C)
    BY <1>4, PutTyped
  <2>2. DecodeText(body, kind, tag).d \in DecodingOn(C)
    BY <1>4, TextTyped
  <2> QED
    BY <1>4, <1>7, <2>1, <2>2
<1>9. Kept(r) \in DecodersOn(C)
  BY <1>8 DEF Kept, DecodersOn, DecodingOn
<1> QED
  BY <1>8, <1>9 DEF r

--------------------------------------------------------------------------------
(* A decoder in front of a message. *)

\* Concatenation with nothing,
LEMMA ConcatEmpty ==
    ASSUME NEW C, NEW s \in Seq(C)
    PROVE  s \o <<>> = s
OBVIOUS

\* ... and of two sequences.
LEMMA ConcatTyped ==
    ASSUME NEW C, NEW s \in Seq(C), NEW t \in Seq(C)
    PROVE  s \o t \in Seq(C) /\ Len(s \o t) = Len(s) + Len(t)
OBVIOUS

\* In front of a text, the decoder returns it, if all of it has arrived, and
\* fails otherwise.
LEMMA TextDecoded ==
    ASSUME NEW C \in SUBSET Nat, 0 \in C, NEW d \in DecodingOn(C), NEW text \in Seq(C),
           NEW kind, NEW tag, Len(text) \in C,
           ~d.err, Holds(d, <<Len(text)>>), Agrees(d.input, text)
    PROVE  LET r == DecodeText(d, kind, tag) IN
           /\ r.d.err <=> Len(d.input) < Len(text)
           /\ ~r.d.err => /\ r.d.panic = d.panic
                          /\ r.d.input = SubSeq(d.input, Len(text) + 1, Len(d.input))
                          /\ r.m = IF kind = KindGet THEN NewGetMessage(tag, text)
                                   ELSE NewMessage(kind, tag, <<>>, text, 0)
<1> DEFINE x == Len(text)
           n == Get(d)
           d1 == After(d, 1)
           t == Read(d1, n)
           r == After(t, n)
<1>1. n = x /\ d1.panic = d.panic
  <2>1. Holds(d, <<x>> \o <<>>) /\ <<>> \in Seq(C) /\ x \in C
    <3>1. <<x>> \in Seq(C)
      OBVIOUS
    <3> QED
      BY <3>1, ConcatEmpty
  <2> HIDE DEF x
  <2> QED
    BY <2>1, GetHeld
<1>2. d1 \in DecodingOn(C)
  BY AfterTyped
<1>3. d1.err = d.err /\ d1.input = d.input
  BY AfterDef
<1> HIDE DEF d1, n
<1>4. /\ t \in DecodingOn(C) /\ t.panic = d1.panic
      /\ t.err <=> Len(d.input) < x
      /\ ~t.err => /\ Holds(t, text)
                   /\ t.input = SubSeq(d.input, x + 1, Len(d.input))
  <2>1. ~d1.err /\ Agrees(d1.input, text \o <<>>) /\ <<>> \in Seq(C)
    BY <1>3, ConcatEmpty
  <2> QED
    BY <1>1, <1>2, <1>3, <2>1, ReadAgrees
<1> HIDE DEF t
<1>5. r.err = t.err /\ r.input = t.input
  BY <1>1, <1>4, AfterDef
<1>6. ~t.err => Gets(t, n) = text /\ r.panic = t.panic
  <2>1. Holds(t, text) => Holds(t, text \o <<>>) /\ <<>> \in Seq(C)
    BY ConcatEmpty
  <2> QED
    BY <1>1, <1>4, <2>1, GetsHeld
<1>7. /\ DecodeText(d, kind, tag).d = r
      /\ DecodeText(d, kind, tag).m = IF kind = KindGet THEN NewGetMessage(tag, Gets(t, n))
                                      ELSE NewMessage(kind, tag, <<>>, Gets(t, n), 0)
  BY DEF DecodeText, Decoded, r, t, d1, n
<1> HIDE DEF r
<1> QED
  BY <1>1, <1>4, <1>5, <1>6, <1>7

\* The same for the key, the value and the version of a put.
LEMMA PutDecoded ==
    ASSUME NEW C \in SUBSET Nat, 0 \in C, NEW d \in DecodingOn(C), NEW k \in Seq(C), NEW v \in Seq(C),
           NEW cells \in Seq(C), Len(cells) = VersionCells, NEW tag, Len(k) \in C, Len(v) \in C,
           Len(k) + 1 < Word, Len(v) + VersionCells < Word,
           ~d.err, Holds(d, <<Len(k)>>), Agrees(d.input, (k \o <<Len(v)>>) \o (v \o cells))
    PROVE  LET r == DecodePut(d, tag)
               l == Len(k) + 1 + Len(v) + VersionCells
           IN
           /\ r.d.err <=> Len(d.input) < l
           /\ ~r.d.err => /\ r.d.panic = d.panic
                          /\ r.d.input = SubSeq(d.input, l + 1, Len(d.input))
                          /\ r.m = NewPutMessage(tag, k, v, Get64(cells))
<1>w. VersionCells \in Nat /\ VersionCells > 0 /\ Word \in Nat /\ Word > 1
  BY WireAssumption
<1> DEFINE x == Len(k)
           y == Len(v)
           n == Get(d)
           d1 == After(d, 1)
           key == Read(d1, (n + 1) % Word)
           vlen == After(key, n)
           vn == Get(vlen)
           v1 == After(vlen, 1)
           value == Read(v1, (vn + VersionCells) % Word)
           ver == After(value, vn)
           r == After(ver, VersionCells)
           first == k \o <<y>>
           second == v \o cells
<1>0. /\ DecodePut(d, tag).d = r
      /\ DecodePut(d, tag).m = NewPutMessage(tag, Gets(key, n), Gets(value, vn), Get64(Gets(ver, VersionCells)))
  BY DEF DecodePut, Decoded
<1>1. x \in Nat /\ y \in Nat /\ y \in C /\ <<y>> \in Seq(C) /\ Len(d.input) \in Nat /\ d.input \in Seq(C)
  BY DEF DecodingOn
<1>2. first \in Seq(C) /\ Len(first) = x + 1 /\ second \in Seq(C) /\ Len(second) = y + VersionCells
  <2>1. Len(<<y>>) = 1
    OBVIOUS
  <2> QED
    BY <1>1, <2>1, ConcatTyped
<1>3. n = x /\ d1.panic = d.panic
  <2>1. Holds(d, <<x>> \o <<>>) /\ <<>> \in Seq(C) /\ x \in C
    <3>1. <<x>> \in Seq(C)
      OBVIOUS
    <3> QED
      BY <3>1, ConcatEmpty
  <2> HIDE DEF x
  <2> QED
    BY <2>1, GetHeld
<1>4. d1 \in DecodingOn(C)
  BY AfterTyped
<1>5. d1.err = d.err /\ d1.input = d.input
  BY AfterDef
<1> HIDE DEF n, d1, first, second
<1>6. (n + 1) % Word = Len(first)
  BY <1>1, <1>2, <1>3, <1>w, Modulo
<1>7. /\ key \in DecodingOn(C) /\ key.panic = d1.panic
      /\ key.err <=> Len(d.input) < x + 1
      /\ ~key.err => /\ Holds(key, first) /\ Agrees(key.input, second)
                     /\ key.input = SubSeq(d.input, x + 2, Len(d.input))
                     /\ Len(key.input) = Len(d.input) - (x + 1)
  <2>1. Agrees(d1.input, first \o second)
    BY <1>5 DEF first, second
  <2>2. LET q == Read(d1, Len(first)) IN
        /\ q \in DecodingOn(C) /\ q.panic = d1.panic
        /\ q.err <=> Len(d.input) < Len(first)
        /\ ~q.err => /\ Holds(q, first) /\ Agrees(q.input, second)
                     /\ q.input = SubSeq(d.input, Len(first) + 1, Len(d.input))
                     /\ Len(q.input) = Len(d.input) - Len(first)
    BY <1>2, <1>4, <1>5, <2>1, ReadAgrees
  <2>3. Len(first) = x + 1 /\ Len(first) + 1 = x + 2
    BY <1>1, <1>2
  <2> QED
    BY <1>6, <2>2, <2>3
<1> HIDE DEF key
<1>8. ~key.err => Gets(key, n) = k /\ Holds(vlen, <<y>>) /\ vlen.panic = key.panic
  BY <1>1, <1>3, <1>7, GetsHeld DEF first
<1>9. vlen \in DecodingOn(C)
  BY <1>1, <1>3, <1>7, AfterTyped
<1>10. vlen.err = key.err /\ vlen.input = key.input
  BY <1>1, <1>3, <1>7, AfterDef
<1> HIDE DEF vlen
<1>11. ~key.err => vn = y /\ v1.panic = vlen.panic
  <2>1. Holds(vlen, <<y>>) => Holds(vlen, <<y>> \o <<>>) /\ <<>> \in Seq(C)
    BY <1>1, ConcatEmpty
  <2> QED
    BY <1>1, <1>8, <1>9, <2>1, GetHeld
<1>12. v1 \in DecodingOn(C)
  BY <1>9, AfterTyped
<1>13. v1.err = vlen.err /\ v1.input = vlen.input
  BY <1>9, AfterDef
<1>14. vn \in Nat
  BY <1>9, GetTyped
<1> HIDE DEF vn, v1
<1>15. (vn + VersionCells) % Word \in Nat
  BY <1>14, <1>w, Modulo
<1>16. value \in DecodingOn(C)
  BY <1>12, <1>15, ReadTyped
<1>17. v1.err => value.err
  BY <1>12, <1>15, ReadTyped
<1>18. ASSUME ~key.err
       PROVE  /\ value.panic = v1.panic
              /\ value.err <=> Len(v1.input) < y + VersionCells
              /\ ~value.err => /\ Holds(value, second)
                               /\ value.input = SubSeq(v1.input, y + VersionCells + 1, Len(v1.input))
  <2>1. (vn + VersionCells) % Word = Len(second)
    <3>1. vn = y /\ Len(second) = y + VersionCells /\ y + VersionCells \in Nat /\ y + VersionCells < Word
      BY <1>1, <1>2, <1>11, <1>18, <1>w
    <3> HIDE DEF y
    <3> QED
      BY <1>w, <3>1, Modulo
  <2>2. ~v1.err /\ Agrees(v1.input, second \o <<>>) /\ <<>> \in Seq(C)
    BY <1>2, <1>7, <1>10, <1>13, <1>18, ConcatEmpty
  <2>3. LET q == Read(v1, Len(second)) IN
        /\ q.panic = v1.panic
        /\ q.err <=> Len(v1.input) < Len(second)
        /\ ~q.err => /\ Holds(q, second)
                     /\ q.input = SubSeq(v1.input, Len(second) + 1, Len(v1.input))
    BY <1>2, <1>12, <2>2, ReadAgrees
  <2> QED
    BY <1>2, <2>1, <2>3
<1> HIDE DEF value
<1>19. ~key.err /\ ~value.err => Gets(value, vn) = v /\ Holds(ver, cells) /\ ver.panic = value.panic
  BY <1>11, <1>16, <1>18, GetsHeld DEF second
<1>20. ver \in DecodingOn(C)
  BY <1>14, <1>16, AfterTyped
<1>21. ver.err = value.err /\ ver.input = value.input
  BY <1>14, <1>16, AfterDef
<1> HIDE DEF ver
<1>22. ~key.err /\ ~value.err => Gets(ver, VersionCells) = cells /\ r.panic = ver.panic
  <2>1. Holds(ver, cells) => Holds(ver, cells \o <<>>) /\ <<>> \in Seq(C)
    BY ConcatEmpty
  <2> QED
    BY <1>19, <1>20, <2>1, GetsHeld
<1>23. r.err = ver.err /\ r.input = ver.input
  BY <1>20, <1>w, AfterDef
<1> HIDE DEF r
<1> DEFINE l == x + 1 + y + VersionCells
<1>24. r.err <=> Len(d.input) < l
  <2>1. CASE key.err
    BY <1>1, <1>7, <1>10, <1>13, <1>17, <1>21, <1>23, <1>w, <2>1
  <2>2. CASE ~key.err
    <3>1. Len(v1.input) = Len(d.input) - (x + 1)
      BY <1>7, <1>10, <1>13, <2>2
    <3> HIDE DEF x, y
    <3>2. value.err <=> Len(d.input) - (x + 1) < y + VersionCells
      BY <1>18, <2>2, <3>1
    <3> QED
      BY <1>1, <1>21, <1>23, <1>w, <3>2
  <2> QED
    BY <2>1, <2>2
<1>25. ASSUME ~r.err
       PROVE  /\ r.panic = d.panic
              /\ r.input = SubSeq(d.input, l + 1, Len(d.input))
              /\ DecodePut(d, tag).m = NewPutMessage(tag, k, v, Get64(cells))
  <2>1. ~value.err /\ ~key.err
    BY <1>10, <1>13, <1>17, <1>21, <1>23, <1>25
  <2>2. r.panic = d.panic
    BY <1>3, <1>7, <1>8, <1>11, <1>18, <1>19, <1>22, <2>1
  <2>3. DecodePut(d, tag).m = NewPutMessage(tag, k, v, Get64(cells))
    BY <1>0, <1>8, <1>19, <1>22, <2>1
  <2>4. r.input = SubSeq(d.input, l + 1, Len(d.input))
    <3>1. r.input = SubSeq(v1.input, y + VersionCells + 1, Len(v1.input))
      BY <1>18, <1>21, <1>23, <2>1
    <3>2. v1.input = SubSeq(d.input, (x + 1) + 1, Len(d.input))
      BY <1>1, <1>7, <1>10, <1>13, <2>1
    <3>3. l <= Len(d.input) /\ x + 1 \in Nat /\ y + VersionCells \in Nat /\ l = (x + 1) + (y + VersionCells)
      BY <1>1, <1>24, <1>25, <1>w
    <3> HIDE DEF l, x, y
    <3>4. SubSeq(v1.input, y + VersionCells + 1, Len(v1.input)) = SubSeq(d.input, l + 1, Len(d.input))
      <4> DEFINE a == x + 1
                 b == y + VersionCells
                 s == d.input
      <4>1. s \in Seq(C) /\ a \in Nat /\ b \in Nat /\ a + b <= Len(s) /\ v1.input = SubSeq(s, a + 1, Len(s))
        BY <1>1, <3>2, <3>3
      <4> HIDE DEF a, b, s
      <4>2. SubSeq(v1.input, b + 1, Len(v1.input)) = SubSeq(s, (a + b) + 1, Len(s))
        BY <4>1, DropDrop
      <4> QED
        BY <3>3, <4>2 DEF a, b, s
    <3> QED
      BY <3>1, <3>4
  <2> QED
    BY <2>2, <2>3, <2>4
<1> QED
  BY <1>0, <1>24, <1>25

--------------------------------------------------------------------------------
(* Versions: a recursion over the cells, by induction on their number. *)

\* Natural numbers are well founded, so a set of them has a least element...
LEMMA LeastNumber == ASSUME NEW T \in SUBSET Nat, T # {} PROVE \E x \in T : \A y \in T : x <= y
<1> DEFINE R == OpToRel(<, Nat)
<1>1. IsWellFoundedOn(R, Nat)
  BY NatLessThanWellFounded
<1>2. \A x, y \in Nat : x < y => <<x, y>> \in R
  BY DEF OpToRel
<1> HIDE DEF R
<1>3. PICK x \in T : \A y \in T : ~(<<y, x>> \in R)
  BY <1>1, WFMin
<1>4. ASSUME NEW y \in T PROVE ~(y < x)
  BY <1>2, <1>3, Zenon
<1> QED BY <1>4

\* ...which is induction, for a set T instead of a predicate.
LEMMA Induction == ASSUME NEW T, 0 \in T, \A n \in Nat : n \in T => n + 1 \in T PROVE Nat \subseteq T
<1> SUFFICES ASSUME Nat \ T # {} PROVE FALSE
  OBVIOUS
<1> DEFINE U == Nat \ T
<1>1. PICK x \in U : \A y \in U : x <= y
  <2>1. U \in SUBSET Nat /\ U # {}
    OBVIOUS
  <2> HIDE DEF U
  <2> QED
    BY <2>1, LeastNumber
<1>2. x # 0 /\ x - 1 \in Nat
  BY <1>1
<1>3. x - 1 \in T
  BY <1>1, <1>2
<1> QED BY <1>2, <1>3

\* F[i] makes step i of a recursion over values of S.
StepsOn(n, S) == [1..n -> [S -> S]]
Recursive(n, base, F, g) == g[0] = base /\ \A i \in 1..n : g[i] = F[i][g[i - 1]]

\* A recursion over 0..n has a solution.
LEMMA Recursion ==
    ASSUME NEW n \in Nat, NEW S, NEW base \in S, NEW F \in StepsOn(n, S)
    PROVE  \E g \in [0..n -> S] : Recursive(n, base, F, g)
<1> USE DEF StepsOn, Recursive
<1> DEFINE Steps(k, g) == g[0] = base /\ \A i \in 1..k : g[i] = F[i][g[i - 1]]
           T == {k \in Nat : k <= n => \E g \in [0..k -> S] : Steps(k, g)}
<1>1. 0 \in T
  <2>1. [i \in 0..0 |-> base] \in [0..0 -> S] /\ Steps(0, [i \in 0..0 |-> base])
    OBVIOUS
  <2> QED
    BY <2>1
<1>2. ASSUME NEW k \in Nat, k \in T PROVE k + 1 \in T
  <2> SUFFICES ASSUME k + 1 <= n PROVE \E h \in [0..(k + 1) -> S] : Steps(k + 1, h)
    OBVIOUS
  <2>1. PICK g \in [0..k -> S] : Steps(k, g)
    BY <1>2
  <2>2. F[k + 1][g[k]] \in S
    OBVIOUS
  <2> DEFINE h == [i \in 0..(k + 1) |-> IF i = k + 1 THEN F[k + 1][g[k]] ELSE g[i]]
  <2>3. h \in [0..(k + 1) -> S]
    BY <2>2
  <2>4. ASSUME NEW i \in 1..(k + 1) PROVE h[i] = F[i][h[i - 1]]
    <3>1. CASE i = k + 1
      <4>1. h[k] = g[k] /\ h[k + 1] = F[k + 1][g[k]]
        OBVIOUS
      <4> QED
        BY <3>1, <4>1
    <3>2. CASE i # k + 1
      <4>1. i \in 1..k /\ i - 1 \in 0..k
        BY <3>2
      <4>2. h[i] = g[i] /\ h[i - 1] = g[i - 1]
        BY <4>1
      <4> QED
        BY <2>1, <4>1, <4>2
    <3> QED
      BY <3>1, <3>2
  <2>5. h[0] = base
    BY <2>1
  <2> QED
    BY <2>3, <2>4, <2>5
<1>3. n \in T
  <2> HIDE DEF T
  <2> QED
    BY <1>1, <1>2, Induction
<1> QED
  BY <1>3

\* What the first value has, and every step keeps, every value has.
LEMMA Throughout ==
    ASSUME NEW n \in Nat, NEW S, NEW g, g[0] \in S, \A i \in 1..n : g[i - 1] \in S => g[i] \in S
    PROVE  \A i \in 0..n : g[i] \in S
<1> DEFINE T == {k \in Nat : k <= n => g[k] \in S}
<1>1. 0 \in T
  OBVIOUS
<1>2. ASSUME NEW k \in Nat, k \in T PROVE k + 1 \in T
  BY <1>2
<1>3. Nat \subseteq T
  <2> HIDE DEF T
  <2> QED
    BY <1>1, <1>2, Induction
<1> QED
  BY <1>3

\* Quotient and remainder.
LEMMA Divided == ASSUME NEW v \in Nat, NEW w \in Nat, w > 1
  PROVE /\ v \div w \in Nat /\ v % w \in 0..(w-1) /\ v = w * (v \div w) + (v % w)
<1>1. v % w \in 0..(w-1)
  OBVIOUS
<1>2. v \div w \in Nat
  OBVIOUS
<1>3. v = w * (v \div w) + (v % w)
  OBVIOUS
<1> QED BY <1>1, <1>2, <1>3

\* The recursive definitions of Put64 and Get64 have the values they say.
LEMMA ShiftedDef ==
  ASSUME NEW v \in Nat
  PROVE  /\ Shifted(v) \in [0..VersionCells -> Nat]
         /\ Shifted(v)[0] = v
         /\ \A i \in 1..VersionCells : Shifted(v)[i] = Shifted(v)[i - 1] \div Word
<1> DEFINE F == [i \in 1..VersionCells |-> [r \in Nat |-> r \div Word]]
           Def(g) == [i \in 0..VersionCells |-> IF i = 0 THEN v ELSE g[i - 1] \div Word]
<1>w. VersionCells \in Nat /\ Word \in Nat /\ Word > 1
  BY WireAssumption
<1>1. /\ F \in StepsOn(VersionCells, Nat)
      /\ \A i \in 1..VersionCells, r \in Nat : F[i][r] = r \div Word
  BY <1>w, Divided DEF StepsOn
<1> HIDE DEF F
<1>2. PICK g \in [0..VersionCells -> Nat] : Recursive(VersionCells, v, F, g)
  BY <1>1, <1>w, Recursion
<1>3. g = Def(g)
  <2>1. ASSUME NEW i \in 1..VersionCells PROVE g[i] = g[i - 1] \div Word
    <3>1. i - 1 \in 0..VersionCells /\ g[i - 1] \in Nat
      BY <1>w
    <3> QED
      BY <1>1, <1>2, <3>1 DEF Recursive
  <2>2. ASSUME NEW i \in 0..VersionCells PROVE g[i] = Def(g)[i]
    BY <1>2, <1>w, <2>1 DEF Recursive
  <2> QED
    BY <2>2
<1>4. Shifted(v) = Def(Shifted(v))
  <2>1. Shifted(v) = CHOOSE f : f = Def(f)
    BY DEF Shifted
  <2> HIDE DEF Def
  <2> QED
    BY <1>3, <2>1
<1> DEFINE f == Shifted(v)
<1>5. f[0] = v /\ \A i \in 1..VersionCells : f[i] = f[i - 1] \div Word
  <2> HIDE DEF f
  <2>1. \A i \in 0..VersionCells : f[i] = IF i = 0 THEN v ELSE f[i - 1] \div Word
    BY <1>4 DEF f
  <2> QED
    BY <1>w, <2>1
<1>6. \A i \in 0..VersionCells : f[i] \in Nat
  <2> HIDE DEF f
  <2>1. ASSUME NEW i \in 1..VersionCells, f[i - 1] \in Nat PROVE f[i] \in Nat
    <3>1. f[i] = f[i - 1] \div Word
      BY <1>5
    <3>2. f[i - 1] \div Word \in Nat
      BY <1>w, <2>1
    <3> QED
      BY <3>1, <3>2
  <2> QED
    BY <1>5, <1>w, <2>1, Throughout
<1>7. f \in [0..VersionCells -> Nat]
  BY <1>4, <1>6
<1> QED
  BY <1>5, <1>7

\* The recursion of Get64.
LEMMA CollectedDef ==
  ASSUME NEW cells \in [1..VersionCells -> Nat]
  PROVE  /\ Collected(cells)[0] = 0
         /\ \A i \in 1..VersionCells : Collected(cells)[i] = cells[VersionCells + 1 - i] + Word * Collected(cells)[i - 1]
<1> DEFINE F == [i \in 1..VersionCells |-> [r \in Nat |-> cells[VersionCells + 1 - i] + Word * r]]
           Def(g) == [i \in 0..VersionCells |-> IF i = 0 THEN 0 ELSE cells[VersionCells + 1 - i] + Word * g[i - 1]]
<1>w. VersionCells \in Nat /\ Word \in Nat /\ Word > 1
  BY WireAssumption
<1>1. ASSUME NEW i \in 1..VersionCells, NEW r \in Nat
      PROVE  cells[VersionCells + 1 - i] + Word * r \in Nat
  <2>1. cells[VersionCells + 1 - i] \in Nat
    BY <1>w
  <2> QED
    BY <1>w, <2>1
<1>2. /\ F \in StepsOn(VersionCells, Nat)
      /\ \A i \in 1..VersionCells, r \in Nat : F[i][r] = cells[VersionCells + 1 - i] + Word * r
  BY <1>w, <1>1 DEF StepsOn
<1> HIDE DEF F
<1>3. PICK g \in [0..VersionCells -> Nat] : Recursive(VersionCells, 0, F, g)
  BY <1>2, <1>w, Recursion
<1>4. g = Def(g)
  <2>1. ASSUME NEW i \in 1..VersionCells PROVE g[i] = cells[VersionCells + 1 - i] + Word * g[i - 1]
    <3>1. i - 1 \in 0..VersionCells /\ g[i - 1] \in Nat
      BY <1>w
    <3> QED
      BY <1>2, <1>3, <3>1 DEF Recursive
  <2>2. ASSUME NEW i \in 0..VersionCells PROVE g[i] = Def(g)[i]
    BY <1>3, <1>w, <2>1 DEF Recursive
  <2> QED
    BY <2>2
<1>5. Collected(cells) = Def(Collected(cells))
  <2>1. Collected(cells) = CHOOSE f : f = Def(f)
    BY DEF Collected
  <2> HIDE DEF Def
  <2> QED
    BY <1>4, <2>1
<1> DEFINE f == Collected(cells)
<1> HIDE DEF f
<1>6. \A i \in 0..VersionCells : f[i] = IF i = 0 THEN 0 ELSE cells[VersionCells + 1 - i] + Word * f[i - 1]
  BY <1>5 DEF f
<1>7. f[0] = 0
  BY <1>w, <1>6
<1>8. ASSUME NEW i \in 1..VersionCells PROVE f[i] = cells[VersionCells + 1 - i] + Word * f[i - 1]
  <2>1. i \in 0..VersionCells /\ i # 0
    BY <1>w
  <2> QED
    BY <1>6, <2>1
<1> QED
  BY <1>7, <1>8 DEF f

\* A version that has no more cells than VersionCells.
LEMMA VersionRoundTrip ==
  ASSUME NEW v \in Nat, Shifted(v)[VersionCells] = 0
  PROVE  /\ Put64(v) \in [1..VersionCells -> Cell]
         /\ Get64(Put64(v)) = v
<1>w. VersionCells \in Nat /\ Word \in Nat /\ Word > 1
  BY WireAssumption
<1> DEFINE s == Shifted(v)
           cells == Put64(v)
           g == Collected(cells)
<1>1. /\ s \in [0..VersionCells -> Nat] /\ s[0] = v
      /\ \A i \in 1..VersionCells : s[i] = s[i - 1] \div Word
  BY ShiftedDef
<1>2. /\ DOMAIN cells = 1..VersionCells
      /\ \A i \in 1..VersionCells : cells[i] = s[i - 1] % Word
  BY DEF Put64
<1> HIDE DEF s
<1>3. ASSUME NEW i \in 1..VersionCells
      PROVE  /\ s[i - 1] \in Nat /\ s[i] \in Nat /\ cells[i] \in Cell
             /\ s[i - 1] = cells[i] + Word * s[i]
  <2>1. s[i - 1] \in Nat /\ s[i] \in Nat
    BY <1>1, <1>w
  <2>2. s[i - 1] % Word \in 0..(Word - 1) /\ s[i - 1] = Word * (s[i - 1] \div Word) + (s[i - 1] % Word)
    BY <1>w, <2>1, Divided
  <2>3. cells[i] = s[i - 1] % Word /\ s[i] = s[i - 1] \div Word
    BY <1>1, <1>2
  <2> DEFINE p == Word * s[i]
  <2>4. p \in Nat
    BY <1>w, <2>1
  <2>5. s[i - 1] = p + cells[i] /\ cells[i] \in 0..(Word - 1)
    BY <2>2, <2>3
  <2> HIDE DEF p
  <2>6. s[i - 1] = cells[i] + p
    BY <1>w, <2>1, <2>4, <2>5
  <2> QED
    BY <2>1, <2>5, <2>6 DEF p, Cell
<1>4. cells \in [1..VersionCells -> Cell]
  <2>1. cells = [i \in 1..VersionCells |-> cells[i]]
    BY <1>2 DEF Put64
  <2> QED
    BY <1>3, <2>1
<1>5. /\ g[0] = 0
      /\ \A i \in 1..VersionCells : g[i] = cells[VersionCells + 1 - i] + Word * g[i - 1]
  <2>1. cells \in [1..VersionCells -> Nat]
    BY <1>4, <1>w DEF Cell
  <2> HIDE DEF cells
  <2> QED
    BY <2>1, CollectedDef
<1> HIDE DEF cells, g
<1> DEFINE T == {k \in Nat : k <= VersionCells => g[k] = s[VersionCells - k]}
<1>6. 0 \in T
  <2>1. s[VersionCells] = 0 /\ VersionCells - 0 = VersionCells
    BY <1>w DEF s
  <2> QED
    BY <1>5, <2>1
<1>7. ASSUME NEW k \in Nat, k \in T PROVE k + 1 \in T
  <2> SUFFICES ASSUME k + 1 <= VersionCells PROVE g[k + 1] = s[VersionCells - (k + 1)]
    OBVIOUS
  <2> DEFINE i == VersionCells - k
  <2>1. /\ i \in 1..VersionCells /\ i - 1 = VersionCells - (k + 1)
        /\ k + 1 \in 1..VersionCells /\ VersionCells + 1 - (k + 1) = i /\ (k + 1) - 1 = k
    BY <1>w
  <2>2. g[k] = s[i]
    BY <1>7, <1>w
  <2>3. g[k + 1] = cells[i] + Word * g[k]
    <3>1. g[k + 1] = cells[VersionCells + 1 - (k + 1)] + Word * g[(k + 1) - 1]
      BY <1>5, <2>1, Zenon
    <3> QED
      BY <2>1, <3>1
  <2> HIDE DEF i
  <2>4. s[i - 1] = cells[i] + Word * s[i]
    BY <1>3, <2>1
  <2> QED
    BY <2>1, <2>2, <2>3, <2>4
<1>8. VersionCells \in T
  <2> HIDE DEF T
  <2> QED
    BY <1>6, <1>7, <1>w, Induction
<1>9. g[VersionCells] = v
  <2>1. VersionCells - VersionCells = 0
    BY <1>w
  <2> QED
    BY <1>1, <1>8, <1>w, <2>1
<1> QED
  BY <1>4, <1>9 DEF cells, g, Get64

--------------------------------------------------------------------------------
(* Messages. *)

\* Concatenation is associative,
LEMMA Associative ==
    ASSUME NEW C, NEW s \in Seq(C), NEW t \in Seq(C), NEW u \in Seq(C)
    PROVE  (s \o t) \o u = s \o (t \o u)
BY ConcatAssociative

\* ... also of cells.
LEMMA AssociativeCells == \A s, t, u \in Seq(Cell) : (s \o t) \o u = s \o (t \o u)
BY Associative

\* A message begins with three cells: kind, tag and a length.
LEMMA HeaderFirst ==
    ASSUME NEW x \in Cell, NEW y \in Cell, NEW n \in Cell, NEW s \in Seq(Cell)
    PROVE  <<x, y>> \o (<<n>> \o s) = <<x, y, n>> \o s
<1> DEFINE p == <<x, y>>
           q == <<n>>
<1>1. p \in Seq(Cell) /\ q \in Seq(Cell)
  OBVIOUS
<1>2. p \o q = <<x, y, n>>
  <2>1. p \o q \in Seq(Cell) /\ Len(p \o q) = 3 /\ <<x, y, n>> \in Seq(Cell) /\ Len(<<x, y, n>>) = 3
    OBVIOUS
  <2>2. (p \o q)[1] = x /\ (p \o q)[2] = y /\ (p \o q)[3] = n
    OBVIOUS
  <2>3. \A i \in 1..3 : (p \o q)[i] = <<x, y, n>>[i]
    BY <2>2
  <2> HIDE DEF p, q
  <2> QED
    BY <2>1, <2>3, SeqEqual
<1> HIDE DEF p, q
<1>3. (p \o q) \o s = p \o (q \o s)
  BY <1>1
<1> QED
  BY <1>2, <1>3 DEF p, q

\* The header of a message, in pieces.
LEMMA Pieces ==
    ASSUME NEW x \in Cell, NEW y \in Cell, NEW n \in Cell
    PROVE  <<x, y, n>> = <<x>> \o <<y, n>> /\ <<x, y, n>> = <<x, y>> \o <<n>> /\ <<y, n>> = <<y>> \o <<n>>
<1>2. ASSUME NEW s \in Seq(Cell), Len(s) = 3, s[1] = x, s[2] = y, s[3] = n PROVE s = <<x, y, n>>
  BY <1>2, SeqEqual
<1>3. ASSUME NEW s \in Seq(Cell), Len(s) = 2, s[1] = y, s[2] = n PROVE s = <<y, n>>
  BY <1>3, SeqEqual
<1>4. <<x, y, n>> = <<x>> \o <<y, n>>
  <2> DEFINE s == <<x>> \o <<y, n>>
  <2>1. s \in Seq(Cell) /\ Len(s) = 3 /\ s[1] = x /\ s[2] = y /\ s[3] = n
    OBVIOUS
  <2> HIDE DEF s
  <2> QED
    BY <1>2, <2>1 DEF s
<1>5. <<x, y, n>> = <<x, y>> \o <<n>>
  <2> DEFINE s == <<x, y>> \o <<n>>
  <2>1. s \in Seq(Cell) /\ Len(s) = 3 /\ s[1] = x /\ s[2] = y /\ s[3] = n
    OBVIOUS
  <2> HIDE DEF s
  <2> QED
    BY <1>2, <2>1 DEF s
<1>6. <<y, n>> = <<y>> \o <<n>>
  <2> DEFINE s == <<y>> \o <<n>>
  <2>1. s \in Seq(Cell) /\ Len(s) = 2 /\ s[1] = y /\ s[2] = n
    OBVIOUS
  <2> HIDE DEF s
  <2> QED
    BY <1>3, <2>1 DEF s
<1> QED
  BY <1>4, <1>5, <1>6

\* A string shorter than Word keeps its length.
LEMMA PutsDef ==
    ASSUME NEW s \in Seq(Cell), Len(s) < Word
    PROVE  Puts(s) = <<Len(s)>> \o s /\ Puts(s) \in Seq(Cell) /\ Len(s) \in Cell
<1>1. Word \in Nat /\ Word > 1 /\ Len(s) \in Nat
  BY WireAssumption
<1>2. Len(s) % Word = Len(s) /\ Len(s) \in Cell
  BY <1>1, Modulo DEF Cell
<1>3. <<Len(s)>> \in Seq(Cell)
  BY <1>2
<1> QED
  BY <1>2, <1>3, ConcatTyped DEF Puts

\* The text that a get, an error or an auth message carries.
Text(m) == IF m.kind = KindGet THEN m.key ELSE m.value

\* The encoding of an encodable message, cell by cell.
LEMMA TextEncoded ==
    ASSUME NEW m, Encodable(m), m.kind # KindPut
    PROVE  /\ Text(m) \in Seq(Cell) /\ Len(Text(m)) \in Cell
           /\ m.kind \in {KindGet, KindError, KindAuth} /\ m.kind \in Cell /\ m.tag \in Cell
           /\ Encode(m) = <<m.kind, m.tag, Len(Text(m))>> \o Text(m)
           /\ m = IF m.kind = KindGet THEN NewGetMessage(m.tag, Text(m))
                  ELSE NewMessage(m.kind, m.tag, <<>>, Text(m), 0)
<1> USE DEF KindGet, KindPut, KindError, KindAuth
<1> DEFINE text == Text(m)
<1>1. /\ m.kind \in Cell /\ m.tag \in Cell /\ text \in Seq(Cell)
  BY DEF Encodable, Text
<1>2. /\ m.kind \in {KindGet, KindError, KindAuth} /\ Len(text) < Word
      /\ m = IF m.kind = KindGet THEN NewGetMessage(m.tag, text)
             ELSE NewMessage(m.kind, m.tag, <<>>, text, 0)
  <2>1. CASE m = NewGetMessage(m.tag, m.key) /\ Len(m.key) < Word
    <3>1. m.kind = KindGet
      BY <2>1 DEF NewGetMessage, NewMessage
    <3> QED
      BY <2>1, <3>1 DEF Text
  <2>2. CASE m = NewErrorMessage(m.tag, m.value) /\ Len(m.value) < Word
    <3>1. m.kind = KindError
      BY <2>2 DEF NewErrorMessage, NewMessage
    <3> QED
      BY <2>2, <3>1 DEF Text, NewErrorMessage
  <2>3. CASE m = NewAuthMessage(m.tag, m.value) /\ Len(m.value) < Word
    <3>1. m.kind = KindAuth
      BY <2>3 DEF NewAuthMessage, NewMessage
    <3> QED
      BY <2>3, <3>1 DEF Text, NewAuthMessage
  <2>4. CASE m = NewPutMessage(m.tag, m.key, m.value, m.version)
    BY <2>4 DEF NewPutMessage, NewMessage
  <2> QED
    BY <2>1, <2>2, <2>3, <2>4 DEF Encodable
<1>3. Encode(m) = <<m.kind, m.tag>> \o Puts(text)
  <2>1. CASE m.kind = KindGet
    BY <2>1 DEF Encode, Text
  <2>2. CASE m.kind \in {KindError, KindAuth}
    BY <2>2 DEF Encode, Text
  <2> QED
    BY <1>2, <2>1, <2>2
<1> HIDE DEF text
<1>4. Puts(text) = <<Len(text)>> \o text /\ Len(text) \in Cell
  BY <1>1, <1>2, PutsDef
<1>5. Encode(m) = <<m.kind, m.tag, Len(text)>> \o text
  <2> DEFINE x == m.kind
             y == m.tag
             n == Len(text)
  <2>1. x \in Cell /\ y \in Cell /\ n \in Cell /\ text \in Seq(Cell)
    BY <1>1, <1>4
  <2> HIDE DEF x, y, n
  <2>2. <<x, y>> \o (<<n>> \o text) = <<x, y, n>> \o text
    BY <2>1, HeaderFirst
  <2> QED
    BY <1>3, <1>4, <2>2 DEF x, y, n
<1> QED
  BY <1>1, <1>2, <1>4, <1>5 DEF text

\* The cells of a put, piece by piece.
LEMMA PutEncoded ==
    ASSUME NEW m, Encodable(m), m.kind = KindPut
    PROVE  /\ m.key \in Seq(Cell) /\ m.value \in Seq(Cell) /\ Put64(m.version) \in Seq(Cell)
           /\ Len(m.key) \in Cell /\ Len(m.value) \in Cell /\ Len(Put64(m.version)) = VersionCells
           /\ Len(m.key) + 1 < Word /\ Len(m.value) + VersionCells < Word
           /\ m.kind \in Cell /\ m.tag \in Cell
           /\ Encode(m) = <<m.kind, m.tag, Len(m.key)>> \o
                              ((m.key \o <<Len(m.value)>>) \o (m.value \o Put64(m.version)))
           /\ m = NewPutMessage(m.tag, m.key, m.value, Get64(Put64(m.version)))
<1> USE DEF KindGet, KindPut, KindError, KindAuth
<1>w. VersionCells \in Nat /\ VersionCells > 0 /\ Word \in Nat /\ Word > 1
  BY WireAssumption
<1> DEFINE k == m.key
           v == m.value
           ver == Put64(m.version)
<1>1. /\ m.kind \in Cell /\ m.tag \in Cell /\ k \in Seq(Cell) /\ v \in Seq(Cell) /\ m.version \in Nat
  BY DEF Encodable
<1>2. /\ m = NewPutMessage(m.tag, k, v, m.version)
      /\ Len(k) + 1 < Word /\ Len(v) + VersionCells < Word
      /\ Shifted(m.version)[VersionCells] = 0
  <2>1. m.kind # KindPut \/ (m # NewGetMessage(m.tag, m.key) /\ m # NewErrorMessage(m.tag, m.value) /\ m # NewAuthMessage(m.tag, m.value))
    BY DEF NewGetMessage, NewErrorMessage, NewAuthMessage, NewMessage
  <2> QED
    BY <2>1 DEF Encodable
<1>3. ver \in [1..VersionCells -> Cell] /\ Get64(ver) = m.version
  BY <1>1, <1>2, VersionRoundTrip
<1>4. Encode(m) = <<m.kind, m.tag>> \o (Puts(k) \o Puts(v) \o ver)
  BY DEF Encode
<1> HIDE DEF k, v, ver
<1>5. ver \in Seq(Cell) /\ Len(ver) = VersionCells
  BY <1>3, <1>w
<1>6. /\ Puts(k) = <<Len(k)>> \o k /\ Len(k) \in Cell
      /\ Puts(v) = <<Len(v)>> \o v /\ Len(v) \in Cell
  <2>1. Len(k) < Word /\ Len(v) < Word
    BY <1>1, <1>2, <1>w
  <2> QED
    BY <1>1, <2>1, PutsDef
<1> DEFINE a == <<Len(k)>>
           b == <<Len(v)>>
<1>7. a \in Seq(Cell) /\ b \in Seq(Cell)
  BY <1>6
<1>8. Puts(k) \o Puts(v) \o ver = a \o ((k \o b) \o (v \o ver))
  <2>1. Puts(k) = a \o k /\ Puts(v) = b \o v
    BY <1>6
  <2> HIDE DEF a, b
  <2>2. ((a \o k) \o (b \o v)) \o ver = a \o ((k \o b) \o (v \o ver))
    <3>0. a \in Seq(Cell) /\ b \in Seq(Cell) /\ k \in Seq(Cell) /\ v \in Seq(Cell) /\ ver \in Seq(Cell)
      BY <1>1, <1>5, <1>7
    <3>1. a \o k \in Seq(Cell) /\ b \o v \in Seq(Cell) /\ v \o ver \in Seq(Cell) /\ b \o (v \o ver) \in Seq(Cell)
      BY <3>0
    <3> DEFINE p == a \o k
               q == b \o v
               w == v \o ver
               z == b \o w
    <3>2. (p \o q) \o ver = p \o (q \o ver)
      <4>1. p \in Seq(Cell) /\ q \in Seq(Cell) /\ ver \in Seq(Cell)
        BY <3>0, <3>1
      <4> HIDE DEF p, q
      <4> QED
        BY <4>1, AssociativeCells
    <3>3. q \o ver = z
      BY <3>0, AssociativeCells
    <3>4. p \o z = a \o (k \o z)
      <4>1. z \in Seq(Cell) /\ a \in Seq(Cell) /\ k \in Seq(Cell)
        BY <3>0, <3>1
      <4> HIDE DEF z
      <4> QED
        BY <4>1, AssociativeCells
    <3>5. (k \o b) \o w = k \o (b \o w)
      <4>1. w \in Seq(Cell) /\ k \in Seq(Cell) /\ b \in Seq(Cell)
        BY <3>0, <3>1
      <4> HIDE DEF w
      <4> QED
        BY <4>1, AssociativeCells
    <3> HIDE DEF p, q, w, z
    <3> QED
      BY <3>2, <3>3, <3>4, <3>5 DEF p, q, w, z
  <2> QED
    BY <2>1, <2>2
<1> DEFINE rest == (k \o b) \o (v \o ver)
<1>9. rest \in Seq(Cell)
  <2>1. k \o b \in Seq(Cell) /\ v \o ver \in Seq(Cell)
    <3> HIDE DEF b
    <3> QED
      BY <1>1, <1>5, <1>7, ConcatTyped
  <2> HIDE DEF b
  <2> QED
    BY <2>1, ConcatTyped
<1>10. Encode(m) = <<m.kind, m.tag>> \o (a \o rest)
  BY <1>4, <1>8
<1> HIDE DEF rest
<1>11. Encode(m) = <<m.kind, m.tag, Len(k)>> \o rest
  <2> DEFINE x == m.kind
             y == m.tag
             n == Len(k)
  <2>1. x \in Cell /\ y \in Cell /\ n \in Cell
    BY <1>1, <1>6
  <2> HIDE DEF x, y, n
  <2>2. <<x, y>> \o (<<n>> \o rest) = <<x, y, n>> \o rest
    BY <1>9, <2>1, HeaderFirst
  <2> QED
    BY <1>10, <2>2 DEF x, y, n
<1> QED
  BY <1>1, <1>2, <1>3, <1>5, <1>6, <1>11 DEF rest, k, v, ver

\* An encoded message is a sequence of cells.
LEMMA EncodeTyped ==
    ASSUME NEW m, Encodable(m)
    PROVE  Encode(m) \in Seq(Cell) /\ Len(Encode(m)) >= 3
<1>1. \E s \in Seq(Cell), n \in Cell : Encode(m) = <<m.kind, m.tag, n>> \o s
  <2>1. CASE m.kind = KindPut
    <3>1. <<Len(m.value)>> \in Seq(Cell)
      <4>1. Len(m.value) \in Cell
        BY <2>1, PutEncoded
      <4> QED
        BY <4>1
    <3>2. (m.key \o <<Len(m.value)>>) \o (m.value \o Put64(m.version)) \in Seq(Cell)
      BY <2>1, <3>1, PutEncoded, ConcatTyped
    <3> QED
      BY <2>1, <3>2, PutEncoded
  <2>2. CASE m.kind # KindPut
    BY <2>2, TextEncoded
  <2> QED
    BY <2>1, <2>2
<1>2. PICK s \in Seq(Cell), n \in Cell : Encode(m) = <<m.kind, m.tag, n>> \o s
  BY <1>1
<1>3. <<m.kind, m.tag, n>> \in Seq(Cell) /\ Len(<<m.kind, m.tag, n>>) = 3
  BY DEF Encodable
<1> QED
  BY <1>2, <1>3, ConcatTyped

\* The decoder in front of an encodable message, some of which has arrived: it
\* fails if and only if the end is missing, and otherwise returns the message
\* and leaves what follows it.  What its buffer held before does not matter.
LEMMA DecodeAgrees ==
    ASSUME NEW m, Encodable(m), NEW dec \in DecodersOn(Cell), NEW in \in Seq(Cell), Agrees(in, Encode(m))
    PROVE  LET r == Decode(dec, in)
               l == Len(Encode(m))
           IN
           /\ r.d.err <=> Len(in) < l
           /\ ~r.d.err => /\ r.m = m /\ ~r.d.panic
                          /\ r.d.input = SubSeq(in, l + 1, Len(in))
<1> USE DEF KindGet, KindPut, KindError, KindAuth
<1>w. VersionCells \in Nat /\ VersionCells > 0 /\ Word \in Nat /\ Word > 1
  BY WireAssumption
<1>c. Cell \in SUBSET Nat /\ 0 \in Cell
  BY <1>w DEF Cell
<1> DEFINE put == m.kind = KindPut
           n == IF put THEN Len(m.key) ELSE Len(Text(m))
           rest == IF put THEN (m.key \o <<Len(m.value)>>) \o (m.value \o Put64(m.version)) ELSE Text(m)
           top == <<m.kind, m.tag, n>>
           d == Decoding(dec, in)
           header == Read(d, HeaderCells)
           kind == Get(header)
           tag == Get(After(header, 1))
           body == After(header, 2)
           r == Decode(dec, in)
<1>1. /\ m.kind \in Cell /\ m.tag \in Cell /\ n \in Cell /\ rest \in Seq(Cell)
      /\ Encode(m) = top \o rest
  <2>1. CASE put
    <3>1. /\ m.kind \in Cell /\ m.tag \in Cell /\ Len(m.key) \in Cell /\ Len(m.value) \in Cell
          /\ m.key \in Seq(Cell) /\ m.value \in Seq(Cell) /\ Put64(m.version) \in Seq(Cell)
          /\ Encode(m) = <<m.kind, m.tag, Len(m.key)>> \o
                              ((m.key \o <<Len(m.value)>>) \o (m.value \o Put64(m.version)))
      BY <2>1, PutEncoded
    <3>2. <<Len(m.value)>> \in Seq(Cell)
      BY <3>1
    <3>3. (m.key \o <<Len(m.value)>>) \o (m.value \o Put64(m.version)) \in Seq(Cell)
      BY <3>1, <3>2, ConcatTyped
    <3> QED
      BY <2>1, <3>1, <3>3
  <2>2. CASE ~put
    BY <2>2, TextEncoded
  <2> QED
    BY <2>1, <2>2, ConcatTyped
<1>2. d \in DecodingOn(Cell)
  BY DEF Decoding, DecodersOn, DecodingOn
<1>3. ~d.err /\ ~d.panic /\ d.input = in
  BY DEF Decoding
<1>4. top \in Seq(Cell) /\ Len(top) = 3 /\ Len(in) \in Nat /\ Len(rest) \in Nat /\ Len(Encode(m)) = 3 + Len(rest)
  <2> HIDE DEF n, rest, put
  <2>1. top \in Seq(Cell)
    BY <1>1
  <2>5. Len(top) = 3
    OBVIOUS
  <2> HIDE DEF top
  <2>2. rest \in Seq(Cell)
    BY <1>1
  <2>3. Len(in) \in Nat /\ Len(rest) \in Nat
    BY <2>2
  <2>4. Len(top \o rest) = Len(top) + Len(rest)
    BY <2>1, <2>2, ConcatTyped
  <2> QED
    BY <1>1, <2>1, <2>3, <2>4, <2>5
<1> HIDE DEF n, rest, put, top, d
<1>5. header \in DecodingOn(Cell)
  BY <1>2, <1>c, ReadTyped DEF HeaderCells
<1>6. /\ header.panic = d.panic
      /\ header.err <=> Len(in) < 3
      /\ ~header.err => /\ Holds(header, top) /\ Agrees(header.input, rest)
                        /\ header.input = SubSeq(in, 3 + 1, Len(in))
                        /\ Len(header.input) = Len(in) - 3
  <2>1. Agrees(d.input, top \o rest)
    BY <1>1, <1>3
  <2>2. LET q == Read(d, Len(top)) IN
        /\ q.panic = d.panic
        /\ q.err <=> Len(d.input) < Len(top)
        /\ ~q.err => /\ Holds(q, top) /\ Agrees(q.input, rest)
                     /\ q.input = SubSeq(d.input, Len(top) + 1, Len(d.input))
                     /\ Len(q.input) = Len(d.input) - Len(top)
    BY <1>1, <1>2, <1>3, <1>4, <1>c, <2>1, ReadAgrees
  <2> QED
    BY <1>3, <1>4, <2>2 DEF HeaderCells
<1> HIDE DEF header
<1>7. body \in DecodingOn(Cell)
  BY <1>5, AfterTyped
<1>8. body.err = header.err /\ body.input = header.input
  BY <1>5, AfterDef
<1>9. ASSUME ~header.err
      PROVE  kind = m.kind /\ tag = m.tag /\ Holds(body, <<n>>) /\ body.panic = header.panic
  <2>1. /\ top = <<m.kind>> \o <<m.tag, n>> /\ top = <<m.kind, m.tag>> \o <<n>>
        /\ <<m.kind>> \in Seq(Cell) /\ <<m.tag, n>> \in Seq(Cell)
        /\ <<m.kind, m.tag>> \in Seq(Cell) /\ <<n>> \in Seq(Cell) /\ Len(<<m.kind, m.tag>>) = 2
        /\ <<m.tag, n>> = <<m.tag>> \o <<n>>
    <3> DEFINE x == m.kind
               y == m.tag
    <3>1. x \in Cell /\ y \in Cell /\ n \in Cell /\ top = <<x, y, n>>
      BY <1>1 DEF top
    <3> HIDE DEF x, y
    <3>2. <<x, y, n>> = <<x>> \o <<y, n>>
      BY <3>1, Pieces
    <3>3. <<x, y, n>> = <<x, y>> \o <<n>>
      BY <3>1, Pieces
    <3>4. <<y, n>> = <<y>> \o <<n>>
      BY <3>1, Pieces
    <3>5. <<x>> \in Seq(Cell) /\ <<y, n>> \in Seq(Cell) /\ <<x, y>> \in Seq(Cell) /\ <<n>> \in Seq(Cell) /\ Len(<<x, y>>) = 2
      BY <3>1
    <3> QED
      BY <3>1, <3>2, <3>3, <3>4, <3>5 DEF x, y
  <2> DEFINE x == m.kind
             y == m.tag
             p == <<y, n>>
             pair == <<x, y>>
             last == <<n>>
  <2>2. /\ x \in Cell /\ y \in Cell /\ n \in Cell
        /\ p \in Seq(Cell) /\ pair \in Seq(Cell) /\ last \in Seq(Cell) /\ Len(pair) = 2
        /\ top = <<x>> \o p /\ top = pair \o last /\ p = <<y>> \o last /\ Holds(header, top)
    BY <1>1, <1>6, <1>9, <2>1
  <2> HIDE DEF x, y, p, pair, last
  <2>3. Get(header) = x /\ Holds(After(header, 1), p)
    BY <1>5, <1>c, <2>2, GetHeld
  <2>4. After(header, 1) \in DecodingOn(Cell)
    BY <1>5, AfterTyped
  <2>5. Get(After(header, 1)) = y
    BY <1>c, <2>2, <2>3, <2>4, GetHeld
  <2>6. Holds(body, last) /\ body.panic = header.panic
    BY <1>5, <1>c, <2>2, GetsHeld
  <2> QED
    BY <2>3, <2>5, <2>6 DEF x, y, last
<1>10. r = CASE kind = KindPut -> DecodePut(body, tag)
             [] kind \in {KindGet, KindError, KindAuth} -> DecodeText(body, kind, tag)
             [] OTHER -> Decoded(body, NewMessage(kind, tag, <<>>, <<>>, 0))
  BY DEF Decode, d, header
<1> HIDE DEF body, r, kind, tag
<1>11. CASE header.err
  <2>1. r.d.err
    <3>1. CASE kind = KindPut
      <4>1. DecodePut(body, tag).d.err
        BY <1>7, <1>8, <1>11, <1>c, PutTyped
      <4> QED
        BY <1>10, <3>1, <4>1
    <3>2. CASE kind \in {KindGet, KindError, KindAuth} /\ kind # KindPut
      <4>1. DecodeText(body, kind, tag).d.err
        BY <1>7, <1>8, <1>11, <1>c, TextTyped
      <4> QED
        BY <1>10, <3>2, <4>1
    <3>3. CASE kind \notin {KindGet, KindError, KindAuth, KindPut}
      <4>1. r = Decoded(body, NewMessage(kind, tag, <<>>, <<>>, 0))
        BY <1>10, <3>3
      <4> QED
        BY <1>8, <1>11, <4>1 DEF Decoded
    <3> QED
      BY <3>1, <3>2, <3>3
  <2>2. Len(in) < Len(Encode(m))
    BY <1>4, <1>6, <1>11
  <2> QED
    BY <2>1, <2>2 DEF r
<1>12. CASE ~header.err
  <2> DEFINE l == Len(rest)
  <2>1. /\ r.d.err <=> Len(body.input) < l
        /\ ~r.d.err => r.m = m /\ r.d.panic = body.panic /\ r.d.input = SubSeq(body.input, l + 1, Len(body.input))
    <3>1. CASE put
      <4>1. r = DecodePut(body, m.tag)
        BY <1>9, <1>10, <1>12, <3>1 DEF put
      <4> DEFINE k == m.key
                 v == m.value
                 cells == Put64(m.version)
      <4>2. /\ k \in Seq(Cell) /\ v \in Seq(Cell) /\ cells \in Seq(Cell) /\ Len(cells) = VersionCells
            /\ Len(k) \in Cell /\ Len(v) \in Cell
            /\ Len(k) + 1 < Word /\ Len(v) + VersionCells < Word
            /\ m = NewPutMessage(m.tag, k, v, Get64(cells))
        BY <3>1, PutEncoded DEF put
      <4>3. n = Len(k) /\ rest = (k \o <<Len(v)>>) \o (v \o cells)
        BY <3>1 DEF n, rest
      <4> HIDE DEF k, v, cells
      <4>4. l = Len(k) + 1 + Len(v) + VersionCells
        <5>1. <<Len(v)>> \in Seq(Cell) /\ Len(<<Len(v)>>) = 1
          BY <4>2
        <5>2. k \o <<Len(v)>> \in Seq(Cell) /\ Len(k \o <<Len(v)>>) = Len(k) + 1
          BY <4>2, <5>1, ConcatTyped
        <5>3. v \o cells \in Seq(Cell) /\ Len(v \o cells) = Len(v) + VersionCells
          BY <4>2, ConcatTyped
        <5>4. l = (Len(k) + 1) + (Len(v) + VersionCells)
          BY <4>3, <5>2, <5>3, ConcatTyped
        <5>5. Len(k) \in Nat /\ Len(v) \in Nat
          BY <4>2
        <5> QED
          BY <1>w, <5>4, <5>5
      <4>5. ~body.err /\ Holds(body, <<Len(k)>>) /\ Agrees(body.input, (k \o <<Len(v)>>) \o (v \o cells))
        BY <1>6, <1>8, <1>9, <1>12, <4>3
      <4>6. LET q == DecodePut(body, m.tag)
                h == Len(k) + 1 + Len(v) + VersionCells
            IN
            /\ q.d.err <=> Len(body.input) < h
            /\ ~q.d.err => /\ q.d.panic = body.panic
                           /\ q.d.input = SubSeq(body.input, h + 1, Len(body.input))
                           /\ q.m = NewPutMessage(m.tag, k, v, Get64(cells))
        BY <1>7, <1>c, <4>2, <4>5, PutDecoded
      <4> HIDE DEF l
      <4> QED
        BY <4>1, <4>2, <4>4, <4>6
    <3>2. CASE ~put
      <4> DEFINE text == Text(m)
      <4>1. /\ text \in Seq(Cell) /\ Len(text) \in Cell
            /\ m.kind \in {KindGet, KindError, KindAuth} /\ m.kind # KindPut
            /\ m = IF m.kind = KindGet THEN NewGetMessage(m.tag, text)
                   ELSE NewMessage(m.kind, m.tag, <<>>, text, 0)
        BY <3>2, TextEncoded DEF put
      <4>2. r = DecodeText(body, m.kind, m.tag)
        BY <1>9, <1>10, <1>12, <4>1
      <4>3. n = Len(text) /\ rest = text
        BY <3>2 DEF n, rest
      <4> HIDE DEF text
      <4>4. ~body.err /\ Holds(body, <<Len(text)>>) /\ Agrees(body.input, text)
        BY <1>6, <1>8, <1>9, <1>12, <4>3
      <4>5. LET q == DecodeText(body, m.kind, m.tag) IN
            /\ q.d.err <=> Len(body.input) < Len(text)
            /\ ~q.d.err => /\ q.d.panic = body.panic
                           /\ q.d.input = SubSeq(body.input, Len(text) + 1, Len(body.input))
                           /\ q.m = IF m.kind = KindGet THEN NewGetMessage(m.tag, text)
                                    ELSE NewMessage(m.kind, m.tag, <<>>, text, 0)
        BY <1>7, <1>c, <4>1, <4>4, TextDecoded
      <4> QED
        BY <4>1, <4>2, <4>3, <4>5
    <3> QED
      BY <3>1, <3>2
  <2>2. /\ body.input = SubSeq(in, 3 + 1, Len(in)) /\ Len(body.input) = Len(in) - 3
        /\ ~body.panic /\ Len(in) >= 3 /\ l \in Nat
    BY <1>3, <1>4, <1>6, <1>8, <1>9, <1>12
  <2> HIDE DEF l
  <2>3. r.d.err <=> Len(in) < 3 + l
    BY <1>4, <2>1, <2>2
  <2>4. ASSUME ~r.d.err PROVE r.d.input = SubSeq(in, (3 + l) + 1, Len(in))
    <3>1. 3 + l <= Len(in)
      BY <1>4, <2>2, <2>3, <2>4
    <3> DEFINE t == body.input
    <3>2. t = SubSeq(in, 3 + 1, Len(in)) /\ r.d.input = SubSeq(t, l + 1, Len(t))
      BY <2>1, <2>2, <2>4
    <3> HIDE DEF t
    <3> QED
      BY <2>2, <3>1, <3>2, DropDrop
  <2> QED
    BY <1>4, <2>1, <2>2, <2>3, <2>4 DEF l, r
<1> QED
  BY <1>11, <1>12

--------------------------------------------------------------------------------
(* Types. *)

\* C holds every cell a message is encoded with, and what fresh buffers hold.
Carried(C) ==
    /\ C \in SUBSET Nat /\ C \subseteq Cell /\ 0 \in C
    /\ \A m \in Messages \cup Replies : Encode(m) \in Seq(C)

ConnsOn(C) ==
    [client : {"none", "open", "closed"}, up : BOOLEAN, handler : {"reading", "done"},
     decoder : DecodersOn(C), toServer : Seq(C), toClient : Seq(C), half : BOOLEAN, torn : BOOLEAN]

Points == {"idle", "dialling", "using", "failed"}
Goroutines == [at : Points, conn : {NoConn} \cup Conns, msg : Messages \cup {NoMessage}]

Total(f) == f = [c \in Conns |-> f[c]]

TypeInv(C) ==
    /\ conn \in [Conns -> ConnsOn(C)]
    /\ decoder \in DecodersOn(C)
    /\ proc \in [Procs -> Goroutines]
    /\ cur \in {NoConn} \cup Conns
    /\ cur # NoConn => conn[cur].client = "open"
    /\ \A p \in Procs :
        /\ proc[p].at = "using" => proc[p].conn # NoConn /\ conn[proc[p].conn].client # "none"
        /\ p \in Senders /\ proc[p].at # "idle" => proc[p].msg \in Messages
    /\ \A c \in Conns : conn[c].torn => conn[c].half
    /\ sent \in [Conns -> Seq(Messages)] /\ answered \in [Conns -> Seq(Replies)]
    /\ Total(got) /\ Total(received)
    /\ panicked \in BOOLEAN
    /\ sends \in 0..MaxSends /\ failures \in 0..MaxFailures

\* The types hold at the start,
LEMMA TypeInit ==
    ASSUME NEW C, Carried(C), Init
    PROVE  TypeInv(C)
<1>1. Conns \subseteq Nat /\ NoConn \notin Conns
  BY ClientAssumption DEF Conns, NoConn
<1>2. NewDecoder \in DecodersOn(C)
  BY DEF NewDecoder, DecodersOn
<1>3. Fresh \in ConnsOn(C)
  BY <1>2 DEF Fresh, ConnsOn
<1>4. Idle \in Goroutines /\ Idle.at = "idle"
  BY DEF Idle, Goroutines, Points
<1>5. conn \in [Conns -> ConnsOn(C)] /\ \A c \in Conns : ~conn[c].torn
  BY <1>3 DEF Init, Fresh
<1>6. proc \in [Procs -> Goroutines] /\ \A p \in Procs : proc[p].at = "idle"
  BY <1>4 DEF Init
<1>7. sent \in [Conns -> Seq(Messages)] /\ answered \in [Conns -> Seq(Replies)]
  BY DEF Init
<1>8. Total(got) /\ Total(received)
  BY DEF Init, Total
<1>9. sends \in 0..MaxSends /\ failures \in 0..MaxFailures
  BY ClientAssumption DEF Init
<1> QED
  BY <1>1, <1>2, <1>5, <1>6, <1>7, <1>8, <1>9 DEF Init, TypeInv

--------------------------------------------------------------------------------

\* What a step may do to one connection, as far as types go.
Typed(C, old, new) ==
    /\ new \in ConnsOn(C)
    /\ new.client = old.client
    /\ new.torn => new.half

\* Goroutines stay where they are, or leave the connection they used.
ProcsLeave ==
    /\ proc' \in [Procs -> Goroutines]
    /\ \A p \in Procs :
        \/ proc'[p] = proc[p]
        \/ proc'[p].at = "idle"
        \/ proc'[p].at = "failed" /\ proc'[p].msg = proc[p].msg /\ proc[p].at # "idle"

\* The other variables.
OthersTyped(C) ==
    /\ decoder' \in DecodersOn(C) /\ cur' = cur
    /\ sent' \in [Conns -> Seq(Messages)] /\ answered' \in [Conns -> Seq(Replies)]
    /\ Total(got') /\ Total(received')
    /\ panicked' \in BOOLEAN /\ sends' = sends /\ failures' \in 0..MaxFailures

\* A step on connection c that leaves its client's end alone.
LEMMA TypeKept ==
    ASSUME NEW C, TypeInv(C), NEW c \in Conns, NEW new, Typed(C, conn[c], new),
           conn' = [conn EXCEPT ![c] = new],
           ProcsLeave, OthersTyped(C)
    PROVE  TypeInv(C)'
<1>1. conn' \in [Conns -> ConnsOn(C)]
  BY DEF TypeInv, Typed
<1>2. \A b \in Conns : conn'[b].client = conn[b].client
  BY DEF TypeInv, Typed
<1>3. \A b \in Conns : conn'[b].torn => conn'[b].half
  BY DEF TypeInv, Typed
<1>4. cur' \in {NoConn} \cup Conns /\ (cur' # NoConn => conn'[cur'].client = "open")
  BY <1>2 DEF TypeInv, OthersTyped
<1>5. ASSUME NEW p \in Procs
      PROVE  /\ proc'[p].at = "using" => proc'[p].conn # NoConn /\ conn'[proc'[p].conn].client # "none"
             /\ p \in Senders /\ proc'[p].at # "idle" => proc'[p].msg \in Messages
  <2>1. proc[p].conn \in {NoConn} \cup Conns
    BY DEF TypeInv, Goroutines
  <2>2. CASE proc'[p] = proc[p]
    <3>1. proc[p].at = "using" => proc[p].conn \in Conns /\ conn[proc[p].conn].client # "none"
      BY <2>1 DEF TypeInv
    <3> QED
      BY <1>2, <2>2, <3>1 DEF TypeInv
  <2>3. CASE proc'[p].at = "idle"
    BY <2>3
  <2>4. CASE proc'[p].at = "failed" /\ proc'[p].msg = proc[p].msg /\ proc[p].at # "idle"
    BY <2>4 DEF TypeInv
  <2> QED
    BY <2>2, <2>3, <2>4 DEF ProcsLeave
<1> QED
  BY <1>1, <1>3, <1>4, <1>5 DEF TypeInv, ProcsLeave, OthersTyped

\* What At, GoTo and Return do to the goroutines.
LEMMA Failed ==
    ASSUME NEW C, TypeInv(C), NEW p \in Procs, proc[p].at # "idle", GoTo(p, "failed")
    PROVE  ProcsLeave
<1>1. proc \in [Procs -> Goroutines] /\ proc[p] \in Goroutines
  BY DEF TypeInv
<1> DEFINE new == [proc[p] EXCEPT !.at = "failed"]
<1>2. new \in Goroutines /\ new.at = "failed" /\ new.msg = proc[p].msg
  BY <1>1 DEF Goroutines, Points
<1>3. proc' = [proc EXCEPT ![p] = new]
  BY <1>1 DEF GoTo
<1> HIDE DEF new
<1> QED
  BY <1>1, <1>2, <1>3 DEF ProcsLeave

LEMMA Returned ==
    ASSUME NEW C, TypeInv(C), NEW p \in Procs, Return(p)
    PROVE  ProcsLeave
<1>1. proc \in [Procs -> Goroutines]
  BY DEF TypeInv
<1>2. Idle \in Goroutines /\ Idle.at = "idle"
  BY DEF Idle, Goroutines, Points
<1> QED
  BY <1>1, <1>2 DEF Return, ProcsLeave

LEMMA Counted ==
    ASSUME NEW C, TypeInv(C), CountFailure
    PROVE  failures' \in 0..MaxFailures
BY ClientAssumption DEF TypeInv, CountFailure

\* A record of ConnsOn with some of its fields replaced.
LEMMA Fields ==
    ASSUME NEW C, NEW r \in ConnsOn(C)
    PROVE  /\ r = [client |-> r.client, up |-> r.up, handler |-> r.handler, decoder |-> r.decoder,
                   toServer |-> r.toServer, toClient |-> r.toClient, half |-> r.half, torn |-> r.torn]
           /\ r.client \in {"none", "open", "closed"} /\ r.up \in BOOLEAN /\ r.handler \in {"reading", "done"}
           /\ r.decoder \in DecodersOn(C) /\ r.toServer \in Seq(C) /\ r.toClient \in Seq(C)
           /\ r.half \in BOOLEAN /\ r.torn \in BOOLEAN
BY DEF ConnsOn

\* Each action keeps the types.
LEMMA WriteType ==
    ASSUME NEW C, Carried(C), TypeInv(C), NEW p \in Procs, NEW c \in Conns, Write(p, c)
    PROVE  TypeInv(C)'
<1> DEFINE m == proc[p].msg
           old == conn[c]
           out == IF old.up THEN old.toServer \o Encode(m) ELSE old.toServer
           new == [old EXCEPT !.toServer = out, !.torn = old.half]
<1>1. p \in Senders /\ proc[p].at = "using" /\ m \in Messages
  BY DEF Write, Using, At, TypeInv
<1>2. old \in ConnsOn(C) /\ Encode(m) \in Seq(C)
  BY <1>1 DEF TypeInv, Carried
<1>3. out \in Seq(C)
  BY <1>2, Fields, ConcatTyped
<1>4. conn' = [conn EXCEPT ![c] = new]
  BY DEF Write, Written, TypeInv
<1> HIDE DEF out
<1>5. Typed(C, old, new)
  BY <1>2, <1>3 DEF Typed, ConnsOn
<1>6. sent' \in [Conns -> Seq(Messages)]
  BY <1>1 DEF Write, TypeInv
<1> HIDE DEF new, m
<1>7. ProcsLeave
  BY Returned DEF Write
<1>t. OthersTyped(C)
  BY <1>6 DEF OthersTyped, TypeInv, Write
<1> QED
  BY <1>4, <1>5, <1>7, <1>t, TypeKept

LEMMA WriteFailsType ==
    ASSUME NEW C, Carried(C), TypeInv(C), NEW p \in Procs, NEW c \in Conns, WriteFails(p, c)
    PROVE  TypeInv(C)'
<1> DEFINE m == proc[p].msg
           old == conn[c]
<1>1. p \in Senders /\ proc[p].at = "using" /\ m \in Messages
  BY DEF WriteFails, Using, At, TypeInv
<1>2. old \in ConnsOn(C) /\ Encode(m) \in Seq(C) /\ Len(Encode(m)) \in Nat
  BY <1>1 DEF TypeInv, Carried
<1>3. PICK n \in 0..(Len(Encode(m)) - 1) :
        conn' = [Written(c, SubSeq(Encode(m), 1, n)) EXCEPT ![c].half = TRUE]
  BY DEF WriteFails
<1> DEFINE part == SubSeq(Encode(m), 1, n)
           out == IF old.up THEN old.toServer \o part ELSE old.toServer
           new == [old EXCEPT !.toServer = out, !.torn = old.half, !.half = TRUE]
<1>4. part \in Seq(C)
  <2> HIDE DEF m
  <2> QED
    BY <1>2
<1> HIDE DEF part
<1>5. out \in Seq(C)
  BY <1>2, <1>4, Fields, ConcatTyped
<1>6. conn' = [conn EXCEPT ![c] = new]
  BY <1>2, <1>3 DEF Written, TypeInv, part
<1> HIDE DEF out
<1>7. Typed(C, old, new)
  BY <1>2, <1>5 DEF Typed, ConnsOn
<1>8. GoTo(p, "failed")
  BY DEF WriteFails
<1> HIDE DEF new, m
<1>9. ProcsLeave
  BY <1>1, <1>8, Failed
<1>t. OthersTyped(C)
  BY Counted DEF OthersTyped, TypeInv, WriteFails, histories
<1> QED
  BY <1>6, <1>7, <1>9, <1>t, TypeKept

LEMMA ReadMessageType ==
    ASSUME NEW C, Carried(C), TypeInv(C), NEW c \in Conns, ReadMessage(c)
    PROVE  TypeInv(C)'
<1> DEFINE old == conn[c]
           r == Decode(decoder, old.toClient)
           new == [old EXCEPT !.toClient = r.d.input]
<1>1. old \in ConnsOn(C) /\ decoder \in DecodersOn(C) /\ old.toClient \in Seq(C)
  BY Fields DEF TypeInv
<1>2. r.d \in DecodingOn(C) /\ Kept(r.d) \in DecodersOn(C)
  BY <1>1, DecodeTyped DEF Carried
<1>3. /\ decoder' = Kept(r.d) /\ panicked' = r.d.panic
      /\ received' = [received EXCEPT ![c] = Append(@, r.m)]
      /\ conn' = [conn EXCEPT ![c].toClient = r.d.input]
      /\ UNCHANGED <<cur, sent, got, answered, sends, failures>>
  BY DEF ReadMessage
<1> HIDE DEF r
<1>4. r.d.input \in Seq(C) /\ r.d.panic \in BOOLEAN
  BY <1>2 DEF DecodingOn
<1>5. conn' = [conn EXCEPT ![c] = new]
  BY <1>3 DEF TypeInv
<1>6. Typed(C, old, new)
  BY <1>1, <1>4 DEF Typed, ConnsOn, TypeInv
<1>7. Total(received')
  BY <1>3 DEF TypeInv, Total
<1>8. ProcsLeave
  BY Returned DEF ReadMessage, Procs
<1> HIDE DEF new
<1>t. OthersTyped(C)
  BY <1>2, <1>3, <1>4, <1>7 DEF OthersTyped, TypeInv
<1> QED
  BY <1>5, <1>6, <1>8, <1>t, TypeKept

LEMMA ReadFailsType ==
    ASSUME NEW C, Carried(C), TypeInv(C), NEW c \in Conns, ReadFails(c)
    PROVE  TypeInv(C)'
<1> DEFINE old == conn[c]
           new == [old EXCEPT !.toClient = <<>>]
<1>1. old \in ConnsOn(C) /\ decoder \in DecodersOn(C) /\ old.toClient \in Seq(C)
  BY Fields DEF TypeInv
<1>2. PICK n \in 0..Len(old.toClient) :
        LET q == Decode(decoder, SubSeq(old.toClient, 1, n)) IN
        decoder' = Kept(q.d) /\ panicked' = q.d.panic /\ conn' = [conn EXCEPT ![c].toClient = <<>>]
  BY DEF ReadFails
<1> DEFINE in == SubSeq(old.toClient, 1, n)
           r == Decode(decoder, in)
<1>3. in \in Seq(C)
  BY <1>1
<1> HIDE DEF in
<1>4. r.d \in DecodingOn(C) /\ Kept(r.d) \in DecodersOn(C)
  BY <1>1, <1>3, DecodeTyped DEF Carried
<1>5. decoder' = Kept(r.d) /\ panicked' = r.d.panic
  BY <1>2 DEF in
<1> HIDE DEF r
<1>6. decoder' \in DecodersOn(C) /\ panicked' \in BOOLEAN
  BY <1>4, <1>5 DEF DecodingOn
<1>7. conn' = [conn EXCEPT ![c] = new]
  BY <1>2 DEF TypeInv
<1>8. Typed(C, old, new)
  <2>1. <<>> \in Seq(C) /\ (old.torn => old.half)
    BY DEF TypeInv
  <2> QED
    BY <1>1, <2>1 DEF Typed, ConnsOn
<1>9. ProcsLeave
  <2>1. Receiver \in Procs /\ proc[Receiver].at # "idle" /\ GoTo(Receiver, "failed")
    BY DEF ReadFails, Procs, Using, At
  <2> QED
    BY <2>1, Failed
<1> HIDE DEF new
<1>t. OthersTyped(C)
  BY <1>6 DEF OthersTyped, TypeInv, ReadFails, histories
<1> QED
  BY <1>7, <1>8, <1>9, <1>t, TypeKept

LEMMA ServerDecodeType ==
    ASSUME NEW C, Carried(C), TypeInv(C), NEW c \in Conns, NEW reply \in Replies, ServerDecode(c, reply)
    PROVE  TypeInv(C)'
<1> DEFINE old == conn[c]
           r == Decode(old.decoder, old.toServer)
           out == IF old.up /\ old.client = "open" THEN old.toClient \o Encode(reply) ELSE old.toClient
           new == [old EXCEPT !.decoder = Kept(r.d), !.toServer = r.d.input, !.toClient = out]
<1>1. old \in ConnsOn(C) /\ old.decoder \in DecodersOn(C) /\ old.toServer \in Seq(C) /\ old.toClient \in Seq(C)
  BY Fields DEF TypeInv
<1>2. r.d \in DecodingOn(C) /\ Kept(r.d) \in DecodersOn(C)
  BY <1>1, DecodeTyped DEF Carried
<1>3. /\ panicked' = r.d.panic
      /\ got' = [got EXCEPT ![c] = Append(@, r.m)]
      /\ answered' = [answered EXCEPT ![c] = Append(@, reply)]
      /\ conn' = [conn EXCEPT ![c].decoder = Kept(r.d), ![c].toServer = r.d.input, ![c].toClient = out]
      /\ UNCHANGED <<cur, proc, decoder, sent, received, sends, failures>>
  BY DEF ServerDecode
<1> HIDE DEF r
<1>4. r.d.input \in Seq(C) /\ r.d.panic \in BOOLEAN
  BY <1>2 DEF DecodingOn
<1>5. out \in Seq(C)
  BY <1>1, ConcatTyped DEF Carried
<1> HIDE DEF out
<1>6. conn' = [conn EXCEPT ![c] = new]
  BY <1>3 DEF TypeInv
<1>7. Typed(C, old, new)
  BY <1>1, <1>2, <1>4, <1>5 DEF Typed, ConnsOn, TypeInv
<1>8. Total(got') /\ answered' \in [Conns -> Seq(Replies)]
  <2>1. Total(got')
    BY <1>3 DEF TypeInv, Total
  <2>2. Append(answered[c], reply) \in Seq(Replies)
    BY DEF TypeInv
  <2> QED
    BY <1>3, <2>1, <2>2 DEF TypeInv
<1>9. ProcsLeave
  BY <1>3 DEF ProcsLeave, TypeInv
<1> HIDE DEF new
<1>t. OthersTyped(C)
  BY <1>3, <1>4, <1>8 DEF OthersTyped, TypeInv
<1> QED
  BY <1>6, <1>7, <1>9, <1>t, TypeKept

LEMMA ServerDoneType ==
    ASSUME NEW C, Carried(C), TypeInv(C), NEW c \in Conns, ServerDone(c)
    PROVE  TypeInv(C)'
<1> DEFINE old == conn[c]
           new == [old EXCEPT !.handler = "done", !.toServer = <<>>, !.decoder = NewDecoder]
<1>1. old \in ConnsOn(C) /\ old.decoder \in DecodersOn(C) /\ old.toServer \in Seq(C)
  BY Fields DEF TypeInv
<1>2. PICK n \in 0..Len(old.toServer) :
          panicked' = Decode(old.decoder, SubSeq(old.toServer, 1, n)).d.panic
  BY DEF ServerDone
<1> DEFINE in == SubSeq(old.toServer, 1, n)
           r == Decode(old.decoder, in)
<1>3. in \in Seq(C)
  BY <1>1
<1> HIDE DEF in
<1>4. panicked' \in BOOLEAN
  <2>1. r.d \in DecodingOn(C)
    BY <1>1, <1>3, DecodeTyped DEF Carried
  <2>2. panicked' = r.d.panic
    BY <1>2 DEF in
  <2> HIDE DEF r
  <2> QED
    BY <2>1, <2>2 DEF DecodingOn
<1>5. conn' = [conn EXCEPT ![c] = new]
  BY DEF TypeInv, ServerDone
<1>6. NewDecoder \in DecodersOn(C)
  BY DEF NewDecoder, DecodersOn
<1>7. Typed(C, old, new)
  <2>1. <<>> \in Seq(C) /\ (old.torn => old.half)
    BY DEF TypeInv
  <2> QED
    BY <1>1, <1>6, <2>1 DEF Typed, ConnsOn
<1>8. ProcsLeave
  BY DEF ProcsLeave, TypeInv, ServerDone
<1> HIDE DEF new
<1>t. OthersTyped(C)
  BY <1>4 DEF OthersTyped, TypeInv, ServerDone, histories
<1> QED
  BY <1>5, <1>7, <1>8, <1>t, TypeKept

LEMMA LinkDownType ==
    ASSUME NEW C, Carried(C), TypeInv(C), NEW c \in Conns, LinkDown(c)
    PROVE  TypeInv(C)'
<1> DEFINE old == conn[c]
<1>1. old \in ConnsOn(C) /\ old.toClient \in Seq(C) /\ old.toServer \in Seq(C)
  BY Fields DEF TypeInv
<1>2. PICK n \in 0..Len(old.toServer), k \in 0..Len(old.toClient) :
        conn' = [conn EXCEPT ![c].up = FALSE, ![c].toServer = SubSeq(@, 1, n), ![c].toClient = SubSeq(@, 1, k)]
  BY DEF LinkDown
<1> DEFINE a == SubSeq(old.toServer, 1, n)
           b == SubSeq(old.toClient, 1, k)
           new == [old EXCEPT !.up = FALSE, !.toServer = a, !.toClient = b]
<1>3. a \in Seq(C) /\ b \in Seq(C)
  BY <1>1
<1>4. conn' = [conn EXCEPT ![c] = new]
  BY <1>2 DEF TypeInv
<1> HIDE DEF a, b
<1>5. Typed(C, old, new)
  BY <1>1, <1>3 DEF Typed, ConnsOn, TypeInv
<1>6. ProcsLeave
  BY DEF ProcsLeave, TypeInv, LinkDown
<1> HIDE DEF new
<1>t. OthersTyped(C)
  BY Counted DEF OthersTyped, TypeInv, LinkDown, histories
<1> QED
  BY <1>4, <1>5, <1>6, <1>t, TypeKept

\* Steps that leave the connections, and what was sent on them, alone.
LEMMA ProcType ==
    ASSUME NEW C, TypeInv(C), UNCHANGED <<cur, conn, decoder, histories, panicked>>,
           proc' \in [Procs -> Goroutines],
           \A p \in Procs :
                \/ proc'[p] = proc[p]
                \/ /\ proc'[p].at # "using"
                   /\ p \in Senders => proc'[p].msg \in Messages,
           sends' \in 0..MaxSends, failures' \in 0..MaxFailures
    PROVE  TypeInv(C)'
<1>1. ASSUME NEW p \in Procs
      PROVE  /\ proc'[p].at = "using" => proc'[p].conn # NoConn /\ conn'[proc'[p].conn].client # "none"
             /\ p \in Senders /\ proc'[p].at # "idle" => proc'[p].msg \in Messages
  BY DEF TypeInv
<1> QED
  BY <1>1 DEF TypeInv, histories

LEMMA SendType ==
    ASSUME NEW C, TypeInv(C), NEW p \in Senders, NEW m \in Messages, Send(p, m)
    PROVE  TypeInv(C)'
<1> DEFINE new == [at |-> "dialling", conn |-> NoConn, msg |-> m]
<1>1. p \in Procs /\ new \in Goroutines /\ new.at # "using" /\ new.msg \in Messages
  BY DEF Procs, Goroutines, Points
<1>2. proc' = [proc EXCEPT ![p] = new] /\ proc \in [Procs -> Goroutines]
  BY DEF Send, TypeInv
<1> HIDE DEF new
<1>3. sends' \in 0..MaxSends /\ failures' \in 0..MaxFailures
  BY ClientAssumption DEF Send, TypeInv
<1>4. /\ proc' \in [Procs -> Goroutines]
      /\ \A q \in Procs : \/ proc'[q] = proc[q]
                          \/ proc'[q].at # "using" /\ (q \in Senders => proc'[q].msg \in Messages)
  BY <1>1, <1>2
<1>5. UNCHANGED <<cur, conn, decoder, histories, panicked>>
  BY DEF Send
<1> QED
  BY <1>3, <1>4, <1>5, ProcType

\* GoTo, to a point where no connection is used.
LEMMA Gone ==
    ASSUME NEW C, TypeInv(C), NEW p \in Procs, NEW at \in {"dialling", "failed"}, GoTo(p, at),
           p \in Senders => proc[p].at # "idle"
    PROVE  /\ proc' \in [Procs -> Goroutines]
           /\ \A q \in Procs : \/ proc'[q] = proc[q]
                               \/ proc'[q].at # "using" /\ (q \in Senders => proc'[q].msg \in Messages)
<1>1. proc \in [Procs -> Goroutines] /\ proc[p] \in Goroutines /\ (p \in Senders => proc[p].msg \in Messages)
  BY DEF TypeInv
<1> DEFINE new == [proc[p] EXCEPT !.at = at]
<1>2. new \in Goroutines /\ new.at = at /\ new.msg = proc[p].msg
  BY <1>1 DEF Goroutines, Points
<1>3. proc' = [proc EXCEPT ![p] = new]
  BY <1>1 DEF GoTo
<1> HIDE DEF new
<1> QED
  BY <1>1, <1>2, <1>3

LEMMA ReceiveType ==
    ASSUME NEW C, TypeInv(C), Receive
    PROVE  TypeInv(C)'
<1>1. Receiver \in Procs /\ Receiver \notin Senders /\ GoTo(Receiver, "dialling")
  BY ClientAssumption DEF Procs, Receive
<1>2. sends' \in 0..MaxSends /\ failures' \in 0..MaxFailures
  BY DEF Receive, TypeInv
<1>3. UNCHANGED <<cur, conn, decoder, histories, panicked>>
  BY DEF Receive
<1> QED
  BY <1>1, <1>2, <1>3, Gone, ProcType

LEMMA DialFailsType ==
    ASSUME NEW C, TypeInv(C), NEW p \in Procs, DialFails(p)
    PROVE  TypeInv(C)'
<1>1. GoTo(p, "failed") /\ proc[p].at # "idle"
  BY DEF DialFails, At
<1>2. sends' \in 0..MaxSends /\ failures' \in 0..MaxFailures
  BY Counted DEF DialFails, TypeInv
<1>3. UNCHANGED <<cur, conn, decoder, histories, panicked>>
  BY DEF DialFails
<1> QED
  BY <1>1, <1>2, <1>3, Gone, ProcType

LEMMA WriteToClosedType ==
    ASSUME NEW C, TypeInv(C), NEW p \in Procs, NEW c \in Conns, WriteToClosed(p, c)
    PROVE  TypeInv(C)'
<1>1. GoTo(p, "failed") /\ proc[p].at # "idle"
  BY DEF WriteToClosed, Using, At
<1>2. sends' \in 0..MaxSends /\ failures' \in 0..MaxFailures
  BY DEF WriteToClosed, TypeInv
<1>3. UNCHANGED <<cur, conn, decoder, histories, panicked>>
  BY DEF WriteToClosed
<1> QED
  BY <1>1, <1>2, <1>3, Gone, ProcType

LEMMA GetCachedConnType ==
    ASSUME NEW C, TypeInv(C), NEW p \in Procs, GetCachedConn(p)
    PROVE  TypeInv(C)'
<1>1. /\ At(p, "dialling") /\ proc' = [proc EXCEPT ![p].at = "using", ![p].conn = cur']
      /\ UNCHANGED <<decoder, sent, got, answered, received, panicked, sends>>
  BY DEF GetCachedConn, histories
<1>2. /\ conn' \in [Conns -> ConnsOn(C)] /\ cur' \in Conns /\ cur' # NoConn
      /\ conn'[cur'].client = "open" /\ failures' = failures
      /\ \A c \in Conns : /\ conn'[c].client # "none" \/ conn'[c] = conn[c]
                          /\ conn'[c].torn => conn'[c].half
  <2>0. NoConn \notin Conns
    BY ClientAssumption DEF Conns, NoConn
  <2>1. CASE cur # NoConn /\ UNCHANGED <<cur, conn, failures>>
    BY <2>0, <2>1 DEF TypeInv
  <2>2. CASE \E c \in Conns : Dial(c)
    <3>1. PICK c \in Conns : Dial(c)
      BY <2>2
    <3> DEFINE new == [conn[c] EXCEPT !.client = "open"]
    <3>2. conn[c] \in ConnsOn(C)
      BY DEF TypeInv
    <3>3. new \in ConnsOn(C) /\ new.client = "open" /\ new.torn = conn[c].torn /\ new.half = conn[c].half
      BY <3>2 DEF ConnsOn
    <3>4. conn' = [conn EXCEPT ![c] = new] /\ cur' = c /\ failures' = failures
      BY <3>1 DEF Dial, TypeInv
    <3> HIDE DEF new
    <3> QED
      BY <2>0, <3>3, <3>4 DEF TypeInv
  <2> QED
    BY <2>1, <2>2 DEF GetCachedConn
<1> DEFINE new == [proc[p] EXCEPT !.at = "using", !.conn = cur']
<1>3. proc \in [Procs -> Goroutines] /\ proc[p] \in Goroutines /\ (p \in Senders => proc[p].msg \in Messages)
  BY <1>1 DEF TypeInv, At
<1>4. new \in Goroutines /\ new.at = "using" /\ new.conn = cur' /\ new.msg = proc[p].msg
  BY <1>2, <1>3 DEF Goroutines, Points
<1>5. proc' = [proc EXCEPT ![p] = new]
  BY <1>1, <1>3
<1> HIDE DEF new
<1>6. proc' \in [Procs -> Goroutines]
  BY <1>3, <1>4, <1>5
<1>7. ASSUME NEW q \in Procs
      PROVE  /\ proc'[q].at = "using" => proc'[q].conn # NoConn /\ conn'[proc'[q].conn].client # "none"
             /\ q \in Senders /\ proc'[q].at # "idle" => proc'[q].msg \in Messages
  <2>1. CASE q = p
    BY <1>2, <1>3, <1>4, <1>5, <2>1
  <2>2. CASE q # p
    <3>1. proc'[q] = proc[q] /\ proc[q].conn \in {NoConn} \cup Conns
      BY <1>3, <1>5, <2>2 DEF Goroutines
    <3> QED
      BY <1>2, <3>1 DEF TypeInv
  <2> QED
    BY <2>1, <2>2
<1> QED
  BY <1>1, <1>2, <1>6, <1>7 DEF TypeInv

LEMMA CloseBothType ==
    ASSUME NEW C, TypeInv(C), NEW cached, CloseBoth(cached), ProcsLeave,
           UNCHANGED <<decoder, sent, got, answered, received, panicked, sends>>,
           failures' \in 0..MaxFailures
    PROVE  TypeInv(C)'
<1>1. ASSUME NEW c \in Conns
      PROVE  /\ conn'[c] \in ConnsOn(C)
             /\ conn'[c].torn => conn'[c].half
             /\ conn'[c].client = "none" => conn[c].client = "none"
  <2>1. conn[c] \in ConnsOn(C) /\ (conn[c].torn => conn[c].half)
    BY DEF TypeInv
  <2> DEFINE new == [conn[c] EXCEPT !.client = "closed"]
  <2>2. new \in ConnsOn(C) /\ new.torn = conn[c].torn /\ new.half = conn[c].half /\ new.client = "closed"
    BY <2>1 DEF ConnsOn
  <2>3. conn'[c] = new \/ conn'[c] = conn[c]
    BY DEF CloseBoth, Closed
  <2> HIDE DEF new
  <2> QED
    BY <2>1, <2>2, <2>3
<1>2. conn' \in [Conns -> ConnsOn(C)] /\ cur' = NoConn
  BY <1>1 DEF CloseBoth, Closed
<1>3. ASSUME NEW p \in Procs
      PROVE  /\ proc'[p].at = "using" => proc'[p].conn # NoConn /\ conn'[proc'[p].conn].client # "none"
             /\ p \in Senders /\ proc'[p].at # "idle" => proc'[p].msg \in Messages
  <2>1. proc[p].conn \in {NoConn} \cup Conns
    BY DEF TypeInv, Goroutines
  <2>2. CASE proc'[p] = proc[p]
    <3>1. proc[p].at = "using" => proc[p].conn \in Conns /\ conn[proc[p].conn].client # "none"
      BY <2>1 DEF TypeInv
    <3> QED
      BY <1>1, <2>2, <3>1 DEF TypeInv
  <2>3. CASE proc'[p].at = "idle"
    BY <2>3
  <2>4. CASE proc'[p].at = "failed" /\ proc'[p].msg = proc[p].msg /\ proc[p].at # "idle"
    BY <2>4 DEF TypeInv
  <2> QED
    BY <2>2, <2>3, <2>4 DEF ProcsLeave
<1> QED
  BY <1>1, <1>2, <1>3 DEF TypeInv, ProcsLeave

\* ... and every step keeps them.
LEMMA TypeStep ==
    ASSUME NEW C, Carried(C), TypeInv(C), [Next]_vars
    PROVE  TypeInv(C)'
<1>1. ASSUME NEW p \in Senders, NEW m \in Messages, Send(p, m) PROVE TypeInv(C)'
  BY <1>1, SendType
<1>2. CASE Receive
  BY <1>2, ReceiveType
<1>3. ASSUME NEW p \in Procs, GetCachedConn(p) \/ DialFails(p) PROVE TypeInv(C)'
  BY <1>3, GetCachedConnType, DialFailsType
<1>4. ASSUME NEW p \in Procs, ReturnError(p) PROVE TypeInv(C)'
  <2>1. ProcsLeave /\ failures' \in 0..MaxFailures
    BY <1>4, Returned DEF ReturnError, TypeInv
  <2>2. CloseBoth(proc[p].conn) /\ UNCHANGED <<decoder, sent, got, answered, received, panicked, sends>>
    BY <1>4 DEF ReturnError, histories
  <2> QED
    BY <2>1, <2>2, CloseBothType
<1>5. ASSUME NEW p \in Procs, NEW c \in Conns, Write(p, c) \/ WriteFails(p, c) \/ WriteToClosed(p, c)
      PROVE  TypeInv(C)'
  BY <1>5, WriteType, WriteFailsType, WriteToClosedType
<1>6. ASSUME NEW c \in Conns, ReadMessage(c) \/ ReadFails(c) \/ ServerDone(c) \/ LinkDown(c)
      PROVE  TypeInv(C)'
  BY <1>6, ReadMessageType, ReadFailsType, ServerDoneType, LinkDownType
<1>7. ASSUME NEW c \in Conns, NEW reply \in Replies, ServerDecode(c, reply) PROVE TypeInv(C)'
  BY <1>7, ServerDecodeType
<1>8. CASE Close
  <2>1. ProcsLeave /\ failures' \in 0..MaxFailures
    BY <1>8, Counted DEF Close, TypeInv, ProcsLeave
  <2>2. CloseBoth(NoConn) /\ UNCHANGED <<decoder, sent, got, answered, received, panicked, sends>>
    BY <1>8 DEF Close, histories
  <2> QED
    BY <2>1, <2>2, CloseBothType
<1>9. CASE UNCHANGED vars
  BY <1>9 DEF vars, histories, TypeInv
<1> QED
  BY <1>1, <1>2, <1>3, <1>4, <1>5, <1>6, <1>7, <1>8, <1>9 DEF Next

\* Every message survives its encoding.
EncodableMessages == \A m \in Messages \cup Replies : Encodable(m)

\* Messages that fit the format are carried as cells.
LEMMA EncodableCarried == EncodableMessages => Carried(Cell)
<1>1. Word \in Nat /\ Word > 1
  BY WireAssumption
<1>2. Cell \in SUBSET Nat /\ 0 \in Cell
  BY <1>1 DEF Cell
<1> QED
  BY <1>2, EncodeTyped DEF Carried, EncodableMessages

\* Variables keep their types in every run of clients, servers and links: a
\* decoder's buffer, kept from message to message and from connection to
\* connection, stays a sequence of cells, and so does what a link carries.
THEOREM TypeCorrectness == ASSUME EncodableMessages PROVE Spec => []TypeOK
<1>1. Init => TypeInv(Cell)
  BY EncodableCarried, TypeInit
<1>2. TypeInv(Cell) /\ [Next]_vars => TypeInv(Cell)'
  BY EncodableCarried, TypeStep
<1>3. TypeInv(Cell) => TypeOK
  <2> SUFFICES ASSUME TypeInv(Cell) PROVE TypeOK
    OBVIOUS
  <2>1. \A c \in Conns : conn[c] \in ConnsOn(Cell) /\ (conn[c].torn => conn[c].half)
    BY DEF TypeInv
  <2>2. \A p \in Procs : proc[p] \in Goroutines /\ (proc[p].at = "using" => conn[proc[p].conn].client # "none")
    BY DEF TypeInv
  <2>3. \A p \in Procs : proc[p].at \in {"idle", "dialling", "using", "failed"}
    BY <2>2 DEF Goroutines, Points
  <2>4. \A c \in Conns : /\ conn[c].client \in {"none", "open", "closed"} /\ conn[c].handler \in {"reading", "done"}
                         /\ conn[c].toServer \in Seq(Cell) /\ conn[c].toClient \in Seq(Cell)
    BY <2>1 DEF ConnsOn
  <2>5. cur \in {NoConn} \cup {c \in Conns : conn[c].client = "open"}
    BY DEF TypeInv
  <2> QED
    BY <2>1, <2>2, <2>3, <2>4, <2>5 DEF TypeInv, TypeOK, Histories
<1> QED
  BY <1>1, <1>2, <1>3, PTL DEF Spec

--------------------------------------------------------------------------------
(* Streams. *)

Before(s, t) == Len(s) <= Len(t) /\ Agrees(s, t)

\* The beginning of a message, without its end.
Partial(s) == \E m : Encodable(m) /\ Len(s) < Len(Encode(m)) /\ Agrees(s, Encode(m))

\* rem[j] is what was written after the first j messages of W.
Remains(W, rem) ==
    /\ rem \in [0..Len(W) -> Seq(Cell)]
    /\ \A j \in 1..Len(W) : rem[j - 1] = Encode(W[j]) \o rem[j]

\* W was written, and R decoded; cells are under way.  whole: there is no
\* partial message behind W.  exact: all that was written has arrived or will.
Stream(W, R, cells, whole, exact) ==
    /\ IsPrefixOf(R, W)
    /\ \E rem :
        /\ Remains(W, rem)
        /\ Partial(rem[Len(W)])
        /\ whole => rem[Len(W)] = <<>>
        /\ Before(cells, rem[Len(R)])
        /\ exact => cells = rem[Len(R)]

\* Nothing is the beginning of a message.
LEMMA EmptyPartial == Partial(<<>>)
<1> DEFINE m == NewGetMessage(0, <<>>)
<1>1. 0 \in Cell /\ Word \in Nat /\ Word > 1
  BY WireAssumption DEF Cell
<1>2. /\ m.kind = 0 /\ m.tag = 0 /\ m.key = <<>> /\ m.value = <<>> /\ m.version = 0
  BY DEF NewGetMessage, NewMessage, KindGet
<1>3. <<>> \in Seq(Cell) /\ Len(<<>>) < Word
  BY <1>1
<1>4. m = NewGetMessage(m.tag, m.key)
  BY <1>2
<1> HIDE DEF m
<1>5. Encodable(m)
  BY <1>1, <1>2, <1>3, <1>4 DEF Encodable
<1>6. Len(Encode(m)) >= 3 /\ Encode(m) \in Seq(Cell)
  BY <1>5, EncodeTyped
<1>7. Agrees(<<>>, Encode(m))
  BY <1>6 DEF Agrees
<1> QED
  BY <1>5, <1>6, <1>7 DEF Partial

\* A connection that nothing was written on.
LEMMA StreamEmpty == Stream(<<>>, <<>>, <<>>, TRUE, TRUE)
<1> DEFINE rem == [j \in 0..0 |-> <<>>]
<1>1. Remains(<<>>, rem) /\ rem[0] = <<>>
  BY DEF Remains
<1>2. IsPrefixOf(<<>>, <<>>) /\ Before(<<>>, <<>>) /\ Len(<<>>) = 0
  BY DEF IsPrefixOf, Before, Agrees
<1> HIDE DEF rem
<1> QED
  BY <1>1, <1>2, EmptyPartial DEF Stream

\* Cells may be lost behind the ones that arrive.
LEMMA StreamCut ==
    ASSUME NEW W, NEW R, NEW cells \in Seq(Cell), NEW whole, NEW exact,
           Stream(W, R, cells, whole, exact), NEW n \in 0..Len(cells)
    PROVE  Stream(W, R, SubSeq(cells, 1, n), whole, FALSE)
<1>1. PICK rem : /\ Remains(W, rem) /\ Partial(rem[Len(W)])
                 /\ whole => rem[Len(W)] = <<>>
                 /\ Before(cells, rem[Len(R)])
  BY DEF Stream
<1> DEFINE cut == SubSeq(cells, 1, n)
           t == rem[Len(R)]
<1>2. Len(cut) = n /\ \A i \in 1..n : cut[i] = cells[i]
  OBVIOUS
<1> HIDE DEF cut
<1>3. Before(cut, t)
  <2> HIDE DEF t
  <2>1. Len(cells) \in Nat /\ n <= Len(cells) /\ Before(cells, t)
    BY <1>1 DEF t
  <2>2. ASSUME NEW i \in 1..Len(t), i <= Len(cut) PROVE cut[i] = t[i]
    BY <1>2, <2>1, <2>2 DEF Before, Agrees
  <2>3. Len(cut) <= Len(t)
    BY <1>1, <1>2, <2>1 DEF Before
  <2> QED
    BY <2>2, <2>3 DEF Before, Agrees
<1> QED
  BY <1>1, <1>3 DEF Stream, cut

\* A prefix is no longer than the whole.
LEMMA PrefixLength ==
    ASSUME NEW M, NEW W \in Seq(M), NEW R, Len(R) <= Len(W), R = SubSeq(W, 1, Len(R))
    PROVE  Len(R) \in 0..Len(W)
OBVIOUS

\* A prefix is not changed by what is appended behind it.
LEMMA SamePrefix ==
    ASSUME NEW M, NEW W \in Seq(M), NEW m \in M, NEW k \in 0..Len(W)
    PROVE  SubSeq(Append(W, m), 1, k) = SubSeq(W, 1, k)
OBVIOUS

Extension(W, rem, x, k, cells, rem2) ==
    /\ Remains(W, rem2) /\ rem2[Len(W)] = x
    /\ Before(cells, rem2[k])
    /\ cells = rem[k] => cells \o x = rem2[k]

\* More cells are written behind messages that were written whole.
LEMMA Extended ==
    ASSUME NEW W, NEW rem, Remains(W, rem), Len(W) \in Nat, rem[Len(W)] = <<>>,
           \A j \in 1..Len(W) : Encode(W[j]) \in Seq(Cell),
           NEW x \in Seq(Cell), NEW k \in 0..Len(W), NEW cells \in Seq(Cell), Before(cells, rem[k])
    PROVE  \E rem2 : Extension(W, rem, x, k, cells, rem2)
<1> DEFINE rem2 == [j \in 0..Len(W) |-> rem[j] \o x]
<1>1. \A j \in 0..Len(W) : rem[j] \in Seq(Cell)
  BY DEF Remains
<1>2. \A j \in 0..Len(W) : rem2[j] = rem[j] \o x /\ rem[j] \o x \in Seq(Cell)
  BY <1>1, ConcatTyped
<1>3. ASSUME NEW j \in 1..Len(W) PROVE rem2[j - 1] = Encode(W[j]) \o rem2[j]
  <2> DEFINE e == Encode(W[j])
             s == rem[j]
  <2>0. j \in 0..Len(W) /\ j - 1 \in 0..Len(W)
    OBVIOUS
  <2>1. e \in Seq(Cell) /\ s \in Seq(Cell)
    BY <1>1, <2>0
  <2>2. rem[j - 1] = e \o s
    BY DEF Remains
  <2>3. rem2[j - 1] = rem[j - 1] \o x /\ rem2[j] = s \o x
    BY <1>2, <2>0
  <2> HIDE DEF e, s, rem2
  <2>4. (e \o s) \o x = e \o (s \o x)
    <3>1. e \in Seq(Cell) /\ s \in Seq(Cell) /\ x \in Seq(Cell)
      BY <2>1
    <3> QED
      BY <3>1, AssociativeCells
  <2> QED
    BY <2>2, <2>3, <2>4 DEF e
<1>4. Remains(W, rem2)
  <2>1. rem2 \in [0..Len(W) -> Seq(Cell)]
    BY <1>2
  <2> HIDE DEF rem2
  <2> QED
    BY <1>3, <2>1 DEF Remains
<1>5. rem2[Len(W)] = x
  <2>1. rem2[Len(W)] = <<>> \o x
    BY <1>2
  <2>2. <<>> \o x = x
    OBVIOUS
  <2> QED
    BY <2>1, <2>2
<1>6. rem2[k] = rem[k] \o x /\ rem[k] \in Seq(Cell)
  BY <1>1, <1>2
<1> HIDE DEF rem2
<1>7. Before(cells, rem2[k])
  <2> DEFINE s == rem[k]
             t == rem2[k]
  <2>1. s \in Seq(Cell) /\ t = s \o x /\ Before(cells, s)
    BY <1>6
  <2> HIDE DEF s, t
  <2>2. Len(t) = Len(s) + Len(x) /\ \A i \in 1..Len(s) : t[i] = s[i]
    BY <2>1
  <2>3. Len(s) \in Nat /\ Len(x) \in Nat /\ Len(cells) \in Nat /\ Len(cells) <= Len(s)
    BY <2>1 DEF Before
  <2>4. ASSUME NEW i \in 1..Len(t), i <= Len(cells) PROVE cells[i] = t[i]
    BY <2>1, <2>2, <2>3, <2>4 DEF Before, Agrees
  <2> QED
    BY <2>2, <2>3, <2>4 DEF Before, Agrees, t
<1>8. Extension(W, rem, x, k, cells, rem2)
  BY <1>4, <1>5, <1>6, <1>7 DEF Extension
<1> QED
  BY <1>8

\* A message, or a part of one, is written.  It is lost unless it can follow
\* all that was written before.
LEMMA StreamWrite ==
    ASSUME NEW M, \A x \in M : Encodable(x), NEW W \in Seq(M), NEW R, NEW cells \in Seq(Cell),
           NEW exact, NEW m \in M, NEW arrives, arrives => exact,
           Stream(W, R, cells, TRUE, exact)
    PROVE  Stream(Append(W, m), R, IF arrives THEN cells \o Encode(m) ELSE cells, TRUE, arrives)
<1> DEFINE e == Encode(m)
           n == Len(W)
           V == Append(W, m)
           out == IF arrives THEN cells \o e ELSE cells
           k == Len(R)
<1>1. /\ n \in Nat /\ e \in Seq(Cell) /\ \A j \in 1..n : W[j] \in M /\ Encode(W[j]) \in Seq(Cell)
  BY EncodeTyped
<1>2. Len(V) = n + 1 /\ V[n + 1] = m /\ \A j \in 1..n : V[j] = W[j]
  OBVIOUS
<1>3. k \in 0..n /\ IsPrefixOf(R, V)
  <2>1. IsPrefixOf(R, W)
    BY DEF Stream
  <2>2. R = SubSeq(W, 1, k) /\ k <= n
    BY <2>1 DEF IsPrefixOf
  <2>3. k \in 0..n
    BY <1>1, <2>2, PrefixLength
  <2>4. SubSeq(V, 1, k) = SubSeq(W, 1, k)
    BY <1>1, <1>2, <2>3, SamePrefix
  <2> QED
    BY <1>1, <1>2, <2>2, <2>3, <2>4 DEF IsPrefixOf
<1>4. PICK rem : /\ Remains(W, rem) /\ rem[n] = <<>>
                 /\ Before(cells, rem[k])
                 /\ exact => cells = rem[k]
  BY DEF Stream
<1> HIDE DEF e, n, V, k
<1>5. PICK rem2 : /\ Remains(W, rem2) /\ rem2[n] = e
                  /\ Before(cells, rem2[k])
                  /\ cells = rem[k] => cells \o e = rem2[k]
  <2>1. /\ Len(W) \in Nat /\ \A j \in 1..Len(W) : Encode(W[j]) \in Seq(Cell)
        /\ Remains(W, rem) /\ rem[Len(W)] = <<>> /\ k \in 0..Len(W) /\ Before(cells, rem[k])
        /\ e \in Seq(Cell)
    BY <1>1, <1>3, <1>4 DEF n
  <2>2. \E rem2 : Extension(W, rem, e, k, cells, rem2)
    BY <2>1, Extended
  <2> QED
    BY <2>2 DEF Extension, n
<1> DEFINE rem3 == [j \in 0..(n + 1) |-> IF j = n + 1 THEN <<>> ELSE rem2[j]]
<1>6. rem3[n + 1] = <<>> /\ (\A j \in 0..n : rem3[j] = rem2[j]) /\ rem3 \in [0..(n + 1) -> Seq(Cell)]
  <2>1. \A j \in 0..n : rem2[j] \in Seq(Cell)
    BY <1>5 DEF Remains, n
  <2>2. <<>> \in Seq(Cell) /\ n + 1 \in 0..(n + 1) /\ \A j \in 0..n : j \in 0..(n + 1) /\ j # n + 1
    BY <1>1
  <2>3. \A j \in 0..(n + 1) : j = n + 1 \/ j \in 0..n
    BY <1>1
  <2> QED
    BY <2>1, <2>2, <2>3
<1> HIDE DEF rem3
<1>7. Remains(V, rem3)
  <2>1. ASSUME NEW j \in 1..(n + 1) PROVE rem3[j - 1] = Encode(V[j]) \o rem3[j]
    <3>1. CASE j = n + 1
      <4>1. rem3[n] = e /\ rem3[n + 1] = <<>> /\ e = e \o <<>> /\ j - 1 = n /\ V[j] = m
        BY <1>1, <1>2, <1>5, <1>6, <3>1, ConcatEmpty
      <4> QED
        BY <3>1, <4>1 DEF e
    <3>2. CASE j # n + 1
      <4>1. j \in 1..n /\ j - 1 \in 0..n /\ j \in 0..n
        BY <1>1, <3>2
      <4>2. rem2[j - 1] = Encode(W[j]) \o rem2[j]
        BY <1>5, <4>1 DEF Remains, n
      <4> QED
        BY <1>2, <1>6, <4>1, <4>2
    <3> QED
      BY <3>1, <3>2
  <2> QED
    BY <1>2, <1>6, <2>1 DEF Remains
<1>8. rem3[k] = rem2[k]
  BY <1>3, <1>6
<1>9. Before(out, rem3[k]) /\ (arrives => out = rem3[k])
  <2>1. CASE arrives
    <3>1. out = rem3[k]
      BY <1>4, <1>5, <1>8, <2>1
    <3>2. rem3[k] \in Seq(Cell)
      BY <1>1, <1>3, <1>6
    <3> HIDE DEF out
    <3> QED
      BY <3>1, <3>2 DEF Before, Agrees
  <2>2. CASE ~arrives
    BY <1>5, <1>8, <2>2
  <2> QED
    BY <2>1, <2>2
<1> HIDE DEF out
<1>10. rem3[Len(V)] = <<>>
  BY <1>2, <1>6
<1>11. Stream(V, R, out, TRUE, arrives)
  BY <1>3, <1>7, <1>9, <1>10, EmptyPartial DEF Stream, k
<1> QED
  BY <1>11 DEF V, out, e

\* A write that fails half way leaves the beginning of a message behind.
LEMMA StreamHalf ==
    ASSUME NEW M, \A x \in M : Encodable(x), NEW W \in Seq(M), NEW R, NEW cells \in Seq(Cell),
           NEW exact, NEW m \in M, NEW arrives, arrives => exact,
           Stream(W, R, cells, TRUE, exact), NEW i \in 0..(Len(Encode(m)) - 1)
    PROVE  Stream(W, R, IF arrives THEN cells \o SubSeq(Encode(m), 1, i) ELSE cells, FALSE, FALSE)
<1> DEFINE e == Encode(m)
           n == Len(W)
           part == SubSeq(e, 1, i)
           out == IF arrives THEN cells \o part ELSE cells
           k == Len(R)
<1>1. /\ n \in Nat /\ e \in Seq(Cell) /\ Len(e) \in Nat /\ \A j \in 1..n : W[j] \in M /\ Encode(W[j]) \in Seq(Cell)
  BY EncodeTyped
<1>2. IsPrefixOf(R, W) /\ k \in 0..n
  <2>1. IsPrefixOf(R, W)
    BY DEF Stream
  <2> QED
    BY <1>1, <2>1, PrefixLength DEF IsPrefixOf
<1>3. i \in 0..(Len(e) - 1)
  OBVIOUS
<1> HIDE DEF e
<1>4. part \in Seq(Cell) /\ Len(part) = i /\ \A j \in 1..i : part[j] = e[j]
  BY <1>1, <1>3
<1> HIDE DEF part
<1>5. Partial(part)
  <2>1. Agrees(part, e) /\ Len(part) < Len(e)
    BY <1>1, <1>3, <1>4 DEF Agrees
  <2> QED
    BY <2>1 DEF Partial, e
<1>6. PICK rem : /\ Remains(W, rem) /\ rem[n] = <<>>
                 /\ Before(cells, rem[k])
                 /\ exact => cells = rem[k]
  BY DEF Stream
<1> HIDE DEF n, k
<1>7. PICK rem2 : /\ Remains(W, rem2) /\ rem2[n] = part
                  /\ Before(cells, rem2[k])
                  /\ cells = rem[k] => cells \o part = rem2[k]
  <2>1. /\ Len(W) \in Nat /\ \A j \in 1..Len(W) : Encode(W[j]) \in Seq(Cell)
        /\ Remains(W, rem) /\ rem[Len(W)] = <<>> /\ k \in 0..Len(W) /\ Before(cells, rem[k])
        /\ part \in Seq(Cell)
    BY <1>1, <1>2, <1>4, <1>6 DEF n
  <2>2. \E rem2 : Extension(W, rem, part, k, cells, rem2)
    BY <2>1, Extended
  <2> QED
    BY <2>2 DEF Extension, n
<1>8. Before(out, rem2[k])
  <2>1. CASE arrives
    <3>1. out = rem2[k]
      BY <1>6, <1>7, <2>1
    <3>2. rem2[k] \in Seq(Cell)
      BY <1>2, <1>7 DEF Remains, n
    <3> HIDE DEF out
    <3> QED
      BY <3>1, <3>2 DEF Before, Agrees
  <2>2. CASE ~arrives
    BY <1>7, <2>2
  <2> QED
    BY <2>1, <2>2
<1> HIDE DEF out
<1>9. Stream(W, R, out, FALSE, FALSE)
  BY <1>2, <1>5, <1>7, <1>8 DEF Stream, k, n
<1> QED
  BY <1>9 DEF out, part, e

\* The next element extends a prefix.
LEMMA PrefixNext ==
    ASSUME NEW M, NEW W \in Seq(M), NEW k \in 0..(Len(W) - 1)
    PROVE  Append(SubSeq(W, 1, k), W[k + 1]) = SubSeq(W, 1, k + 1)
<1> DEFINE a == Append(SubSeq(W, 1, k), W[k + 1])
           b == SubSeq(W, 1, k + 1)
<1>1. Len(W) \in Nat /\ W[k + 1] \in M
  OBVIOUS
<1>2. SubSeq(W, 1, k) \in Seq(M) /\ Len(SubSeq(W, 1, k)) = k /\ \A i \in 1..k : SubSeq(W, 1, k)[i] = W[i]
  OBVIOUS
<1>3. a \in Seq(M) /\ Len(a) = k + 1 /\ \A i \in 1..(k + 1) : a[i] = W[i]
  BY <1>1, <1>2
<1>4. b \in Seq(M) /\ Len(b) = k + 1 /\ \A i \in 1..(k + 1) : b[i] = W[i]
  BY <1>1
<1> HIDE DEF a, b
<1>5. a = b
  BY <1>3, <1>4, SeqEqual
<1> QED
  BY <1>5 DEF a, b

\* The rest of a stream, behind its first message.
Follows(e, s, cells, t) ==
    /\ Before(cells, e \o s) /\ Len(e) <= Len(cells)
    /\ t = SubSeq(cells, Len(e) + 1, Len(cells))

\* What is behind the first message of a stream.
LEMMA Behind ==
    ASSUME NEW e \in Seq(Cell), NEW s \in Seq(Cell), NEW cells \in Seq(Cell), NEW t, Follows(e, s, cells, t)
    PROVE  Before(t, s) /\ (cells = e \o s => t = s)
<1> USE DEF Follows
<1> DEFINE l == Len(e)
           n == Len(cells) - l
<1>1. l \in Nat /\ n \in Nat /\ Len(s) \in Nat /\ l + n = Len(cells) /\ Len(e \o s) = l + Len(s)
  OBVIOUS
<1>2. t \in Seq(Cell) /\ Len(t) = n /\ \A i \in 1..n : t[i] = cells[l + i]
  <2>1. t = SubSeq(cells, l + 1, l + n)
    BY <1>1
  <2>2. l \in Nat /\ n \in Nat /\ l + n <= Len(cells)
    BY <1>1
  <2> HIDE DEF l, n
  <2>3. LET g == SubSeq(cells, l + 1, l + n) IN
        g \in Seq(Cell) /\ Len(g) = n /\ \A i \in 1..n : g[i] = cells[l + i]
    BY <2>2, Slice
  <2> QED
    BY <2>1, <2>3
<1>3. n <= Len(s)
  BY <1>1 DEF Before
<1>4. ASSUME NEW i \in 1..n PROVE t[i] = s[i]
  <2>1. l + i \in 1..Len(e \o s) /\ l + i <= Len(cells) /\ (e \o s)[l + i] = s[i]
    BY <1>1, <1>3
  <2>2. cells[l + i] = (e \o s)[l + i]
    BY <2>1 DEF Before, Agrees
  <2> QED
    BY <1>2, <2>1, <2>2
<1> HIDE DEF l, n
<1>5. Before(t, s)
  BY <1>1, <1>2, <1>3, <1>4 DEF Before, Agrees
<1>6. ASSUME cells = e \o s PROVE t = s
  <2>1. Len(t) = Len(s)
    BY <1>1, <1>2, <1>6
  <2> QED
    BY <1>2, <1>4, <2>1, SeqEqual
<1> QED
  BY <1>2, <1>5, <1>6

\* Whatever the decoder did before, the next message it returns is the next
\* one that was written.
LEMMA StreamDecode ==
    ASSUME NEW M, \A x \in M : Encodable(x), NEW W \in Seq(M), NEW R, NEW cells \in Seq(Cell),
           NEW whole, NEW exact, Stream(W, R, cells, whole, exact),
           NEW dec \in DecodersOn(Cell), ~Decode(dec, cells).d.err
    PROVE  LET r == Decode(dec, cells) IN
           /\ Stream(W, Append(R, r.m), r.d.input, whole, exact)
           /\ r.m \in M /\ ~r.d.panic
<1> DEFINE r == Decode(dec, cells)
           n == Len(W)
           k == Len(R)
<1>1. IsPrefixOf(R, W) /\ k \in 0..n /\ n \in Nat /\ R = SubSeq(W, 1, k)
  <2>1. IsPrefixOf(R, W)
    BY DEF Stream
  <2> QED
    BY <2>1, PrefixLength DEF IsPrefixOf
<1>2. PICK rem : /\ Remains(W, rem) /\ Partial(rem[n])
                 /\ whole => rem[n] = <<>>
                 /\ Before(cells, rem[k])
                 /\ exact => cells = rem[k]
  BY DEF Stream
<1>3. ASSUME NEW m, Encodable(m), Agrees(cells, Encode(m))
      PROVE  /\ Len(Encode(m)) <= Len(cells) /\ r.m = m /\ ~r.d.panic
             /\ r.d.input = SubSeq(cells, Len(Encode(m)) + 1, Len(cells))
  <2>1. Len(Encode(m)) \in Nat /\ Len(cells) \in Nat
    BY <1>3, EncodeTyped
  <2>2. /\ r.d.err <=> Len(cells) < Len(Encode(m))
        /\ ~r.d.err => /\ r.m = m /\ ~r.d.panic
                       /\ r.d.input = SubSeq(cells, Len(Encode(m)) + 1, Len(cells))
    BY <1>3, DecodeAgrees
  <2> HIDE DEF r
  <2> QED
    BY <2>1, <2>2 DEF r
<1>4. \A j \in 0..n : rem[j] \in Seq(Cell)
  BY <1>2 DEF Remains
<1>5. k # n
  <2> SUFFICES ASSUME k = n PROVE FALSE
    OBVIOUS
  <2>1. PICK m : Encodable(m) /\ Len(rem[n]) < Len(Encode(m)) /\ Agrees(rem[n], Encode(m))
    BY <1>2 DEF Partial
  <2> DEFINE s == rem[n]
             e == Encode(m)
  <2>2. s \in Seq(Cell) /\ e \in Seq(Cell) /\ Len(s) \in Nat /\ Len(e) \in Nat /\ Len(cells) \in Nat
    BY <1>1, <1>4, <2>1, EncodeTyped
  <2>3. Before(cells, s) /\ Len(s) < Len(e) /\ Agrees(s, e)
    BY <1>2, <2>1
  <2> HIDE DEF s, e
  <2>4. Agrees(cells, e) /\ Len(cells) < Len(e)
    BY <2>2, <2>3 DEF Before, Agrees
  <2>5. Len(e) <= Len(cells)
    BY <1>3, <2>1, <2>4 DEF e
  <2> QED
    BY <2>2, <2>4, <2>5
<1> DEFINE m == W[k + 1]
           e == Encode(m)
           s == rem[k + 1]
<1>6. k \in 0..(n - 1) /\ k + 1 \in 1..n /\ k + 1 \in 0..n /\ m \in M
  BY <1>1, <1>5
<1>7. Encodable(m) /\ e \in Seq(Cell) /\ s \in Seq(Cell)
  BY <1>4, <1>6, EncodeTyped
<1>8. rem[k] = e \o s
  <2> DEFINE j == k + 1
  <2>1. j \in 1..Len(W) /\ j - 1 = k
    BY <1>1, <1>6
  <2> HIDE DEF j
  <2>2. rem[j - 1] = Encode(W[j]) \o rem[j]
    BY <1>2, <2>1 DEF Remains
  <2> QED
    BY <2>1, <2>2 DEF j
<1> HIDE DEF m, e, s, r, k, n
<1>9. Before(cells, e \o s)
  BY <1>2, <1>8
<1>10. Agrees(cells, e)
  <2>1. Len(e) \in Nat /\ Len(s) \in Nat /\ Len(e \o s) = Len(e) + Len(s) /\ \A i \in 1..Len(e) : (e \o s)[i] = e[i]
    BY <1>7
  <2> QED
    BY <1>9, <2>1 DEF Before, Agrees
<1>11. /\ Len(e) <= Len(cells) /\ r.m = m /\ ~r.d.panic
       /\ r.d.input = SubSeq(cells, Len(e) + 1, Len(cells))
  BY <1>3, <1>7, <1>10 DEF e
<1> DEFINE t == r.d.input
<1>12. Before(t, s) /\ (cells = rem[k] => t = s)
  <2>1. t = SubSeq(cells, Len(e) + 1, Len(cells)) /\ Len(e) <= Len(cells)
    BY <1>11
  <2>2. e \in Seq(Cell) /\ s \in Seq(Cell)
    BY <1>7
  <2>3. Follows(e, s, cells, t)
    BY <1>9, <2>1 DEF Follows
  <2> HIDE DEF t
  <2>4. Before(t, s) /\ (cells = e \o s => t = s)
    BY <2>2, <2>3, Behind
  <2> QED
    BY <1>8, <2>4
<1> DEFINE R2 == Append(R, m)
<1>13. R2 = SubSeq(W, 1, k + 1)
  BY <1>1, <1>6, PrefixNext DEF m, n
<1>14. Len(R2) = k + 1
  <2>1. k + 1 <= Len(W) /\ k + 1 \in Nat /\ Len(W) \in Nat
    BY <1>1, <1>6 DEF n
  <2> HIDE DEF R2
  <2> QED
    BY <1>13, <2>1
<1>15. IsPrefixOf(R2, W)
  <2> HIDE DEF R2
  <2> QED
    BY <1>1, <1>6, <1>13, <1>14 DEF IsPrefixOf, n
<1> HIDE DEF R2, t
<1>16. Stream(W, R2, t, whole, exact)
  <2>1. Before(t, rem[Len(R2)]) /\ (exact => t = rem[Len(R2)])
    BY <1>2, <1>12, <1>14 DEF s
  <2> QED
    BY <1>2, <1>15, <2>1 DEF Stream, n
<1> QED
  BY <1>6, <1>11, <1>16 DEF R2, t, r

\* Both directions of a connection.  What is written reaches the other end
\* while the link is up and the client has not closed its end.
Live(r)     == r.up /\ r.client # "closed"
ToClient(c) == Stream(answered[c], received[c], conn[c].toClient, TRUE, Live(conn[c]))
ToServer(c) ==
    conn[c].torn \/ Stream(sent[c], got[c], conn[c].toServer, ~conn[c].half, Live(conn[c]) /\ ~conn[c].half)

StreamInv == TypeInv(Cell) /\ \A c \in Conns : ToClient(c) /\ ToServer(c)

\* Less may be said of a stream: not that its end is whole, nor that all of it is there.
LEMMA StreamWeaker ==
    ASSUME NEW W, NEW R, NEW cells, NEW whole, NEW exact, Stream(W, R, cells, whole, exact),
           NEW whole2, whole2 => whole, NEW exact2, exact2 => exact
    PROVE  Stream(W, R, cells, whole2, exact2)
<1>1. PICK rem : /\ Remains(W, rem) /\ Partial(rem[Len(W)])
                 /\ whole => rem[Len(W)] = <<>>
                 /\ Before(cells, rem[Len(R)])
                 /\ exact => cells = rem[Len(R)]
  BY DEF Stream
<1> QED
  BY <1>1 DEF Stream

\* The step changes at most the client's end of connection b.
SameStreams(b) ==
    /\ conn'[b].toServer = conn[b].toServer /\ conn'[b].toClient = conn[b].toClient
    /\ conn'[b].half = conn[b].half /\ conn'[b].torn = conn[b].torn
    /\ Live(conn'[b]) => Live(conn[b])
    /\ sent'[b] = sent[b] /\ got'[b] = got[b]
    /\ answered'[b] = answered[b] /\ received'[b] = received[b]

\* Connections a step does not touch keep their streams.
LEMMA SameKept ==
    ASSUME StreamInv, NEW b \in Conns, SameStreams(b)
    PROVE  ToClient(b)' /\ ToServer(b)'
<1>1. ToClient(b)'
  <2>1. Stream(answered[b], received[b], conn[b].toClient, TRUE, Live(conn[b]))
    BY DEF StreamInv, ToClient
  <2>2. Stream(answered[b], received[b], conn[b].toClient, TRUE, Live(conn'[b]))
    BY <2>1, StreamWeaker DEF SameStreams
  <2> QED
    BY <2>2 DEF SameStreams, ToClient
<1>2. ToServer(b)'
  <2>1. CASE conn[b].torn
    BY <2>1 DEF SameStreams, ToServer
  <2>2. CASE ~conn[b].torn
    <3>1. Stream(sent[b], got[b], conn[b].toServer, ~conn[b].half, Live(conn[b]) /\ ~conn[b].half)
      BY <2>2 DEF StreamInv, ToServer
    <3>2. Stream(sent[b], got[b], conn[b].toServer, ~conn[b].half, Live(conn'[b]) /\ ~conn[b].half)
      BY <3>1, StreamWeaker DEF SameStreams
    <3> QED
      BY <3>2 DEF SameStreams, ToServer
  <2> QED
    BY <2>1, <2>2
<1> QED
  BY <1>1, <1>2

\* Each action keeps both streams of every connection.
LEMMA WriteStreams ==
    ASSUME EncodableMessages, StreamInv, NEW p \in Procs, NEW c \in Conns, Write(p, c)
    PROVE  \A b \in Conns : ToClient(b)' /\ ToServer(b)'
<1> DEFINE m == proc[p].msg
           old == conn[c]
           out == IF old.up THEN old.toServer \o Encode(m) ELSE old.toServer
           new == [old EXCEPT !.toServer = out, !.torn = old.half]
<1>1. m \in Messages /\ old \in ConnsOn(Cell) /\ old.client = "open" /\ old.toServer \in Seq(Cell)
  BY Fields DEF StreamInv, TypeInv, Write, Using, At
<1>2. conn' = [conn EXCEPT ![c] = new] /\ conn \in [Conns -> ConnsOn(Cell)]
  BY DEF Write, Written, StreamInv, TypeInv
<1>3. sent' = [sent EXCEPT ![c] = Append(@, m)] /\ sent \in [Conns -> Seq(Messages)] /\ UNCHANGED <<got, answered, received>>
  BY DEF Write, StreamInv, TypeInv
<1> HIDE DEF out
<1>4. /\ new.toServer = out /\ new.toClient = old.toClient /\ new.half = old.half /\ new.torn = old.half
      /\ new.up = old.up /\ new.client = old.client
  BY <1>1 DEF ConnsOn
<1> HIDE DEF new, m
<1>5. conn'[c] = new /\ sent'[c] = Append(sent[c], m) /\ sent[c] \in Seq(Messages)
  BY <1>2, <1>3
<1>6. ToClient(c)'
  <2>1. Live(new) <=> Live(old)
    BY <1>4 DEF Live
  <2>2. Stream(answered[c], received[c], old.toClient, TRUE, Live(old))
    BY DEF StreamInv, ToClient
  <2>3. Stream(answered[c], received[c], old.toClient, TRUE, Live(new))
    BY <2>1, <2>2, StreamWeaker
  <2> QED
    BY <1>3, <1>4, <1>5, <2>3 DEF ToClient
<1>7. ToServer(c)'
  <2>1. CASE old.half
    BY <1>4, <1>5, <2>1 DEF ToServer
  <2>2. CASE ~old.half
    <3>1. ~old.torn
      BY <2>2 DEF StreamInv, TypeInv
    <3>2. Stream(sent[c], got[c], old.toServer, ~old.half, Live(old) /\ ~old.half)
      BY <3>1 DEF StreamInv, ToServer
    <3>3. Stream(sent[c], got[c], old.toServer, TRUE, old.up)
      BY <1>1, <2>2, <3>2, StreamWeaker DEF Live
    <3>4. Stream(Append(sent[c], m), got[c], out, TRUE, old.up)
      <4>1. \A x \in Messages : Encodable(x)
        BY DEF EncodableMessages
      <4> QED
        BY <1>1, <1>5, <3>3, <4>1, StreamWrite DEF out, m
    <3>5. Stream(Append(sent[c], m), got[c], out, ~new.half, Live(new) /\ ~new.half)
      BY <1>4, <2>2, <3>4, StreamWeaker DEF Live
    <3> QED
      BY <1>3, <1>4, <1>5, <3>5 DEF ToServer
  <2> QED
    BY <2>1, <2>2
<1>8. ASSUME NEW b \in Conns, b # c PROVE ToClient(b)' /\ ToServer(b)'
  <2>1. SameStreams(b)
    BY <1>2, <1>3, <1>8 DEF SameStreams
  <2> QED
    BY <2>1, SameKept
<1> QED
  BY <1>6, <1>7, <1>8

LEMMA WriteFailsStreams ==
    ASSUME EncodableMessages, StreamInv, NEW p \in Procs, NEW c \in Conns, WriteFails(p, c)
    PROVE  \A b \in Conns : ToClient(b)' /\ ToServer(b)'
<1> DEFINE m == proc[p].msg
           old == conn[c]
<1>1. m \in Messages /\ old \in ConnsOn(Cell) /\ old.client = "open" /\ old.toServer \in Seq(Cell)
  BY Fields DEF StreamInv, TypeInv, WriteFails, Using, At
<1>2. PICK i \in 0..(Len(Encode(m)) - 1) :
        conn' = [Written(c, SubSeq(Encode(m), 1, i)) EXCEPT ![c].half = TRUE]
  BY DEF WriteFails
<1> DEFINE out == IF old.up THEN old.toServer \o SubSeq(Encode(m), 1, i) ELSE old.toServer
           new == [old EXCEPT !.toServer = out, !.torn = old.half, !.half = TRUE]
<1>3. conn' = [conn EXCEPT ![c] = new] /\ conn \in [Conns -> ConnsOn(Cell)]
  BY <1>2 DEF Written, StreamInv, TypeInv
<1>4. UNCHANGED <<sent, got, answered, received>> /\ sent[c] \in Seq(Messages)
  BY DEF WriteFails, histories, StreamInv, TypeInv
<1> HIDE DEF out
<1>5. /\ new.toServer = out /\ new.toClient = old.toClient /\ new.half = TRUE /\ new.torn = old.half
      /\ new.up = old.up /\ new.client = old.client
  BY <1>1 DEF ConnsOn
<1> HIDE DEF new, m
<1>6. conn'[c] = new
  BY <1>3
<1>7. ToClient(c)'
  <2>1. Live(new) <=> Live(old)
    BY <1>5 DEF Live
  <2>2. Stream(answered[c], received[c], old.toClient, TRUE, Live(old))
    BY DEF StreamInv, ToClient
  <2>3. Stream(answered[c], received[c], old.toClient, TRUE, Live(new))
    BY <2>1, <2>2, StreamWeaker
  <2> QED
    BY <1>4, <1>5, <1>6, <2>3 DEF ToClient
<1>8. ToServer(c)'
  <2>1. CASE old.half
    BY <1>5, <1>6, <2>1 DEF ToServer
  <2>2. CASE ~old.half
    <3>1. ~old.torn
      BY <2>2 DEF StreamInv, TypeInv
    <3>2. Stream(sent[c], got[c], old.toServer, ~old.half, Live(old) /\ ~old.half)
      BY <3>1 DEF StreamInv, ToServer
    <3>3. Stream(sent[c], got[c], old.toServer, TRUE, old.up)
      BY <1>1, <2>2, <3>2, StreamWeaker DEF Live
    <3>4. Stream(sent[c], got[c], out, FALSE, FALSE)
      <4>1. \A x \in Messages : Encodable(x)
        BY DEF EncodableMessages
      <4> QED
        BY <1>1, <1>4, <3>3, <4>1, StreamHalf DEF out, m
    <3>5. Stream(sent[c], got[c], out, ~new.half, Live(new) /\ ~new.half)
      BY <1>5, <3>4, StreamWeaker
    <3> QED
      BY <1>4, <1>5, <1>6, <3>5 DEF ToServer
  <2> QED
    BY <2>1, <2>2
<1>9. ASSUME NEW b \in Conns, b # c PROVE ToClient(b)' /\ ToServer(b)'
  <2>1. SameStreams(b)
    BY <1>3, <1>4, <1>9 DEF SameStreams
  <2> QED
    BY <2>1, SameKept
<1> QED
  BY <1>7, <1>8, <1>9

LEMMA ReadMessageStreams ==
    ASSUME EncodableMessages, StreamInv, NEW c \in Conns, ReadMessage(c)
    PROVE  \A b \in Conns : ToClient(b)' /\ ToServer(b)'
<1> DEFINE old == conn[c]
           r == Decode(decoder, old.toClient)
           new == [old EXCEPT !.toClient = r.d.input]
<1>1. /\ old \in ConnsOn(Cell) /\ old.toClient \in Seq(Cell) /\ decoder \in DecodersOn(Cell)
      /\ answered[c] \in Seq(Replies)
  BY Fields DEF StreamInv, TypeInv
<1>2. /\ conn' = [conn EXCEPT ![c] = new] /\ conn \in [Conns -> ConnsOn(Cell)]
      /\ received' = [received EXCEPT ![c] = Append(@, r.m)] /\ Total(received)
      /\ UNCHANGED <<sent, got, answered>> /\ ~r.d.err
  BY DEF ReadMessage, StreamInv, TypeInv
<1>3. Stream(answered[c], Append(received[c], r.m), r.d.input, TRUE, Live(old))
  <2>1. \A x \in Replies : Encodable(x)
    BY DEF EncodableMessages
  <2>2. Stream(answered[c], received[c], old.toClient, TRUE, Live(old))
    BY DEF StreamInv, ToClient
  <2> QED
    BY <1>1, <1>2, <2>1, <2>2, StreamDecode
<1> HIDE DEF r
<1>4. /\ new.toServer = old.toServer /\ new.toClient = r.d.input /\ new.half = old.half /\ new.torn = old.torn
      /\ new.up = old.up /\ new.client = old.client
  BY <1>1 DEF ConnsOn
<1> HIDE DEF new
<1>5. conn'[c] = new /\ received'[c] = Append(received[c], r.m)
  BY <1>2 DEF Total
<1>6. Live(new) <=> Live(old)
  BY <1>4 DEF Live
<1>7. ToClient(c)'
  <2>1. Stream(answered[c], Append(received[c], r.m), r.d.input, TRUE, Live(new))
    BY <1>3, <1>6, StreamWeaker
  <2> QED
    BY <1>2, <1>4, <1>5, <2>1 DEF ToClient
<1>8. ToServer(c)'
  <2>1. CASE old.torn
    BY <1>4, <1>5, <2>1 DEF ToServer
  <2>2. CASE ~old.torn
    <3>1. Stream(sent[c], got[c], old.toServer, ~old.half, Live(old) /\ ~old.half)
      BY <2>2 DEF StreamInv, ToServer
    <3>2. Stream(sent[c], got[c], old.toServer, ~new.half, Live(new) /\ ~new.half)
      BY <1>4, <1>6, <3>1, StreamWeaker
    <3> QED
      BY <1>2, <1>4, <1>5, <3>2 DEF ToServer
  <2> QED
    BY <2>1, <2>2
<1>9. ASSUME NEW b \in Conns, b # c PROVE ToClient(b)' /\ ToServer(b)'
  <2>1. SameStreams(b)
    BY <1>2, <1>9 DEF SameStreams, Total
  <2> QED
    BY <2>1, SameKept
<1> QED
  BY <1>7, <1>8, <1>9

LEMMA ServerDecodeStreams ==
    ASSUME EncodableMessages, StreamInv, NEW c \in Conns, NEW reply \in Replies, ServerDecode(c, reply)
    PROVE  \A b \in Conns : ToClient(b)' /\ ToServer(b)'
<1> DEFINE old == conn[c]
           r == Decode(old.decoder, old.toServer)
           arrives == old.up /\ old.client = "open"
           out == IF arrives THEN old.toClient \o Encode(reply) ELSE old.toClient
           new == [old EXCEPT !.decoder = Kept(r.d), !.toServer = r.d.input, !.toClient = out]
<1>1. /\ old \in ConnsOn(Cell) /\ old.toClient \in Seq(Cell) /\ old.toServer \in Seq(Cell)
      /\ old.decoder \in DecodersOn(Cell) /\ answered[c] \in Seq(Replies) /\ sent[c] \in Seq(Messages)
      /\ old.client # "none"
  BY Fields DEF StreamInv, TypeInv, ServerDecode, Reading, Made
<1>2. /\ conn' = [conn EXCEPT ![c] = new] /\ conn \in [Conns -> ConnsOn(Cell)]
      /\ got' = [got EXCEPT ![c] = Append(@, r.m)] /\ Total(got)
      /\ answered' = [answered EXCEPT ![c] = Append(@, reply)] /\ answered \in [Conns -> Seq(Replies)]
      /\ UNCHANGED <<sent, received>> /\ ~r.d.err
  BY DEF ServerDecode, StreamInv, TypeInv
<1>3. ASSUME ~old.torn
      PROVE  Stream(sent[c], Append(got[c], r.m), r.d.input, ~old.half, Live(old) /\ ~old.half)
  <2>1. \A x \in Messages : Encodable(x)
    BY DEF EncodableMessages
  <2>2. Stream(sent[c], got[c], old.toServer, ~old.half, Live(old) /\ ~old.half)
    BY <1>3 DEF StreamInv, ToServer
  <2> QED
    BY <1>1, <1>2, <2>1, <2>2, StreamDecode
<1> HIDE DEF r
<1>4. Stream(Append(answered[c], reply), received[c], out, TRUE, arrives)
  <2>1. \A x \in Replies : Encodable(x)
    BY DEF EncodableMessages
  <2>2. Stream(answered[c], received[c], old.toClient, TRUE, Live(old))
    BY DEF StreamInv, ToClient
  <2>3. Stream(answered[c], received[c], old.toClient, TRUE, arrives)
    BY <2>2, StreamWeaker DEF Live
  <2> HIDE DEF arrives
  <2> QED
    BY <1>1, <2>1, <2>3, StreamWrite
<1> HIDE DEF out
<1>5. /\ new.toServer = r.d.input /\ new.toClient = out /\ new.half = old.half /\ new.torn = old.torn
      /\ new.up = old.up /\ new.client = old.client
  BY <1>1 DEF ConnsOn
<1> HIDE DEF new
<1>6. conn'[c] = new /\ got'[c] = Append(got[c], r.m) /\ answered'[c] = Append(answered[c], reply)
  BY <1>2 DEF Total
<1>7. (Live(new) <=> Live(old)) /\ (Live(new) <=> arrives)
  BY <1>1, <1>5 DEF Live, ConnsOn
<1>8. ToClient(c)'
  <2>1. Stream(Append(answered[c], reply), received[c], out, TRUE, Live(new))
    BY <1>4, <1>7, StreamWeaker
  <2> QED
    BY <1>2, <1>5, <1>6, <2>1 DEF ToClient
<1>9. ToServer(c)'
  <2>1. CASE old.torn
    BY <1>5, <1>6, <2>1 DEF ToServer
  <2>2. CASE ~old.torn
    <3>1. Stream(sent[c], Append(got[c], r.m), r.d.input, ~old.half, Live(old) /\ ~old.half)
      BY <1>3, <2>2
    <3>2. Stream(sent[c], Append(got[c], r.m), r.d.input, ~new.half, Live(new) /\ ~new.half)
      BY <1>5, <1>7, <3>1, StreamWeaker
    <3> QED
      BY <1>2, <1>5, <1>6, <3>2 DEF ToServer
  <2> QED
    BY <2>1, <2>2
<1>10. ASSUME NEW b \in Conns, b # c PROVE ToClient(b)' /\ ToServer(b)'
  <2>1. SameStreams(b)
    BY <1>2, <1>10 DEF SameStreams, Total
  <2> QED
    BY <2>1, SameKept
<1> QED
  BY <1>8, <1>9, <1>10

\* Steps that lose what is under way on a connection that is no longer live.
LEMMA CutStreams ==
    ASSUME StreamInv, NEW c \in Conns, UNCHANGED histories,
           NEW n \in 0..Len(conn[c].toServer), NEW k \in 0..Len(conn[c].toClient),
           conn'[c].toServer = SubSeq(conn[c].toServer, 1, n),
           conn'[c].toClient = SubSeq(conn[c].toClient, 1, k),
           conn'[c].half = conn[c].half, conn'[c].torn = conn[c].torn, ~Live(conn'[c]),
           \A b \in Conns : b # c => conn'[b] = conn[b]
    PROVE  \A b \in Conns : ToClient(b)' /\ ToServer(b)'
<1> DEFINE old == conn[c]
           a == SubSeq(old.toServer, 1, n)
           z == SubSeq(old.toClient, 1, k)
<1>1. old.toServer \in Seq(Cell) /\ old.toClient \in Seq(Cell)
  BY Fields DEF StreamInv, TypeInv
<1>2. UNCHANGED <<sent, got, answered, received>>
  BY DEF histories
<1>3. ToClient(c)'
  <2>1. Stream(answered[c], received[c], old.toClient, TRUE, Live(old))
    BY DEF StreamInv, ToClient
  <2>2. Stream(answered[c], received[c], z, TRUE, FALSE)
    BY <1>1, <2>1, StreamCut
  <2>3. Stream(answered[c], received[c], z, TRUE, Live(conn'[c]))
    BY <2>2, StreamWeaker
  <2> QED
    BY <1>2, <2>3 DEF ToClient
<1>4. ToServer(c)'
  <2>1. CASE old.torn
    BY <2>1 DEF ToServer
  <2>2. CASE ~old.torn
    <3>1. Stream(sent[c], got[c], old.toServer, ~old.half, Live(old) /\ ~old.half)
      BY <2>2 DEF StreamInv, ToServer
    <3>2. Stream(sent[c], got[c], a, ~old.half, FALSE)
      BY <1>1, <3>1, StreamCut
    <3>3. Stream(sent[c], got[c], a, ~old.half, Live(conn'[c]) /\ ~old.half)
      BY <3>2, StreamWeaker
    <3> QED
      BY <1>2, <3>3 DEF ToServer
  <2> QED
    BY <2>1, <2>2
<1>5. ASSUME NEW b \in Conns, b # c PROVE ToClient(b)' /\ ToServer(b)'
  <2>1. SameStreams(b)
    BY <1>2, <1>5 DEF SameStreams
  <2> QED
    BY <2>1, SameKept
<1> QED
  BY <1>3, <1>4, <1>5

\* The shortest and the longest prefix of a sequence.
LEMMA Ends ==
    ASSUME NEW s \in Seq(Cell)
    PROVE  /\ 0 \in 0..Len(s) /\ SubSeq(s, 1, 0) = <<>>
           /\ Len(s) \in 0..Len(s) /\ SubSeq(s, 1, Len(s)) = s
OBVIOUS

LEMMA ReadFailsStreams ==
    ASSUME StreamInv, NEW c \in Conns, ReadFails(c)
    PROVE  \A b \in Conns : ToClient(b)' /\ ToServer(b)'
<1> DEFINE old == conn[c]
           new == [old EXCEPT !.toClient = <<>>]
<1>1. old \in ConnsOn(Cell) /\ old.toServer \in Seq(Cell) /\ old.toClient \in Seq(Cell)
  BY Fields DEF StreamInv, TypeInv
<1>2. conn' = [conn EXCEPT ![c] = new] /\ conn \in [Conns -> ConnsOn(Cell)] /\ UNCHANGED histories
  BY DEF ReadFails, StreamInv, TypeInv
<1>3. ~Live(old)
  BY DEF ReadFails, Live
<1>4. /\ new.toServer = old.toServer /\ new.toClient = <<>> /\ new.half = old.half /\ new.torn = old.torn
      /\ new.up = old.up /\ new.client = old.client
  BY <1>1 DEF ConnsOn
<1> HIDE DEF new
<1>5. ~Live(new)
  BY <1>3, <1>4 DEF Live
<1>6. conn'[c] = new /\ \A b \in Conns : b # c => conn'[b] = conn[b]
  BY <1>2
<1>7. /\ Len(old.toServer) \in 0..Len(old.toServer) /\ new.toServer = SubSeq(old.toServer, 1, Len(old.toServer))
      /\ 0 \in 0..Len(old.toClient) /\ new.toClient = SubSeq(old.toClient, 1, 0)
  BY <1>1, <1>4, Ends
<1> QED
  BY <1>2, <1>4, <1>5, <1>6, <1>7, CutStreams

LEMMA ServerDoneStreams ==
    ASSUME StreamInv, NEW c \in Conns, ServerDone(c)
    PROVE  \A b \in Conns : ToClient(b)' /\ ToServer(b)'
<1> DEFINE old == conn[c]
           new == [old EXCEPT !.handler = "done", !.toServer = <<>>, !.decoder = NewDecoder]
<1>1. old \in ConnsOn(Cell) /\ old.toServer \in Seq(Cell) /\ old.toClient \in Seq(Cell)
  BY Fields DEF StreamInv, TypeInv
<1>2. conn' = [conn EXCEPT ![c] = new] /\ conn \in [Conns -> ConnsOn(Cell)] /\ UNCHANGED histories
  BY DEF ServerDone, StreamInv, TypeInv
<1>3. ~Live(old)
  BY DEF ServerDone, Live
<1>4. /\ new.toServer = <<>> /\ new.toClient = old.toClient /\ new.half = old.half /\ new.torn = old.torn
      /\ new.up = old.up /\ new.client = old.client
  BY <1>1 DEF ConnsOn
<1> HIDE DEF new
<1>5. ~Live(new)
  BY <1>3, <1>4 DEF Live
<1>6. conn'[c] = new /\ \A b \in Conns : b # c => conn'[b] = conn[b]
  BY <1>2
<1>7. /\ 0 \in 0..Len(old.toServer) /\ new.toServer = SubSeq(old.toServer, 1, 0)
      /\ Len(old.toClient) \in 0..Len(old.toClient) /\ new.toClient = SubSeq(old.toClient, 1, Len(old.toClient))
  BY <1>1, <1>4, Ends
<1> QED
  BY <1>2, <1>4, <1>5, <1>6, <1>7, CutStreams

LEMMA LinkDownStreams ==
    ASSUME StreamInv, NEW c \in Conns, LinkDown(c)
    PROVE  \A b \in Conns : ToClient(b)' /\ ToServer(b)'
<1> DEFINE old == conn[c]
<1>1. old \in ConnsOn(Cell)
  BY DEF StreamInv, TypeInv
<1>2. PICK n \in 0..Len(old.toServer), k \in 0..Len(old.toClient) :
        conn' = [conn EXCEPT ![c].up = FALSE, ![c].toServer = SubSeq(@, 1, n), ![c].toClient = SubSeq(@, 1, k)]
  BY DEF LinkDown
<1> DEFINE a == SubSeq(old.toServer, 1, n)
           z == SubSeq(old.toClient, 1, k)
           new == [old EXCEPT !.up = FALSE, !.toServer = a, !.toClient = z]
<1>3. conn' = [conn EXCEPT ![c] = new] /\ conn \in [Conns -> ConnsOn(Cell)]
  BY <1>2 DEF StreamInv, TypeInv
<1> HIDE DEF a, z
<1>4. new.toServer = a /\ new.toClient = z /\ new.half = old.half /\ new.torn = old.torn /\ ~new.up
  BY <1>1 DEF ConnsOn
<1> HIDE DEF new
<1>5. ~Live(new)
  BY <1>4 DEF Live
<1>6. conn'[c] = new /\ \A b \in Conns : b # c => conn'[b] = conn[b]
  BY <1>3
<1>7. UNCHANGED histories
  BY DEF LinkDown
<1> QED
  BY <1>4, <1>5, <1>6, <1>7, CutStreams DEF a, z

\* At the start there are no streams.
LEMMA StreamInit ==
    ASSUME EncodableMessages, Init
    PROVE  StreamInv
<1>1. TypeInv(Cell)
  BY EncodableCarried, TypeInit
<1>2. ASSUME NEW c \in Conns PROVE ToClient(c) /\ ToServer(c)
  <2>1. /\ conn[c].toServer = <<>> /\ conn[c].toClient = <<>>
        /\ sent[c] = <<>> /\ got[c] = <<>> /\ answered[c] = <<>> /\ received[c] = <<>>
    BY DEF Init, Fresh
  <2>2. Stream(<<>>, <<>>, <<>>, TRUE, Live(conn[c]))
    BY StreamEmpty, StreamWeaker
  <2>3. Stream(<<>>, <<>>, <<>>, ~conn[c].half, Live(conn[c]) /\ ~conn[c].half)
    BY StreamEmpty, StreamWeaker
  <2> QED
    BY <2>1, <2>2, <2>3 DEF ToClient, ToServer
<1> QED
  BY <1>1, <1>2 DEF StreamInv

LEMMA CloseBothStreams ==
    ASSUME StreamInv, NEW cached, CloseBoth(cached), UNCHANGED histories
    PROVE  \A b \in Conns : ToClient(b)' /\ ToServer(b)'
<1> SUFFICES ASSUME NEW b \in Conns PROVE SameStreams(b)
  BY SameKept
<1> DEFINE new == [conn[b] EXCEPT !.client = "closed"]
<1>1. conn'[b] = new \/ conn'[b] = conn[b]
  BY DEF CloseBoth, Closed
<1>2. conn[b] \in ConnsOn(Cell)
  BY DEF StreamInv, TypeInv
<1>3. /\ new.toServer = conn[b].toServer /\ new.toClient = conn[b].toClient
      /\ new.half = conn[b].half /\ new.torn = conn[b].torn /\ new.client = "closed"
  BY <1>2 DEF ConnsOn
<1> HIDE DEF new
<1> QED
  BY <1>1, <1>3 DEF SameStreams, Live, histories

LEMMA DialStreams ==
    ASSUME StreamInv, NEW p \in Procs, GetCachedConn(p)
    PROVE  \A b \in Conns : ToClient(b)' /\ ToServer(b)'
<1> SUFFICES ASSUME NEW b \in Conns PROVE SameStreams(b)
  BY SameKept
<1>1. UNCHANGED histories
  BY DEF GetCachedConn
<1>2. CASE UNCHANGED conn
  BY <1>1, <1>2 DEF SameStreams, histories
<1>3. CASE \E c \in Conns : Dial(c)
  <2>1. PICK c \in Conns : Dial(c)
    BY <1>3
  <2> DEFINE new == [conn[c] EXCEPT !.client = "open"]
  <2>2. conn' = [conn EXCEPT ![c] = new] /\ conn \in [Conns -> ConnsOn(Cell)] /\ conn[c].client = "none"
    BY <2>1 DEF Dial, StreamInv, TypeInv
  <2>3. conn[c] \in ConnsOn(Cell)
    BY <2>2
  <2>4. /\ new.toServer = conn[c].toServer /\ new.toClient = conn[c].toClient
        /\ new.half = conn[c].half /\ new.torn = conn[c].torn /\ new.up = conn[c].up
    BY <2>3 DEF ConnsOn
  <2> HIDE DEF new
  <2> QED
    BY <1>1, <2>2, <2>4 DEF SameStreams, Live, histories
<1> QED
  BY <1>2, <1>3 DEF GetCachedConn

\* Every step keeps the streams.
LEMMA StreamStep ==
    ASSUME EncodableMessages, StreamInv, [Next]_vars
    PROVE  StreamInv'
<1>0. TypeInv(Cell)'
  BY EncodableCarried, TypeStep DEF StreamInv
<1> DEFINE Goal == \A b \in Conns : ToClient(b)' /\ ToServer(b)'
<1>1. ASSUME UNCHANGED <<conn, histories>> PROVE Goal
  <2>1. ASSUME NEW b \in Conns PROVE SameStreams(b)
    BY <1>1 DEF SameStreams, histories
  <2> QED
    BY <2>1, SameKept
<1> HIDE DEF Goal
<1>2. ASSUME NEW p \in Senders, NEW m \in Messages, Send(p, m) PROVE Goal
  BY <1>1, <1>2 DEF Send
<1>3. ASSUME Receive PROVE Goal
  BY <1>1, <1>3 DEF Receive
<1>4. ASSUME NEW p \in Procs, GetCachedConn(p) PROVE Goal
  BY <1>4, DialStreams DEF Goal
<1>5. ASSUME NEW p \in Procs, DialFails(p) PROVE Goal
  BY <1>1, <1>5 DEF DialFails
<1>6. ASSUME NEW p \in Procs, ReturnError(p) PROVE Goal
  BY <1>6, CloseBothStreams DEF ReturnError, Goal
<1>7. ASSUME NEW p \in Procs, NEW c \in Conns, Write(p, c) \/ WriteFails(p, c) PROVE Goal
  BY <1>7, WriteStreams, WriteFailsStreams DEF Goal
<1>8. ASSUME NEW p \in Procs, NEW c \in Conns, WriteToClosed(p, c) PROVE Goal
  BY <1>1, <1>8 DEF WriteToClosed
<1>9. ASSUME NEW c \in Conns, ReadMessage(c) \/ ReadFails(c) PROVE Goal
  BY <1>9, ReadMessageStreams, ReadFailsStreams DEF Goal
<1>10. ASSUME NEW c \in Conns, NEW reply \in Replies, ServerDecode(c, reply) PROVE Goal
  BY <1>10, ServerDecodeStreams DEF Goal
<1>11. ASSUME NEW c \in Conns, ServerDone(c) \/ LinkDown(c) PROVE Goal
  BY <1>11, ServerDoneStreams, LinkDownStreams DEF Goal
<1>12. ASSUME Close PROVE Goal
  BY <1>12, CloseBothStreams DEF Close, Goal
<1>13. ASSUME UNCHANGED vars PROVE Goal
  BY <1>1, <1>13 DEF vars
<1>14. Goal
  BY <1>2, <1>3, <1>4, <1>5, <1>6, <1>7, <1>8, <1>9, <1>10, <1>11, <1>12, <1>13 DEF Next
<1> QED
  BY <1>0, <1>14 DEF StreamInv, Goal

\* On every connection the client decodes a prefix of the answers the server
\* wrote, and the server a prefix of the messages that were sent, unless the
\* client wrote on behind a half-written message.  Decoders are shared by
\* connections and continue after failed reads; that does not show.
THEOREM MessagesAreWhole == ASSUME EncodableMessages PROVE Spec => []WholeMessages
<1>1. Init => StreamInv
  BY StreamInit
<1>2. StreamInv /\ [Next]_vars => StreamInv'
  BY StreamStep
<1>3. StreamInv => WholeMessages
  BY DEF StreamInv, ToClient, ToServer, Stream, WholeMessages
<1> QED
  BY <1>1, <1>2, <1>3, PTL DEF Spec

--------------------------------------------------------------------------------
(* Panics. *)

\* A message that Receive returns was decoded without a panic,
LEMMA ReadMessageCalm ==
    ASSUME EncodableMessages, StreamInv, NEW c \in Conns, ReadMessage(c)
    PROVE  ~panicked'
<1> DEFINE r == Decode(decoder, conn[c].toClient)
<1>1. conn[c].toClient \in Seq(Cell) /\ decoder \in DecodersOn(Cell) /\ answered[c] \in Seq(Replies)
  BY Fields DEF StreamInv, TypeInv
<1>2. ~r.d.err /\ panicked' = r.d.panic
  BY DEF ReadMessage
<1>3. \A x \in Replies : Encodable(x)
  BY DEF EncodableMessages
<1>4. Stream(answered[c], received[c], conn[c].toClient, TRUE, Live(conn[c]))
  BY DEF StreamInv, ToClient
<1>5. ~r.d.panic
  BY <1>1, <1>2, <1>3, <1>4, StreamDecode
<1> QED
  BY <1>2, <1>5

\* and so was one the server handles, on a connection that is not torn.
LEMMA ServerDecodeCalm ==
    ASSUME EncodableMessages, StreamInv, NEW c \in Conns, NEW reply \in Replies,
           ServerDecode(c, reply), ~conn[c].torn
    PROVE  ~panicked'
<1> DEFINE r == Decode(conn[c].decoder, conn[c].toServer)
<1>1. /\ conn[c].toServer \in Seq(Cell) /\ conn[c].decoder \in DecodersOn(Cell)
      /\ sent[c] \in Seq(Messages)
  BY Fields DEF StreamInv, TypeInv
<1>2. ~r.d.err /\ panicked' = r.d.panic
  BY DEF ServerDecode
<1>3. \A x \in Messages : Encodable(x)
  BY DEF EncodableMessages
<1>4. Stream(sent[c], got[c], conn[c].toServer, ~conn[c].half, Live(conn[c]) /\ ~conn[c].half)
  BY DEF StreamInv, ToServer
<1>5. ~r.d.panic
  BY <1>1, <1>2, <1>3, <1>4, StreamDecode
<1> QED
  BY <1>2, <1>5

\* What a step has to do to be excepted from the property.
CalmAction ==
    \A c \in Conns :
        (received'[c] # received[c] \/ (~conn[c].torn /\ got'[c] # got[c])) => ~panicked'

LEMMA CalmStep ==
    ASSUME EncodableMessages, StreamInv, [Next]_vars
    PROVE  CalmAction
<1>1. ASSUME UNCHANGED <<got, received>> PROVE CalmAction
  BY <1>1 DEF CalmAction
<1>2. ASSUME NEW c \in Conns, ReadMessage(c) PROVE CalmAction
  BY <1>2, ReadMessageCalm DEF CalmAction
<1>3. ASSUME NEW c \in Conns, NEW reply \in Replies, ServerDecode(c, reply) PROVE CalmAction
  <2>1. \A b \in Conns : got'[b] # got[b] => b = c
    BY <1>3 DEF ServerDecode, StreamInv, TypeInv, Total
  <2>2. UNCHANGED received
    BY <1>3 DEF ServerDecode
  <2> QED
    BY <1>3, <2>1, <2>2, ServerDecodeCalm DEF CalmAction
<1>4. ASSUME NEW c \in Conns, ReadFails(c) \/ ServerDone(c) \/ LinkDown(c) PROVE CalmAction
  BY <1>1, <1>4 DEF ReadFails, ServerDone, LinkDown, histories
<1>5. ASSUME NEW p \in Senders, NEW m \in Messages, Send(p, m) PROVE CalmAction
  BY <1>1, <1>5 DEF Send, histories
<1>6. ASSUME NEW p \in Procs, GetCachedConn(p) \/ DialFails(p) \/ ReturnError(p) PROVE CalmAction
  BY <1>1, <1>6 DEF GetCachedConn, DialFails, ReturnError, histories
<1>7. ASSUME NEW p \in Procs, NEW c \in Conns, Write(p, c) \/ WriteFails(p, c) \/ WriteToClosed(p, c)
      PROVE  CalmAction
  BY <1>1, <1>7 DEF Write, WriteFails, WriteToClosed, histories
<1>8. ASSUME Receive \/ Close \/ UNCHANGED vars PROVE CalmAction
  BY <1>1, <1>8 DEF Receive, Close, vars, histories
<1> QED
  BY <1>2, <1>3, <1>4, <1>5, <1>6, <1>7, <1>8 DEF Next

\* No message that arrives whole makes a decoder panic, in the client or in the
\* server, after whatever failed reads, half-written messages, broken links and
\* connections before, and whatever its bytes are: only a message that is cut
\* short can, and one written behind a half-written one.
THEOREM NeverPanics == ASSUME EncodableMessages PROVE Spec => WholeNeverPanics
<1>1. Init => StreamInv
  BY StreamInit
<1>2. StreamInv /\ [Next]_vars => StreamInv'
  BY StreamStep
<1>3. StreamInv /\ [Next]_vars => CalmAction
  BY CalmStep
<1> QED
  BY <1>1, <1>2, <1>3, PTL DEF Spec, WholeNeverPanics, CalmAction
================================================================================
