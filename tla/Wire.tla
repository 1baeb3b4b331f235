--------------------------------- MODULE Wire ---------------------------------
(***************************************************************************)
(* The encoding of messages on a connection.  A connection carries cells.  *)
(* Tags and lengths, which take two bytes in the code, are one cell here,  *)
(* so that arithmetic on a length, modulo 2^16 in the code, is modulo Word *)
(* and a message can come near that limit.  A version takes VersionCells.  *)
(*                                                                         *)
(* An encoder writes a message in one Write.  A decoder reads it piece by  *)
(* piece into a buffer that it keeps from one message to the next, and on  *)
(* a failed read goes on with what the buffer holds.                       *)
(***************************************************************************)
EXTENDS Naturals, Sequences

CONSTANTS Word,         \* lengths are counted modulo Word
          VersionCells  \* cells of a version

ASSUME WireAssumption == Word \in Nat \ {0, 1} /\ VersionCells \in Nat \ {0}

Cell == 0..(Word - 1)

KindGet   == 0
KindPut   == 1
KindError == 2
KindAuth  == 3

NewMessage(kind, tag, key, value, version) ==
    [kind |-> kind, tag |-> tag, key |-> key, value |-> value, version |-> version]

NewGetMessage(tag, key)                 == NewMessage(KindGet, tag, key, <<>>, 0)
NewPutMessage(tag, key, value, version) == NewMessage(KindPut, tag, key, value, version)
NewErrorMessage(tag, value)             == NewMessage(KindError, tag, <<>>, value, 0)
NewAuthMessage(tag, value)              == NewMessage(KindAuth, tag, <<>>, value, 0)

--------------------------------------------------------------------------------
(* Encoder. *)

\* Put64 and Get64: the least significant cell first.  Shifted(v)[i] is what i
\* cells leave of v, and Collected(cells)[i] what the last i cells stand for.
Shifted(v) ==
    LET rest[i \in 0..VersionCells] == IF i = 0 THEN v ELSE rest[i - 1] \div Word
    IN  rest
Collected(cells) ==
    LET sum[i \in 0..VersionCells] ==
            IF i = 0 THEN 0 ELSE cells[VersionCells + 1 - i] + Word * sum[i - 1]
    IN  sum

Put64(v)     == [i \in 1..VersionCells |-> Shifted(v)[i - 1] % Word]
Get64(cells) == Collected(cells)[VersionCells]

\* A string follows its length, of which Put16 keeps the low bits.
Puts(s) == <<Len(s) % Word>> \o s

Encode(m) ==
    <<m.kind, m.tag>> \o
    CASE m.kind = KindGet                 -> Puts(m.key)
      [] m.kind = KindPut                 -> Puts(m.key) \o Puts(m.value) \o Put64(m.version)
      [] m.kind \in {KindError, KindAuth} -> Puts(m.value)

\* The messages that survive the encoding: tags, lengths and versions fit
\* their cells, and so do the sums the decoder makes of a length.
Encodable(m) ==
    /\ m.kind \in Cell /\ m.tag \in Cell
    /\ m.key \in Seq(Cell) /\ m.value \in Seq(Cell) /\ m.version \in Nat
    /\ \/ m = NewGetMessage(m.tag, m.key) /\ Len(m.key) < Word
       \/ /\ m = NewPutMessage(m.tag, m.key, m.value, m.version)
          /\ Len(m.key) + 1 < Word
          /\ Len(m.value) + VersionCells < Word
          /\ Shifted(m.version)[VersionCells] = 0
       \/ m = NewErrorMessage(m.tag, m.value) /\ Len(m.value) < Word
       \/ m = NewAuthMessage(m.tag, m.value) /\ Len(m.value) < Word

--------------------------------------------------------------------------------
(* Decoder. *)

HeaderCells == 3  \* kind, tag and the first length

\* The fields of a Decoder, and of the reader it is called with: input is what
\* there is to read before the connection's end.  panic: an index or a slice
\* was out of range.
NewDecoder == [buf |-> <<>>, off |-> 0]
Decoding(d, input) ==
    [buf |-> d.buf, off |-> d.off, input |-> input, err |-> FALSE, panic |-> FALSE]

Smaller(a, b) == IF a < b THEN a ELSE b

\* makes room, then fills the buffer's first n cells from the input.
ReadKeepingOffset(d, n) ==
    LET room == [i \in 1..(IF Len(d.buf) < d.off + n THEN d.off + n ELSE Len(d.buf)) |->
                    IF i <= Len(d.buf) THEN d.buf[i] ELSE 0]
        got  == Smaller(n, Len(d.input))
    IN  IF d.err THEN [d EXCEPT !.buf = room]
        ELSE [d EXCEPT !.buf = SubSeq(d.input, 1, got) \o SubSeq(room, got + 1, Len(room)),
                       !.input = SubSeq(@, got + 1, Len(@)),
                       !.err = got < n]
ReadWithoutGrowing(d, n) ==
    LET room == IF d.buf = <<>> THEN [i \in 1..n |-> 0] ELSE d.buf
        got  == Smaller(n, Len(d.input))
    IN  IF d.err THEN d
        ELSE [d EXCEPT !.buf = SubSeq(d.input, 1, got) \o SubSeq(room, got + 1, Len(room)),
                       !.off = 0,
                       !.input = SubSeq(@, got + 1, Len(@)),
                       !.err = got < n,
                       !.panic = @ \/ n > Len(room)]
Read(d, n) ==
    LET room == [i \in 1..(IF Len(d.buf) < d.off + n THEN d.off + n ELSE Len(d.buf)) |->
                    IF i <= Len(d.buf) THEN d.buf[i] ELSE 0]
        got  == Smaller(n, Len(d.input))
    IN  IF d.err THEN [d EXCEPT !.buf = room]
        ELSE [d EXCEPT !.buf = SubSeq(d.input, 1, got) \o SubSeq(room, got + 1, Len(room)),
                       !.off = 0,
                       !.input = SubSeq(@, got + 1, Len(@)),
                       !.err = got < n]

\* The n cells that gets and its like take from the buffer, and the decoder
\* after that.
InRange(d, n) == d.off + n <= Len(d.buf)
Gets(d, n)    == IF InRange(d, n) THEN SubSeq(d.buf, d.off + 1, d.off + n) ELSE [i \in 1..n |-> 0]
Get(d)        == Gets(d, 1)[1]
After(d, n)   == [d EXCEPT !.off = @ + n, !.panic = @ \/ ~InRange(d, n)]

Decoded(d, m) == [d |-> d, m |-> m]

DecodeText(d, kind, tag) ==
    LET n    == Get(d)
        text == Read(After(d, 1), n)
    IN  Decoded(After(text, n),
                IF kind = KindGet THEN NewGetMessage(tag, Gets(text, n))
                ELSE NewMessage(kind, tag, <<>>, Gets(text, n), 0))

\* With the key comes the length of the value, and with that the version.
DecodePut(d, tag) ==
    LET n     == Get(d)
        key   == Read(After(d, 1), (n + 1) % Word)
        vlen  == After(key, n)
        vn    == Get(vlen)
        value == Read(After(vlen, 1), (vn + VersionCells) % Word)
        ver   == After(value, vn)
    IN  Decoded(After(ver, VersionCells),
                NewPutMessage(tag, Gets(key, n), Gets(value, vn), Get64(Gets(ver, VersionCells))))

\* What Decode makes of the input: the message and the decoder it leaves, with
\* err when the input ends too early.  An unknown kind has no body.
Decode(decoder, input) ==
    LET header == Read(Decoding(decoder, input), HeaderCells)
        kind   == Get(header)
        tag    == Get(After(header, 1))
        body   == After(header, 2)
    IN  CASE kind = KindPut -> DecodePut(body, tag)
          [] kind \in {KindGet, KindError, KindAuth} -> DecodeText(body, kind, tag)
          [] OTHER -> Decoded(body, NewMessage(kind, tag, <<>>, <<>>, 0))

\* The decoder, kept for the next message.
Kept(d) == [buf |-> d.buf, off |-> d.off]
================================================================================
