----------------------------- MODULE MCRespCodec ----------------------------
(***************************************************************************)
(* Instances of RespCodec, and a reference decoder: the grammar applied to *)
(* the whole stream at once, as if the buffer and the network were not     *)
(* there.                                                                  *)
(***************************************************************************)
EXTENDS RespCodec

x == "x"

\* Every length, nesting and kind of value around the limits, and payloads
\* that hold the bytes of the protocol.
MCPrograms ==
    { <<Text("+", <<x>>), Bulk(<<CR, LF, "$">>)>>,
      <<Array(<<Array(<<>>), Array(Nil)>>), Bulk(<<>>)>>,
      <<Text(":", <<"-", "1">>), Text("-", <<x, x, x, x, x>>), Bulk(Nil)>>,
      <<Array(<<Bulk(<<x, x>>), Array(<<Text("+", <<>>)>>)>>)>>,
      <<Bulk(<<x>>), Array(<<Bulk(<<>>), Text("?", <<>>)>>), Bulk(<<x>>)>> }

MCMultiPrograms ==
    { <<Array(<<Bulk(<<x, LF>>), Bulk(Nil)>>), Array(<<Bulk(<<>>)>>)>> }

\* The values of the programs and those within them.
RECURSIVE Within(_)
Within(v) == {v} \cup IF v.arr = Nil THEN {} ELSE UNION {Within(v.arr[i]) : i \in DOMAIN v.arr}

MCValues == UNION {UNION {Within(p[i]) : i \in DOMAIN p} : p \in MCPrograms \cup MCMultiPrograms}

\* Streams of a peer, right and wrong: those of Seeds, what is left of them
\* when they are cut short, and what becomes of them when one byte is another.
Bytes == {"+", "$", "*", "-", "0", "1", CR, LF, Space, x}

MCByte == Bytes \cup {":", "?"} \cup Range(Digits)

Cut(s) == {SubSeq(s, 1, k) : k \in 0..Len(s)}
Spoilt(s) == {[s EXCEPT ![k] = c] : k \in DOMAIN s, c \in Bytes}

Seeds ==
    { <<"*", "1", "0", CR, LF, "$", "1", CR, LF, x, CR, LF, "+", x, CR, LF>>,
      <<"$", "1", "1", CR, LF, CR, LF, x, CR, LF, "*", "-", "1", CR, LF>> }

MultiSeeds ==
    { <<"*", "1", CR, LF, "$", "1", CR, LF, x, CR, LF, x, CR, LF>>,
      <<Space, x, Space, Space, x, x, CR, LF, CR, LF>>,
      <<"*", "1", CR, LF, "*", "0", CR, LF>> }

MCInputs == UNION {Cut(s) \cup Spoilt(s) : s \in Seeds}
MCMultiInputs == UNION {Cut(s) \cup Spoilt(s) : s \in MultiSeeds}

-----------------------------------------------------------------------------
(* The reference: the results of reading a stream, of which there is one.  *)
(* It has the value and the bytes that follow it, or says why there is     *)
(* none.                                                                   *)

Good(v, rest) == {[ok |-> TRUE, v |-> v, rest |-> rest]}
Bad(e) == {[ok |-> FALSE, e |-> e]}

\* Read on after the results R.
Then(R, Cont(_, _)) == UNION {IF r.ok THEN Cont(r.v, r.rest) ELSE {r} : r \in R}

\* The first line of s, without its end, or the reason why it has none; a
\* line of an integer has to fit the buffer.
RefLine(s, bound) ==
    LET I == {i \in DOMAIN s : s[i] = LF}
        k == Min(I)
    IN  CASE I = {} -> Bad(IF bound /\ Len(s) >= N THEN "bad" ELSE "eof")
          [] I # {} /\ bound /\ k > N -> Bad("bad")
          [] I # {} /\ (k = 1 \/ s[k - 1] # CR) -> Bad("bad")
          [] OTHER -> Good(SubSeq(s, 1, k - 2), SubSeq(s, k + 1, Len(s)))

RefInt(s) ==
    Then(RefLine(s, TRUE), LAMBDA l, rest :
         IF IsNumber(l) THEN Good(Btoi64(l), rest) ELSE Bad("bad"))

RefText(t, s) == Then(RefLine(s, FALSE), LAMBDA l, rest : Good(Text(t, l), rest))

RefBulk(s) ==
    Then(RefInt(s), LAMBDA n, rest :
         CASE n = -1 -> Good(Bulk(Nil), rest)
           [] n < -1 \/ n > MaxBulkBytesLen -> Bad("bad")
           [] n \in 0..MaxBulkBytesLen /\ Len(rest) < n + 2 -> Bad("eof")
           [] OTHER -> IF SubSeq(rest, n + 1, n + 2) = CRLF
                       THEN Good(Bulk(SubSeq(rest, 1, n)), SubSeq(rest, n + 3, Len(rest)))
                       ELSE Bad("bad"))

RECURSIVE RefValue(_), RefValues(_, _, _)

RefArray(s, low, bulks) ==
    Then(RefInt(s), LAMBDA n, rest :
         CASE n < low \/ n > MaxArrayLen -> Bad("bad")
           [] n = -1 /\ low = -1 -> Good(Array(Nil), rest)
           [] OTHER -> RefValues(n, bulks, rest))

RefValue(s) ==
    IF s = <<>> THEN Bad("eof")
    ELSE CASE Head(s) \in TextTypes -> RefText(Head(s), Tail(s))
           [] Head(s) = "$" -> RefBulk(Tail(s))
           [] Head(s) = "*" -> RefArray(Tail(s), -1, FALSE)
           [] OTHER -> Bad("bad")

\* An array of n values, which may have to be bulks.
RefValues(n, bulks, s) ==
    IF n = 0 THEN Good(Array(<<>>), s)
    ELSE Then(RefValue(s), LAMBDA v, rest :
              IF bulks /\ v.type # "$" THEN Bad("bad")
              ELSE Then(RefValues(n - 1, bulks, rest), LAMBDA w, end :
                        Good(Array(<<v>> \o w.arr), end)))

\* The words of a line: a space ends the last one.
RefWords(b) ==
    LET split == FoldLeft(LAMBDA ws, c : IF c = Space THEN Append(ws, <<>>)
                                         ELSE Append(Front(ws), Append(Last(ws), c)),
                          <<<<>>>>, b)
    IN  SelectSeq(split, LAMBDA w : w # <<>>)

RefMulti(s) ==
    IF s # <<>> /\ Head(s) = "*" THEN RefArray(Tail(s), 1, TRUE)
    ELSE Then(RefLine(s, FALSE), LAMBDA l, rest :
              LET words == RefWords(l)
              IN  CASE l = <<>> -> Good(Array(Nil), rest)
                    [] l # <<>> /\ words = <<>> -> Bad("bad")
                    [] OTHER -> Good(Array([i \in DOMAIN words |-> Bulk(words[i])]), rest))

\* The values of a stream and the error that ends it.
RECURSIVE RefStream(_, _)
RefStream(s, m) ==
    UNION {IF v.ok
           THEN {[vals |-> <<v.v>> \o w.vals, e |-> w.e] : w \in RefStream(v.rest, m)}
           ELSE {[vals |-> <<>>, e |-> v.e]}
           : v \in IF m THEN RefMulti(s) ELSE RefValue(s)}

-----------------------------------------------------------------------------
(* Properties *)

\* What the input of a behaviour stands for.
Meaning == [i \in MCInputs |-> CHOOSE r \in RefStream(i, FALSE) : TRUE]
MultiMeaning == [i \in MCMultiInputs |-> CHOOSE r \in RefStream(i, TRUE) : TRUE]

Expected == IF multi THEN MultiMeaning[input] ELSE Meaning[input]

\* The values that the peer sends.
Sent == IF input = Nil THEN sent ELSE Expected.vals

Channel == INSTANCE RespChannel WITH sent <- Sent, received <- out

\* Encoder, writer, network, reader and decoder together are a channel of
\* values: however the bytes are cut into writes and reads, and wherever the
\* connection fails, what Decode returns are the values that were encoded, or
\* that the bytes stand for, in their order and up to some point.
RefinesChannel == Channel!Spec

\* A decoder gives up exactly where the stream breaks the protocol or ends,
\* having returned all that comes before, whatever the chunks: no error is due
\* to the place where a chunk ends, none is missed, and a decoder that has
\* failed does not return values from the middle of the stream.
RejectsExactly ==
    input # Nil /\ err # "none" /\ rerr # "io" /\ ~dropped =>
        out = Expected.vals /\ err = Expected.e
=============================================================================
