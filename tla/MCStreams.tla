----------------------------- MODULE MCStreams ------------------------------
(***************************************************************************)
(* Reduction for TLC: the transducers with an effect outside of the        *)
(* reduction (each, read, readbuf, write, writebuf) and those that repack, *)
(* replace or sample what they get.  What these leave in the streams is    *)
(* observable, so it matters here how far every stage got, and not only    *)
(* what came out at the end.                                               *)
(***************************************************************************)
EXTENDS MCReduction

CONSTANT StreamLength   \* bound: the tokens or characters in an input stream

Text(values) == Ranges(StreamLength, values)

\* Token 0 is malformed: it makes the stream fail, and stays in it.  A stream
\* that has failed before readbuf() gets it gives empty buffers for ever.
Readers ==
  {<<read(t, {1, 2}, m)>> : t \in Text({0, 1, 2}), m \in 1..2} \cup
  {<<readbuf(t, n)>> : t \in Text({1, 2}), n \in 1..3} \cup
  {<<readbuf_failed(2), Counted("take", 2)>>}

\* What a program does with values that come from a stream ...
Middles ==
  {<<>>} \cup
  {<<s>> : s \in {Plain("cat"), Predicated("filter", {1}), Counted("drop", 1),
                  Predicated("take_while", {1, 3}), Ranged("product", Tails),
                  Plain("sorted"), Counted("partition", 2), Plain("zip")}}

\* ... and with the results.
Ends == {<<Plain("each")>>, <<Plain("sink")>>, <<write(7, 8)>>, <<Plain("writebuf")>>,
         <<write(7, 8), Counted("take", 2)>>,
         <<Plain("writebuf"), Counted("take", 1)>>,
         <<Plain("zip"), Plain("unzip"), write(7, 8), Plain("each")>>}

FromStreams ==
  {[pipeline |-> p, inputs |-> <<>>] :
     p \in {p \in {r \o m \o e : r \in Readers, m \in Middles, e \in Ends} :
              Accepted(p, 0)}}

\* The stages between two others that delay, multiply, replace and cut off.
Effects ==
  {Plain("each"), Plain("sink"), write(7, 8), Plain("zip"), Plain("unzip"),
   Predicated("random_sample", {1, 3}),
   replacing("replace", {1, 3}, 4), replacing("replace_all", {2}, 4),
   replacing("replace_all_safe", {1, 2, 3}, 4),
   read(Scalars(<<2, 1, 0>>), {1, 2}, 1), read(Scalars(<<2, 1, 2>>), {1, 2}, 2)}

Wrappings == {Plain("each"), Counted("interpose", 3), Ranged("product", Tails),
              Plain("reversed"), Counted("take", 2), Plain("interleave"),
              Predicated("partition_by", {1, 3})}

AlongInputs ==
  {r \in {[pipeline |-> p, inputs |-> i] :
            p \in {<<e>> : e \in Effects} \cup
                  {<<a, e>> : a \in Wrappings, e \in Effects} \cup
                  {<<e, b>> : e \in Effects, b \in Wrappings} \cup
                  {<<e, f>> : e, f \in Effects} \cup
                  {<<a, Plain("writebuf"), b>> :
                     a \in {Counted("partition", 2), Predicated("partition_by", {1})},
                     b \in {Plain("cat"), Plain("each"), Counted("take", 1)}},
            i \in {<<r>> : r \in Ranges(3, {1, 2})} \cup
                  {<<a, b>> : a, b \in {<<>>, Scalars(<<1, 2>>), Scalars(<<2, 1, 3>>)}}} :
     Accepted(r.pipeline, Len(r.inputs))}

Outside == FromStreams \cup AlongInputs

-----------------------------------------------------------------------------

\* An action is called once with every item that reaches it, and the text in an
\* output stream is every item that reached it with the separators in between:
\* in the order of the reduction, none for an item that comes after the one that
\* ended it, and no separator at either end.
EffectsMeetStreams ==
  (pc = "done" /\ ~threw) =>
    \A k \in 1..N :
      pipeline[k].kind \in {"each", "sink", "write", "writebuf"} =>
        layer[k].kept = Effect(pipeline[k], Reaching(k))

\* What the calls of read() take from the stream: m tokens each, or those
\* before the one that failed the last call; of readbuf(), the next n characters.
TakenBy(st, calls) ==
  IF st.kind = "read"
  THEN IF calls <= Readable(st)
       THEN calls * st.m
       ELSE Leading(st.range, LAMBDA x : Passes(st, x))
  ELSE IF st.m > 0 THEN 0 ELSE Least(calls * st.n, Len(st.range))

\* An input stream is read for the calls that the reduction makes and no
\* further: what comes after is there for the next reader, the malformed token
\* that ended the reduction included.
ReadsNoFurther ==
  (pc = "done" /\ ~threw) =>
    \A k \in 1..N :
      pipeline[k].kind \in {"read", "readbuf"} =>
        KeptOr(layer[k], pipeline[k].range) =
          SubSeq(pipeline[k].range,
                 TakenBy(pipeline[k], Len(Reaching(k))) + 1,
                 Len(pipeline[k].range))
=============================================================================
