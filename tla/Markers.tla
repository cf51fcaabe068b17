------------------------------- MODULE Markers -------------------------------
(***************************************************************************)
(* The texts of a reply and what the program does to them: the scan for    *)
(* marks in agent/gate.go and stickers/marker.go, piece by piece and on    *)
(* the whole text, and the cutting of a text into messages in qq/text.go.  *)
(*                                                                         *)
(* A text is a sequence of symbols.  "[" "cap" stands for the opening of a *)
(* call, [能力:, and "[" "sti" for that of a sticker, [表情:, so that a    *)
(* piece may end inside an opening; "]" closes either and ends a clause;    *)
(* "w" is a word that ends a sentence, and as the whole of a call it names  *)
(* the search.  White space is left out.                                    *)
(***************************************************************************)
EXTENDS Integers, Sequences, SequencesExt, FiniteSetsExt

CONSTANTS MaxCallsPerReply,    \* calls taken from a reply (3)
          MaxMarkersPerReply,  \* keys taken from a reply (4)
          MaxMessageRunes,     \* symbols of one message
          Bytes,               \* bytes of a symbol (3 for Chinese)
          MaxSegments,         \* messages a text is cut into at most (6)
          Slack,               \* what a message with the notice may be longer (8)
          MinSentence,         \* symbols before a stream is cut after a sentence (60)
          TimeoutMin,          \* and when nothing was sent for a while (20)
          ClauseFallback,      \* symbols after which a clause will do (90)
          HardCap              \* and after which it is cut anywhere (160)

ASSUME MarkersAssumption ==
  /\ MaxCallsPerReply \in Nat \ {0} /\ MaxMarkersPerReply \in Nat \ {0}
  /\ MaxMessageRunes \in Nat \ {0} /\ MaxSegments \in Nat \ {0} /\ Bytes \in Nat \ {0} /\ Slack \in Nat
  /\ TimeoutMin \in Nat \ {0} /\ MinSentence \in Nat /\ ClauseFallback \in Nat /\ HardCap \in Nat
  /\ MinSentence >= TimeoutMin /\ ClauseFallback >= MinSentence /\ HardCap >= ClauseFallback

Written == {"[", "cap", "sti", "]", "w"}      \* what a model writes
Canned == {"sorry", "found", "again", "more"}  \* what the program says of itself
Text == Seq(Written \cup Canned)

Call == <<"[", "cap">>
Sticker == <<"[", "sti">>
Search == <<"w">>

After(s, i) == SubSeq(s, i + 1, Len(s))

\* Where the text first opens a mark of that kind, and where that mark closes; 0: nowhere.
OpensAt(open, s) ==
  LET at == {i \in 1..Len(s) - 1 : <<s[i], s[i + 1]>> = open}
  IN IF at = {} THEN 0 ELSE Min(at)
ClosesAt(open, s) ==
  LET at == {i \in 1..Len(s) : OpensAt(open, s) \in 1..i /\ s[i] = "]"}
  IN IF at = {} THEN 0 ELSE Min(at)

\* The text without its complete marks, up to the last; their bodies; the rest.
Scan(open, text) ==
  LET scan[s \in Text] ==
        LET i == OpensAt(open, s)
            j == ClosesAt(open, s)
            behind == scan[After(s, j)]
        IN IF j = 0
           THEN [out |-> << >>, bodies |-> << >>, rest |-> s]
           ELSE [out |-> SubSeq(s, 1, i - 1) \o behind.out,
                 bodies |-> <<SubSeq(s, i + 2, j - 1)>> \o behind.bodies,
                 rest |-> behind.rest]
  IN scan[text]

\* A slip: only what opens a mark is kept back, not half of an opening.
HoldWholeOpenings(open, s) == IF OpensAt(open, s) # 0 THEN Len(s) - OpensAt(open, s) + 1 ELSE 0

\* How much of the end may still become a mark.
Partial(s) == IF s # << >> /\ Last(s) = "[" THEN 1 ELSE 0
Hold(open, s) == IF OpensAt(open, s) # 0 THEN Len(s) - OpensAt(open, s) + 1 ELSE Partial(s)

\* One round of Feed: what goes on to the user, what is kept back, the marks found.
Feed(open, s) ==
  LET r == Scan(open, s)
      n == Len(r.rest) - Hold(open, r.rest)
  IN [out |-> r.out \o SubSeq(r.rest, 1, n), held |-> After(r.rest, n), bodies |-> r.bodies]

Limited(s, n) == SubSeq(s, 1, IF Len(s) < n THEN Len(s) ELSE n)
NonEmpty(bodies) == SelectSeq(bodies, LAMBDA b : b # << >>)
Distinct(s) == FoldLeft(LAMBDA seen, x : IF Contains(seen, x) THEN seen ELSE Append(seen, x), << >>, s)

Calls(bodies) == Limited(NonEmpty(bodies), MaxCallsPerReply)
Keys(bodies) == Limited(Distinct(NonEmpty(bodies)), MaxMarkersPerReply)

-----------------------------------------------------------------------------
(* The whole text at once.                                                  *)

ExtractCalls(s) ==
  LET r == Scan(Call, s) IN [text |-> r.out \o r.rest, calls |-> Calls(r.bodies)]

\* Of an opening that never closes everything is dropped.
Unclosed(s) == IF OpensAt(Sticker, s) = 0 THEN s ELSE SubSeq(s, 1, OpensAt(Sticker, s) - 1)
WithoutMarkers(s) == LET r == Scan(Sticker, s) IN r.out \o Unclosed(r.rest)

\* What taking marks out put together: [表情:] goes, of [表情: the colon stays.
Debris(text) ==
  LET clean[s \in Text] ==
        LET i == OpensAt(Sticker, s)
        IN IF i = 0 THEN s
           ELSE SubSeq(s, 1, i - 1) \o
                (IF i + 2 <= Len(s) /\ s[i + 2] = "]" THEN clean[After(s, i + 2)]
                 ELSE <<"w">> \o clean[After(s, i + 1)])
  IN clean[text]

ParseMarkers(s) == [text |-> Debris(WithoutMarkers(s)), keys |-> Keys(Scan(Sticker, s).bodies)]
StripCalls(s) == ExtractCalls(s).text

-----------------------------------------------------------------------------
(* The messages of a text.                                                  *)

Notice == <<"more">>

\* The text is cut at the last word of the window, unless that is too early: the
\* place is counted in bytes, the third of the limit it must exceed in symbols.
Cut(s) ==
  LET at == {i \in 1..MaxMessageRunes : s[i] = "w" /\ (i - 1) * Bytes > MaxMessageRunes \div 3}
  IN IF at = {} THEN MaxMessageRunes ELSE Max(at)

\* The notice joins the last message where there is room, or is one of its own.
AppendNotice(parts, tail) ==
  IF parts # << >> /\ Len(Last(parts)) + Len(tail) + 1 <= MaxMessageRunes + Slack
  THEN Front(parts) \o <<Last(parts) \o tail \o Notice>>
  ELSE Append(parts, tail \o Notice)

\* A slip: the notice does not count.
SegmentsOneMore(text) ==
  LET from[p \in Seq(Text) \X Text] ==
        LET parts == p[1]
            s == p[2]
        IN IF s = << >> THEN parts
           ELSE IF Len(parts) >= MaxSegments
           THEN Append(parts, SubSeq(s, 1, 1) \o Notice)
           ELSE IF Len(s) <= MaxMessageRunes THEN Append(parts, s)
           ELSE from[<<Append(parts, SubSeq(s, 1, Cut(s))), After(s, Cut(s))>>]
  IN from[<< << >>, text >>]

\* From the parts there are and the text that is left.
Segments(text) ==
  LET from[p \in Seq(Text) \X Text] ==
        LET parts == p[1]
            s == p[2]
        IN IF s = << >> THEN parts
           ELSE IF Len(s) <= MaxMessageRunes
           THEN IF Len(parts) < MaxSegments - 1 THEN Append(parts, s) ELSE AppendNotice(parts, s)
           ELSE IF Len(parts) >= MaxSegments - 1
           THEN AppendNotice(parts, SubSeq(s, 1, MaxMessageRunes))
           ELSE from[<<Append(parts, SubSeq(s, 1, Cut(s))), After(s, Cut(s))>>]
  IN from[<< << >>, text >>]

SplitMessage(s) == IF Len(s) <= MaxMessageRunes THEN <<s>> ELSE Segments(s)

\* FindStreamSentenceCut: where the pending part of a stream is cut, 0: not yet.
LastOf(c, s) == LET at == {i \in 1..Len(s) : s[i] = c} IN IF at = {} THEN 0 ELSE Max(at)
StreamCut(s, timeout) ==
  IF LastOf("w", s) >= (IF timeout THEN TimeoutMin ELSE MinSentence) THEN LastOf("w", s)
  ELSE IF Len(s) >= ClauseFallback /\ LastOf("]", s) >= MinSentence THEN LastOf("]", s)
  ELSE IF Len(s) >= HardCap THEN HardCap
  ELSE 0

\* The search for a space begins one symbol behind the cap, which may not be there.
CutOutside(s, timeout) ==
  /\ Len(s) = HardCap /\ StreamCut(s, timeout) = HardCap
  /\ LastOf("w", s) # HardCap /\ LastOf("]", s) # HardCap
=============================================================================
