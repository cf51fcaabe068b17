------------------------------- MODULE MCTurn -------------------------------
(* Small instances of Turn for TLC. *)
EXTENDS Turn

\* Answers made of complete marks, both halves of marks and words.
Fragments == {<<"w">>, <<"[">>, Call, <<"cap", "w", "]">>, Call \o <<"w", "]">>, Call \o <<"w", "w", "]">>,
              Sticker, Sticker \o <<"]">>, Sticker \o <<"w", "]">>}
OneFragment == Fragments \cup {<< >>}
TwoFragments == {a \o b : a, b \in OneFragment}
ThreeFragments == {a \o b : a \in TwoFragments, b \in OneFragment}
=============================================================================
