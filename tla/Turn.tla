-------------------------------- MODULE Turn --------------------------------
(***************************************************************************)
(* One message from its arrival to the last sticker: handleIncoming and    *)
(* streamWithEngine in qq/bot.go, chatWithEngine in qq/agent_bridge.go,    *)
(* Engine.Run in agent/engine.go, the end of a stream in llm/stream.go.    *)
(*                                                                         *)
(* An answer comes whole or as a stream of pieces, each of which passes    *)
(* the gate (calls), the marker filter (stickers) and the cutting into     *)
(* messages.  Calls are executed in order; what a search found goes to     *)
(* the model again for a second answer.  The turn is then recorded in the  *)
(* conversation, archived, and stickers are sent, in streams also by a     *)
(* goroutine.  Retries of a model call are in module Breaker, the queue    *)
(* behind SendTextSegmented in SendQueue, the passcode in Access.          *)
(***************************************************************************)
EXTENDS Markers

CONSTANTS FirstTexts,  \* bound: what the model may answer
          AgainTexts,  \* bound: and about what was found
          MaxPiece,    \* bound: symbols of a piece
          MaxPerReply, \* stickers sent for one reply
          SmartSend, KeywordSend  \* settings: stickers by keys, by scene

ASSUME TurnAssumption ==
  /\ FirstTexts \subseteq Seq(Written) /\ AgainTexts \subseteq Seq(Written)
  /\ MaxPiece \in Nat \ {0} /\ MaxPerReply \in Nat \ {0}
  /\ SmartSend \in BOOLEAN /\ KeywordSend \in BOOLEAN

VARIABLES
  mode,     \* stream, whole, or plain: without an engine
  branch,   \* none, command, search, chat: how the text was understood
  pc,       \* decide, ask, calls, again, finish, reply, archive, stickers, done, crashed
  raws,     \* the answers of the model, in this turn
  unseen,   \* the last answer came whole although a stream was asked for
  gate,     \* Gate.buf
  calls,    \* calls still to execute
  done,     \* history: calls executed
  found,    \* some search has something to tell
  extra,    \* Response.Extra
  text,     \* Response.Text, later replyContent
  held,     \* MarkerFilter.held
  keys,     \* MarkerFilter.keys, later modelStickerKeys
  visible,  \* what a stream has let through
  sent,     \* how much of it was sent
  said,     \* the texts given to SendTextSegmented
  recorded, \* what recordSession was told, if anything
  archived, \* what archiveMessage was told, if anything
  todo,     \* todo[d]: keys a dispatcher has not tried
  pics      \* pics[d]: what a dispatcher has sent: key or scene

turnVars == <<mode, branch, pc, raws, unseen, gate, calls, done, found, extra, text, held, keys,
          visible, sent, said, recorded, archived, todo, pics>>
engine == <<raws, unseen, gate, calls, done, found>>
stream == <<held, visible, sent>>
records == <<recorded, archived>>
sticker == <<todo, pics>>

\* An empty text is no message.
Say(t) == IF t = << >> THEN << >> ELSE <<t>>

Handler == "handler"
Goroutine == "goroutine"

\* What the model may answer now, and the pieces that may come next.
Answers == IF pc = "again" THEN AgainTexts ELSE FirstTexts
Rests == {After(t, Len(Last(raws))) : t \in {u \in Answers : IsPrefix(Last(raws), u)}}
Pieces == {Limited(rest, n) : rest \in Rests, n \in 1..MaxPiece} \ {<< >>}

TurnInit ==
  /\ mode \in {"stream", "whole", "plain"} /\ branch = "none" /\ pc = "decide"
  /\ raws = << >> /\ unseen = FALSE /\ gate = << >> /\ calls = << >> /\ done = << >>
  /\ found = FALSE /\ extra = << >> /\ text = << >>
  /\ held = << >> /\ keys = << >> /\ visible = << >> /\ sent = 0
  /\ said = << >> /\ recorded = << >> /\ archived = << >>
  /\ todo = [d \in {Handler, Goroutine} |-> << >>] /\ pics = [d \in {Handler, Goroutine} |-> << >>]

-----------------------------------------------------------------------------
(* Slips the code could contain, here and in Markers; PROJECT.json names the *)
(* property that would notice each.                                         *)

\* What was sent is not counted as sent.
FlushPartAgain(timeout) ==
  LET pending == After(visible', sent)
      n == StreamCut(pending, timeout)
  IN UNCHANGED sent /\ said' = said \o Say(SubSeq(pending, 1, n))

\* An empty answer stays empty.
FallbackNever == text

-----------------------------------------------------------------------------
(* handleIncoming: what is it?                                              *)

\* The group's policy says no.
Ignore ==
  /\ pc = "decide" /\ pc' = "done"
  /\ UNCHANGED <<mode, branch, engine, extra, text, stream, keys, said, records, sticker>>

\* A plugin's result, or why it failed; nothing where there is no plugin.
RunPlugin == {<< >>, <<"w">>}

\* The passcode, /exec, /search, /remind, a persona: a text, unless the command had
\* no argument.
Command(texts) ==
  /\ pc = "decide" /\ pc' = "reply" /\ branch' = "command"
  /\ text' \in texts
  /\ UNCHANGED <<mode, engine, extra, stream, keys, said, records, sticker>>

\* A phrase of the table of commands: its plugin, or a refusal.
QuickCommand == \E allowed \in BOOLEAN : Command(IF allowed THEN RunPlugin ELSE {<<"w">>})

\* A conversation, or one that starts with the result of a search.
Chat(b) ==
  /\ pc = "decide" /\ pc' = "ask" /\ branch' = b /\ raws' = << << >> >>
  /\ UNCHANGED <<mode, unseen, gate, calls, done, found, extra, text, stream, keys, said,
                 records, sticker>>

-----------------------------------------------------------------------------
(* The answer, piece by piece.                                              *)

\* flush(false): of what is visible, a first part is sent if it is long enough.
FlushPart(timeout) ==
  LET pending == After(visible', sent)
      n == StreamCut(pending, timeout)
  IN sent' = sent + n /\ said' = said \o Say(SubSeq(pending, 1, n))

\* OnDelta: what the gate lets through goes to the filter.  A cut outside of the
\* text is a panic nobody recovers: the end of the process.
OnDelta(out, place) ==
  LET f == Feed(Sticker, held \o out)
  IN IF out = << >> THEN pc' = place /\ UNCHANGED <<stream, keys, said>>
     ELSE /\ held' = f.held /\ keys' = Keys(keys \o f.bodies)
          /\ visible' = visible \o f.out
          /\ \E timeout \in BOOLEAN :
               IF CutOutside(After(visible', sent), timeout)
               THEN pc' = "crashed" /\ UNCHANGED <<sent, said>>
               ELSE pc' = place /\ FlushPart(timeout)

\* One frame of the stream.
Delta(d) ==
  LET g == Feed(Call, gate \o d)
  IN /\ pc \in {"ask", "again"} /\ mode = "stream" /\ ~unseen
     /\ raws' = [raws EXCEPT ![Len(raws)] = @ \o d]
     /\ gate' = g.held
     /\ calls' = IF pc = "ask" THEN Calls(calls \o g.bodies) ELSE calls
     /\ OnDelta(g.out, pc)
     /\ UNCHANGED <<mode, branch, unseen, done, found, extra, text, records, sticker>>

\* A server that knows no streams sends the whole answer: nobody is told.
Unstreamed(t) ==
  /\ pc \in {"ask", "again"} /\ mode = "stream" /\ ~unseen /\ Last(raws) = << >>
  /\ raws' = [raws EXCEPT ![Len(raws)] = t] /\ unseen' = TRUE
  /\ UNCHANGED <<mode, branch, pc, gate, calls, done, found, extra, text, stream, keys,
                 said, records, sticker>>

\* The stream ends or breaks off after some text: the gate lets go of the rest.
Flush ==
  /\ pc \in {"ask", "again"} /\ mode = "stream" /\ (Last(raws) # << >> \/ unseen \/ pc = "again")
  /\ gate' = << >>
  /\ OnDelta(gate, IF pc = "ask" THEN "calls" ELSE "finish")
  /\ UNCHANGED <<mode, branch, raws, unseen, calls, done, found, extra, text, records, sticker>>

-----------------------------------------------------------------------------
(* The answer as a whole.                                                   *)

Answer(t) ==
  /\ pc = "ask" /\ mode = "whole" /\ pc' = "calls"
  /\ raws' = <<t>> /\ text' = ExtractCalls(t).text /\ calls' = ExtractCalls(t).calls
  /\ UNCHANGED <<mode, branch, unseen, gate, done, found, extra, stream, keys, said, records, sticker>>

\* Without an engine nothing is looked for in the answer.
PlainAnswer(t) ==
  /\ pc = "ask" /\ mode = "plain" /\ pc' = "reply"
  /\ raws' = <<t>> /\ text' = t /\ recorded' = <<t>>
  /\ UNCHANGED <<mode, branch, unseen, gate, calls, done, found, extra, stream, keys,
                 said, archived, sticker>>

\* The second answer, about what was found: its calls are only taken out.
AnswerAgain(t) ==
  /\ pc = "again" /\ mode = "whole" /\ pc' = "finish"
  /\ raws' = [raws EXCEPT ![2] = t]
  /\ text' = IF ExtractCalls(t).text = << >> THEN <<"found">> ELSE ExtractCalls(t).text
  /\ UNCHANGED <<mode, branch, unseen, gate, calls, done, found, extra, stream, keys,
                 said, records, sticker>>

FailsAgain ==
  /\ pc = "again" /\ mode = "whole" /\ pc' = "finish"
  /\ text' = IF text = << >> THEN <<"found">> ELSE text
  /\ UNCHANGED <<mode, branch, engine, extra, stream, keys, said, records, sticker>>

\* No text came at all: the user is told so.
Fails ==
  /\ pc = "ask" /\ Last(raws) = << >> /\ ~unseen /\ pc' = "reply" /\ text' = <<"sorry">>
  /\ UNCHANGED <<mode, branch, engine, extra, stream, keys, said, records, sticker>>

-----------------------------------------------------------------------------
(* Calls.                                                                   *)

\* runCalls executes one: unknown, switched off, denied, panicked, failed, silent
\* or with a text.  What a search says goes to the model, not to the user.
Results == {"text", "empty", "error"}
RunCall(result) ==
  /\ pc = "calls" /\ calls # << >>
  /\ calls' = Tail(calls) /\ done' = Append(done, Head(calls))
  /\ found' = (found \/ (Head(calls) = Search /\ result # "empty"))
  /\ extra' = IF Head(calls) # Search /\ result # "empty" THEN Append(extra, <<"w">>) ELSE extra
  /\ UNCHANGED <<mode, branch, pc, raws, unseen, gate, text, stream, keys, said, records, sticker>>

CallsDone ==
  /\ pc = "calls" /\ calls = << >>
  /\ IF found THEN pc' = "again" /\ raws' = Append(raws, << >>)
              ELSE pc' = "finish" /\ UNCHANGED raws
  /\ UNCHANGED <<mode, branch, unseen, gate, calls, done, found, extra, text, stream,
                 keys, said, records, sticker>>

-----------------------------------------------------------------------------
(* The end of the engine's part.                                            *)

\* An answer without any text gets a text.
Fallback == IF text = << >> /\ extra = << >> THEN <<"again">> ELSE text

FinishWhole ==
  /\ pc = "finish" /\ mode = "whole" /\ pc' = "reply"
  /\ text' = Fallback
  /\ recorded' = IF Fallback # << >> THEN <<Fallback>> ELSE recorded
  /\ UNCHANGED <<mode, branch, engine, extra, stream, keys, said, archived, sticker>>

\* What is kept back at the end is text, unless it opens a marker.
FlushFilter(s) == IF OpensAt(Sticker, s) # 0 THEN << >> ELSE s

\* streamWithEngine after Run, which leaves no text to a stream: the rest of the
\* text, then what the calls said, then a goroutine for the stickers.
FinishStream ==
  LET late == Feed(Sticker, held \o text)
      missed == visible = << >> /\ text # << >>
      rest == IF missed THEN late.out \o FlushFilter(late.held) ELSE FlushFilter(held)
      all == IF missed THEN Keys(keys \o late.bodies) ELSE keys
  IN /\ pc = "finish" /\ mode = "stream" /\ pc' = "reply"
     /\ held' = << >> /\ visible' = visible \o rest /\ sent' = Len(visible')
     /\ said' = said \o Say(After(visible', sent)) \o extra
     /\ todo' = [todo EXCEPT ![Goroutine] = all] /\ keys' = << >>
     /\ extra' = << >> /\ text' = << >> /\ recorded' = <<visible'>>
     /\ UNCHANGED <<mode, branch, engine, archived, pics>>

-----------------------------------------------------------------------------
(* The end of handleIncoming.                                               *)

\* What calls said goes first, of a conversation that did not start with a search;
\* then the text without its marks.
Reply ==
  LET told == branch = "chat" /\ extra # << >>
      plain == ParseMarkers(IF told THEN ParseMarkers(text).text ELSE text)
  IN /\ pc = "reply" /\ pc' = "archive"
     /\ keys' = plain.keys /\ text' = StripCalls(plain.text) /\ extra' = << >>
     /\ said' = said \o (IF told THEN extra ELSE << >>) \o Say(text')
     /\ UNCHANGED <<mode, branch, engine, stream, records, sticker>>

\* archiveMessage keeps no empty text either.
ArchiveMessage(t) == Say(t)

Archive ==
  /\ pc = "archive" /\ pc' = "stickers"
  /\ archived' = ArchiveMessage(text)
  /\ todo' = [todo EXCEPT ![Handler] = keys]
  /\ UNCHANGED <<mode, branch, engine, extra, text, stream, keys, said, recorded, pics>>

\* dispatchStickers tries the next key, which may name no sticker that can be sent.
Dispatching(d) == d = Handler => pc = "stickers"
TryKey(d) ==
  /\ Dispatching(d) /\ SmartSend /\ todo[d] # << >> /\ Len(pics[d]) < MaxPerReply
  /\ todo' = [todo EXCEPT ![d] = Tail(@)]
  /\ \/ pics' = [pics EXCEPT ![d] = Append(@, "key")]
     \/ UNCHANGED pics
  /\ UNCHANGED <<mode, branch, pc, engine, extra, text, stream, keys, said, records>>

\* No key was sent: perhaps a sticker for the words of the user.
Wanting(d) == pics[d] = << >> /\ KeywordSend
TryScene ==
  /\ pc = "stickers" /\ pc' = "done"
  /\ ~SmartSend \/ todo[Handler] = << >> \/ Len(pics[Handler]) >= MaxPerReply
  /\ todo' = [todo EXCEPT ![Handler] = << >>]
  /\ \/ Wanting(Handler) /\ pics' = [pics EXCEPT ![Handler] = Append(@, "scene")]
     \/ UNCHANGED pics
  /\ UNCHANGED <<mode, branch, engine, extra, text, stream, keys, said, records>>

TurnNext ==
  \/ Ignore \/ QuickCommand \/ Command(RunPlugin)
  \/ \E b \in {"chat", "search"} : Chat(b)
  \/ pc \in {"ask", "again"} /\ \E d \in Pieces : Delta(d)
  \/ \E t \in Answers : Unstreamed(t) \/ Answer(t) \/ PlainAnswer(t) \/ AnswerAgain(t)
  \/ Flush
  \/ FailsAgain \/ Fails
  \/ \E r \in Results : RunCall(r)
  \/ CallsDone \/ FinishWhole \/ FinishStream \/ Reply \/ Archive
  \/ \E d \in {Handler, Goroutine} : TryKey(d)
  \/ TryScene

TurnSpec == TurnInit /\ [][TurnNext]_turnVars

-----------------------------------------------------------------------------
(* Correctness.                                                             *)

\* Types; what the gate and the filter keep back is the beginning of a mark.
TurnTypeOK ==
  /\ mode \in {"stream", "whole", "plain"} /\ branch \in {"none", "command", "search", "chat"}
  /\ pc \in {"decide", "ask", "calls", "again", "finish", "reply", "archive",
             "stickers", "done", "crashed"}
  /\ raws \in Seq(Seq(Written)) /\ Len(raws) <= 2 /\ unseen \in BOOLEAN /\ found \in BOOLEAN
  /\ Len(calls) + Len(done) <= MaxCallsPerReply /\ Len(keys) <= MaxMarkersPerReply
  /\ gate = << >> \/ gate = <<"[">> \/ IsPrefix(Call, gate)
  /\ held = << >> \/ held = <<"[">> \/ IsPrefix(Sticker, held)
  /\ text \in Text /\ visible \in Text /\ sent \in 0..Len(visible)
  /\ said \in Seq(Text) /\ recorded \in Seq(Text) /\ archived \in Seq(Text)
  /\ Len(pics[Handler]) <= MaxPerReply /\ Len(pics[Goroutine]) <= MaxPerReply

\* Texts of both answers without their calls, in one piece as the filter sees them.
Spoken == FlattenSeq([i \in DOMAIN raws |-> ExtractCalls(raws[i]).text])

\* However the stream was cut into pieces, the user sees what the parser of whole
\* texts makes of it: no half of a mark, no word less (the text is never ahead
\* of it, and complete at the end).
StreamAgrees ==
  mode = "stream" /\ ~unseen =>
    /\ IsPrefix(visible, WithoutMarkers(Spoken))
    /\ pc \in {"archive", "stickers", "done"} /\ recorded # << >> => visible = WithoutMarkers(Spoken)

\* A stream sends every part of it once, in order.
SentOnce ==
  mode = "stream" /\ branch \in {"chat", "search"} /\ pc \in {"ask", "calls", "again", "finish"} =>
    FlattenSeq(said) = SubSeq(visible, 1, sent)

\* Taking the calls out of an answer put another one together.
Regrown(raw) == ClosesAt(Call, ExtractCalls(raw).text) # 0

\* A conversation that was not streamed never ends without a word or a marker,
\* unless what was left of an answer reads as a call itself: the engine leaves it
\* in the text, and handleIncoming takes it out.
WholeAnswers ==
  pc \in {"archive", "stickers", "done"} /\ mode = "whole" /\ branch = "chat" =>
    \/ said # << >> \/ OpensAt(Sticker, Spoken) # 0
    \/ \E i \in DOMAIN raws : Regrown(raws[i])

\* A text becomes a bounded number of messages; without the notice they hold all
\* of it, and with it still its beginning.
SegmentsHonest ==
  \A i \in DOMAIN said :
    LET parts == SplitMessage(said[i])
        all == FlattenSeq(parts)
    IN /\ Len(parts) <= MaxSegments
       /\ \A j \in DOMAIN parts : Len(parts[j]) <= MaxMessageRunes + Slack + 1
       /\ \/ all = said[i]
          \/ all # << >> /\ Last(all) = "more" /\ IsPrefix(Front(all), said[i])

-----------------------------------------------------------------------------
(* The inductive invariant: while a stream runs the gate and the filter are *)
(* where one pass over all of the text so far would have left them.         *)

Streaming == pc \in {"decide", "ask", "calls", "again", "finish"}

\* What the filter was given: all but what the gate keeps back.
Heard ==
  IF pc = "ask" THEN Feed(Call, raws[1]).out
  ELSE IF pc = "again" THEN ExtractCalls(raws[1]).text \o Feed(Call, raws[2]).out
  ELSE Spoken

DataOK ==
  /\ raws \in Seq(Text) /\ Len(raws) \in 0..2 /\ gate \in Text /\ held \in Text /\ text \in Text /\ extra \in Seq(Text)
  /\ visible \in Text /\ sent \in 0..Len(visible) /\ said \in Seq(Text)
  /\ pc = "decide" => raws = << >> /\ branch = "none"
  /\ pc \in {"ask", "calls"} => Len(raws) = 1
  /\ pc = "again" => Len(raws) = 2
  /\ pc = "finish" => Len(raws) \in 1..2
  /\ mode # "stream" \/ pc \in {"decide", "calls", "finish"} => gate = << >>

SaidOK ==
  mode = "stream" /\ Streaming =>
    text = << >> /\ recorded = << >> /\ FlattenSeq(said) = SubSeq(visible, 1, sent)

FilterOK ==
  mode = "stream" /\ ~unseen =>
    /\ pc \in {"ask", "again"} => gate = Feed(Call, Last(raws)).held
    /\ Streaming => visible = Feed(Sticker, Heard).out /\ held = Feed(Sticker, Heard).held
    /\ ~Streaming => /\ IsPrefix(visible, WithoutMarkers(Spoken))
                     /\ recorded # << >> => visible = WithoutMarkers(Spoken)

\* The text of a whole answer is one of the answers without its calls, or a phrase.
Drawn ==
  \/ text = << >> \/ \E c \in Canned : text = <<c>>
  \/ \E i \in DOMAIN raws : text = ExtractCalls(raws[i]).text

WholeOK ==
  mode = "whole" /\ branch = "chat" =>
    /\ pc \in {"calls", "again"} => text = ExtractCalls(raws[1]).text
    /\ pc \in {"finish", "reply"} => Drawn
    /\ pc = "reply" => text # << >> \/ extra # << >>

TurnIInv == DataOK /\ SaidOK /\ FilterOK /\ WholeOK /\ WholeAnswers

-----------------------------------------------------------------------------
\* The limit for a text without punctuation is called a safe one (the comments of
\* hardCapRunes and of FindStreamSentenceCut): no text makes the cut panic.
NoCrash == pc # "crashed"

\* What a server does not stream is sent as a whole, or the switch would make
\* replies vanish (the comment of streamWithEngine): if the model said anything
\* to the user, the user hears something.
ReplyArrives ==
  pc = "done" /\ branch = "chat" /\ WithoutMarkers(Spoken) # << >> => said # << >>
=============================================================================
