--------------------------------- MODULE Mcp ---------------------------------
(***************************************************************************)
(* One external tool server and its client: mcp/client.go, the start and   *)
(* the end of it in mcp/manager.go, and the calls of mcp/bridge.go.        *)
(*                                                                         *)
(* The server is a child process behind two bounded pipes.  Callers share  *)
(* a table of pending requests, a counter of ids and one mutex, which a    *)
(* caller holds while it writes to the server's pipe.  A goroutine reads   *)
(* the answers, another waits for the process.  The server is anybody's    *)
(* program: it answers late, twice, in any order or never, sends           *)
(* notifications and lines that are too long, closes its output, exits.    *)
(*                                                                         *)
(* StartAll runs in main before anything can stop it, so the manager's     *)
(* Close comes after the start was decided.                                *)
(***************************************************************************)
EXTENDS Integers, Sequences, FiniteSets

CONSTANTS Tools,      \* callers of ToolPlugin.Execute
          Starter,    \* startOne, in main
          Free,       \* nobody holds the mutex
          ToolNames,  \* names the server may offer, as sanitizeToolName leaves them
          BuiltIn,    \* names that plugins of the bot have
          MaxTools,   \* the limit on tools of a server
          MaxPages,   \* pages of tools/list that are asked for (10)
          PipeSize,   \* lines a pipe holds
          MaxCalls    \* bound: calls of tools in all

Callers == Tools \cup {Starter}

ASSUME McpAssumption ==
  /\ Starter \notin Tools /\ Free \notin Callers /\ BuiltIn \subseteq ToolNames
  /\ MaxTools \in Nat /\ MaxPages \in Nat \ {0} /\ PipeSize \in Nat \ {0}
  /\ MaxCalls \in Nat

VARIABLES
  mu,       \* who writes to the pipe under Client.mu
  nextID,   \* Client.nextID
  pending,  \* Client.pending: from ids to the calls that wait
  box,      \* the channels of the calls: a function from the ids with a response in them
  pc,       \* where a caller is
  id,       \* id[c]: of its request
  call,     \* call[c]: history: which call of all it makes
  calls,    \* history: calls so far
  got,      \* got[c]: which call the response that ended its last call was for
  stage,    \* stage of startOne: initialize, notify, list, failing, failed, connected
  pages,    \* pages of tools/list asked for
  tools,    \* the tools registered
  alive,    \* the process runs
  inPipe,   \* requests the server has not read
  seen,     \* requests it has
  outPipe,  \* lines the reader has not read
  reader,   \* readLoop: scan, deliver, fail (its deferred failAllPending), ended
  line,     \* the response in the reader's hand
  watcher,  \* the goroutine around cmd.Wait: wait, fail, ended
  closer    \* Close: no, waiting, killed, done

vars == <<mu, nextID, pending, box, pc, id, call, calls, got, stage, pages, tools, alive,
          inPipe, seen, outPipe, reader, line, watcher, closer>>
table == <<nextID, pending, box>>
caller == <<pc, id, call, calls, got>>
start == <<stage, pages, tools>>
server == <<alive, inPipe, seen, outPipe>>
loops == <<reader, line, watcher>>

NoCall == 0  \* an error, or nothing yet
Request == [id : Nat, call : Nat]
Notification == [id |-> 0, call |-> NoCall]
TooLong == [id |-> -1, call |-> NoCall]  \* or the end of the output
Nothing == Notification

Put(f, x, y) == [n \in DOMAIN f \cup {x} |-> IF n = x THEN y ELSE f[n]]
Drop(f, S) == [x \in DOMAIN f \ S |-> f[x]]
Empty == [n \in {} |-> NoCall]
Goto(c, place) == pc' = [pc EXCEPT ![c] = place]
Closed == closer # "no"

\* An error in the channel of every call that is in the table.
AllFailed ==
  [n \in DOMAIN pending \cup DOMAIN box |-> IF n \in DOMAIN pending THEN NoCall ELSE box[n]]

\* cmd.Wait has closed the pipes.
Reaped == watcher # "wait"

Init ==
  /\ mu = Free /\ nextID = 0 /\ pending = Empty /\ box = Empty
  /\ pc = [c \in Callers |-> "idle"] /\ id = [c \in Callers |-> 0]
  /\ call = [c \in Callers |-> NoCall] /\ calls = 0 /\ got = [c \in Callers |-> NoCall]
  /\ stage = "initialize" /\ pages = 0 /\ tools = {}
  /\ alive = TRUE /\ inPipe = << >> /\ seen = {} /\ outPipe = << >>
  /\ reader = "scan" /\ line = Nothing /\ watcher = "wait" /\ closer = "no"

-----------------------------------------------------------------------------
(* Slips the code could contain; PROJECT.json names the property that would *)
(* notice each.                                                             *)

\* The id is the number of requests that wait.
NextIdReused == Cardinality(DOMAIN pending) + 1

\* The writer's error path returns before the mutex is unlocked.
WriteFailsLocked(c) ==
  /\ mu = c /\ (~alive \/ Closed \/ Reaped) /\ pc[c] = "write"
  /\ pending' = Drop(pending, {id[c]}) /\ Goto(c, "idle")
  /\ id' = [id EXCEPT ![c] = 0]
  /\ UNCHANGED <<mu, nextID, box, call, calls, got, start, server, loops, closer>>

\* Close only waits.
KillNever == FALSE /\ UNCHANGED vars

\* Only the reader wakes the calls, not the end of the process.
FailAllReader ==
  /\ mu = Free
  /\ IF reader' = reader THEN UNCHANGED <<pending, box>>
     ELSE pending' = Empty /\ box' = AllFailed
  /\ UNCHANGED <<mu, nextID, caller, start, server, line, closer>>

-----------------------------------------------------------------------------
(* Client.call and notify.                                                  *)

NextId == nextID + 1

\* A place in the table and an id; a closed client refuses.  A client that is
\* closed between that question and the mutex fails the write instead.
Begin(c) ==
  /\ ~Closed /\ mu = Free
  /\ nextID' = NextId /\ pending' = Put(pending, NextId, c)
  /\ id' = [id EXCEPT ![c] = NextId]
  /\ calls' = calls + 1 /\ call' = [call EXCEPT ![c] = calls + 1]
  /\ got' = [got EXCEPT ![c] = NoCall]
  /\ Goto(c, "write")
  /\ UNCHANGED box

\* The deferred clean-up of a call.
Forgotten(c) == Drop(pending, {id[c]})

\* The call ends with the response of call n, or with an error.
Return(c, n) ==
  /\ pending' = Forgotten(c) /\ box' = Drop(box, {id[c]})
  /\ Goto(c, "idle")
  /\ id' = [id EXCEPT ![c] = 0] /\ got' = [got EXCEPT ![c] = n]

Lock(c) ==
  /\ pc[c] \in {"write", "notify"} /\ mu = Free /\ mu' = c
  /\ UNCHANGED <<table, caller, start, server, loops, closer>>

\* A full pipe holds the writer, and with it the mutex.
Write(c) ==
  /\ mu = c /\ mu' = Free
  /\ alive /\ ~Closed /\ Len(inPipe) < PipeSize
  /\ IF pc[c] = "notify"
       THEN /\ inPipe' = Append(inPipe, Notification)
            /\ stage' = "list" /\ Goto(c, "idle")
       ELSE /\ inPipe' = Append(inPipe, [id |-> id[c], call |-> call[c]])
            /\ Goto(c, "wait") /\ UNCHANGED stage
  /\ UNCHANGED <<table, id, call, calls, got, pages, tools, alive, seen, outPipe, loops, closer>>

\* The process is gone, or stdin was closed under the writer.
WriteFails(c) ==
  /\ mu = c /\ (~alive \/ Closed \/ Reaped) /\ mu' = Free
  /\ IF pc[c] = "notify"
       THEN stage' = "failing" /\ Goto(c, "idle") /\ UNCHANGED <<table, id, got>>
       ELSE Return(c, NoCall) /\ UNCHANGED <<nextID, stage>>
  /\ UNCHANGED <<call, calls, pages, tools, server, loops, closer>>

Receive(c) ==
  /\ pc[c] = "wait" /\ mu = Free /\ id[c] \in DOMAIN box
  /\ Return(c, box[id[c]])
  /\ UNCHANGED <<mu, nextID, call, calls, start, server, loops, closer>>

\* The context of the call is over, at any time; or the response is an error.
Timeout(c) ==
  /\ pc[c] = "wait" /\ mu = Free
  /\ Return(c, NoCall)
  /\ UNCHANGED <<mu, nextID, call, calls, start, server, loops, closer>>

\* ToolPlugin.Execute, for a tool that is registered.
Execute(c) ==
  /\ pc[c] = "idle" /\ stage = "connected" /\ tools # {} /\ calls < MaxCalls
  /\ Begin(c)
  /\ UNCHANGED <<mu, start, server, loops, closer>>

-----------------------------------------------------------------------------
(* startOne: Connect with its handshake, then the pages of tools.           *)

\* initialize and tools/list; got[Starter] is what the last one brought.
Ask ==
  /\ pc[Starter] = "idle" /\ got[Starter] = NoCall
  /\ \/ stage = "initialize" /\ call[Starter] = NoCall /\ UNCHANGED pages
     \/ stage = "list" /\ pages = 0 /\ pages' = 1
  /\ Begin(Starter)
  /\ UNCHANGED <<mu, stage, tools, server, loops, closer>>

Initialized ==
  /\ pc[Starter] = "idle" /\ stage = "initialize" /\ got[Starter] # NoCall
  /\ stage' = "notify" /\ Goto(Starter, "notify") /\ got' = [got EXCEPT ![Starter] = NoCall]
  /\ UNCHANGED <<mu, table, id, call, calls, pages, tools, server, loops, closer>>

\* The loop over the pages ends at its limit.
MorePages == pages < MaxPages

\* The page came with a cursor.
NextPage ==
  /\ pc[Starter] = "idle" /\ stage = "list" /\ got[Starter] # NoCall /\ MorePages
  /\ pages' = pages + 1
  /\ Begin(Starter)
  /\ UNCHANGED <<mu, stage, tools, server, loops, closer>>

\* What the server offers, up to the limit, less the names that are taken.
Register ==
  /\ pc[Starter] = "idle" /\ stage = "list" /\ got[Starter] # NoCall
  /\ \E offered \in SUBSET ToolNames :
       /\ Cardinality(offered) <= MaxTools
       /\ tools' = offered \ BuiltIn
  /\ stage' = "connected"
  /\ UNCHANGED <<mu, table, caller, pages, server, loops, closer>>

\* A request failed, or the server has no tools to offer.
StartFails ==
  /\ pc[Starter] = "idle"
  /\ \/ stage \in {"initialize", "list"} /\ call[Starter] # NoCall
        /\ got[Starter] = NoCall /\ (stage = "list" => pages > 0)
     \/ stage = "list" /\ pages = 0
  /\ stage' = "failing"
  /\ UNCHANGED <<mu, table, caller, pages, tools, server, loops, closer>>

-----------------------------------------------------------------------------
(* The reader and the goroutine that waits for the process.                 *)

\* What has no id is skipped; a line over the buffer ends the loop.
Scan ==
  /\ reader = "scan" /\ outPipe # << >>
  /\ outPipe' = Tail(outPipe)
  /\ CASE Head(outPipe) = TooLong -> reader' = "fail" /\ UNCHANGED line
       [] Head(outPipe) = Notification -> UNCHANGED <<reader, line>>
       [] OTHER -> reader' = "take" /\ line' = Head(outPipe)
  /\ UNCHANGED <<mu, table, caller, start, alive, inPipe, seen, watcher, closer>>

\* Who waits for it is taken from the table; a late answer is dropped.
Take ==
  /\ reader = "take" /\ mu = Free
  /\ pending' = Drop(pending, {line.id})
  /\ IF line.id \in DOMAIN pending
       THEN reader' = "deliver" /\ UNCHANGED line
       ELSE reader' = "scan" /\ line' = Nothing
  /\ UNCHANGED <<mu, nextID, box, caller, start, server, watcher, closer>>

\* The call may have timed out meanwhile: nobody has that channel then.
Deliver ==
  /\ reader = "deliver" /\ reader' = "scan" /\ line' = Nothing
  /\ box' = IF \E c \in Callers : id[c] = line.id THEN Put(box, line.id, line.call) ELSE box
  /\ UNCHANGED <<mu, nextID, pending, caller, start, server, watcher, closer>>

\* The end of the output, or of the pipe under the reader.
ReadEnds ==
  /\ reader = "scan" /\ (Reaped \/ (~alive /\ outPipe = << >>))
  /\ reader' = "fail"
  /\ UNCHANGED <<mu, table, caller, start, server, line, watcher, closer>>

\* failAllPending.
FailAll ==
  /\ mu = Free
  /\ pending' = Empty /\ box' = AllFailed
  /\ UNCHANGED <<mu, nextID, caller, start, server, line, closer>>

ReaderFails == reader = "fail" /\ reader' = "ended" /\ FailAll /\ UNCHANGED watcher

\* cmd.Wait returns and closes the pipes, whether or not all was read.
Reap ==
  /\ watcher = "wait" /\ ~alive /\ watcher' = "fail"
  /\ outPipe' \in {outPipe, << >>}
  /\ UNCHANGED <<mu, table, caller, start, alive, inPipe, seen, reader, line, closer>>

WatcherFails == watcher = "fail" /\ watcher' = "ended" /\ UNCHANGED reader /\ FailAll

-----------------------------------------------------------------------------
(* The server: anybody's program.                                           *)

ServerReads ==
  /\ alive /\ inPipe # << >> /\ inPipe' = Tail(inPipe)
  /\ seen' = seen \cup ({Head(inPipe)} \ {Notification})
  /\ UNCHANGED <<mu, table, caller, start, alive, outPipe, loops, closer>>

ServerWrites ==
  /\ alive /\ Len(outPipe) < PipeSize
  /\ \E l \in seen \cup {Notification, TooLong} : outPipe' = Append(outPipe, l)
  /\ UNCHANGED <<mu, table, caller, start, alive, inPipe, seen, loops, closer>>

ServerExits ==
  /\ alive /\ alive' = FALSE /\ inPipe' = << >> /\ seen' = {}
  /\ UNCHANGED <<mu, table, caller, start, outPipe, loops, closer>>

-----------------------------------------------------------------------------
(* Close: by startOne when the start has failed, by main at the end.        *)

CloseBegins ==
  /\ closer = "no" /\ stage \in {"failing", "connected"}
  /\ closer' = "waiting"
  /\ UNCHANGED <<mu, table, caller, start, server, loops>>

\* Three seconds are over.
Kill ==
  /\ closer = "waiting" /\ closer' = "killed"
  /\ alive' = FALSE /\ inPipe' = << >> /\ seen' = {}
  /\ UNCHANGED <<mu, table, caller, start, outPipe, loops>>

CloseReturns ==
  /\ closer \in {"waiting", "killed"} /\ reader = "ended" /\ watcher = "ended"
  /\ closer' = "done"
  /\ stage' = IF stage = "failing" THEN "failed" ELSE "stopped"
  /\ UNCHANGED <<mu, table, caller, pages, tools, server, loops>>

Go(c) == Lock(c) \/ Write(c) \/ WriteFails(c)
Answered(c) == Receive(c) \/ Timeout(c)
StartOne == Ask \/ Initialized \/ NextPage \/ Register \/ StartFails
Reader == Scan \/ Take \/ Deliver \/ ReadEnds \/ ReaderFails
Watcher == Reap \/ WatcherFails
Server == ServerReads \/ ServerWrites \/ ServerExits
CloseFailed == stage = "failing" /\ CloseBegins
Closing == CloseBegins \/ Kill \/ CloseReturns

Next ==
  \/ \E c \in Tools : Execute(c)
  \/ \E c \in Callers : Go(c) \/ Answered(c)
  \/ StartOne \/ Reader \/ Watcher \/ Server \/ Closing

\* The code's own goroutines go on and its waits end: the mutex goes to somebody
\* who waits, a call's context and Close's three seconds run out.  A foreign
\* program need not read, write or exit.
Fairness ==
  /\ \A c \in Callers : WF_vars(Go(c)) /\ WF_vars(Answered(c))
  /\ WF_vars(Reader) /\ WF_vars(Watcher)
  /\ WF_vars(StartOne) /\ WF_vars(CloseFailed) /\ WF_vars(Kill) /\ WF_vars(CloseReturns)

Spec == Init /\ [][Next]_vars /\ Fairness

-----------------------------------------------------------------------------
(* Correctness.                                                             *)

\* Types; a writer holds the mutex only between the table and the answer.
TypeOK ==
  /\ mu \in Callers \cup {Free}
  /\ mu # Free => pc[mu] \in {"write", "notify"}
  /\ nextID \in Nat /\ calls \in Nat
  /\ DOMAIN pending \subseteq 1..nextID /\ \A n \in DOMAIN pending : pending[n] \in Callers
  /\ DOMAIN box \subseteq 1..nextID /\ \A n \in DOMAIN box : box[n] \in Nat
  /\ pc \in [Callers -> {"idle", "write", "notify", "wait"}]
  /\ id \in [Callers -> Nat] /\ call \in [Callers -> Nat] /\ got \in [Callers -> Nat]
  /\ stage \in {"initialize", "notify", "list", "failing", "failed", "connected", "stopped"}
  /\ pages \in 0..MaxPages /\ tools \subseteq ToolNames \ BuiltIn
  /\ alive \in BOOLEAN /\ inPipe \in Seq(Request) /\ seen \subseteq Request
  /\ outPipe \in Seq(Request \cup {TooLong})
  /\ reader \in {"scan", "take", "deliver", "fail", "ended"}
  /\ line \in Request
  /\ watcher \in {"wait", "fail", "ended"}
  /\ closer \in {"no", "waiting", "killed", "done"}

\* The invariant that carries the next two properties.  An id belongs to one
\* call; the table and the channels are those of calls that have not returned.
IdsOK ==
  /\ \A c \in Callers : /\ pc[c] \in {"write", "wait"} <=> id[c] # 0
                        /\ id[c] <= nextID
                        /\ id[c] # 0 => call[c] # NoCall
  /\ \A c, d \in Callers : id[c] # 0 /\ id[c] = id[d] => c = d
  /\ \A n \in DOMAIN pending \cup DOMAIN box : \E c \in Callers : id[c] = n

\* A line with the id of a call that has not returned is the one of that call.
Matches(l) ==
  /\ l.id <= nextID /\ (l.id = 0 => l.call = NoCall)
  /\ \A c \in Callers : id[c] # 0 /\ l.id = id[c] => l.call = call[c]

\* So is every line between the caller that wrote it and the channel.
LinesOK ==
  /\ \A i \in 1..Len(inPipe) : Matches(inPipe[i])
  /\ \A l \in seen : Matches(l)
  /\ \A i \in 1..Len(outPipe) : Matches(outPipe[i])
  /\ Matches(line)
  /\ reader \in {"take", "deliver"} => line.id # 0

BoxOK == \A c \in Callers : id[c] \in DOMAIN box => box[id[c]] \in {NoCall, call[c]}

\* Its response is here, or the reader has it in hand.
Answerable(c) == id[c] \in DOMAIN box \/ (reader = "deliver" /\ line.id = id[c])

\* A call that is not in the table has its response; after the end of the
\* process only calls that have not written yet are entered there.
WaitOK ==
  /\ \A c \in Callers : id[c] # 0 => id[c] \in DOMAIN pending \/ Answerable(c)
  /\ Reaped => ~alive
  /\ watcher = "ended" => \A c \in Callers : pc[c] = "wait" => id[c] \notin DOMAIN pending

\* Responses find their calls by id, whatever was late, doubled or out of
\* order: no call takes the answer to another call for its own.
OwnAnswer == \A c \in Callers : got[c] # NoCall => got[c] = call[c]

\* Once the end of the process was noticed, nobody waits out a timeout for it:
\* every call has its response, or the reader has it in hand.
NobodyWaitsForTheDead ==
  watcher = "ended" =>
    \A c \in Callers : pc[c] = "wait" => Answerable(c)

IInv == TypeOK /\ IdsOK /\ LinesOK /\ BoxOK /\ WaitOK /\ OwnAnswer

\* The client implements Rpc, without its ids, pipes and goroutines: every call
\* ends once, with its own response or an error, and nobody else gets anything.
Abs == INSTANCE Rpc WITH
  made <- calls, result <- got,
  asking <- [c \in Callers |-> IF id[c] = 0 THEN NoCall ELSE call[c]]
ImplementsRpc == Abs!Spec

\* A writer holds the mutex at a full pipe that nobody reads or closes.
WriteBlocked == mu # Free /\ alive /\ ~Closed /\ Len(inPipe) = PipeSize

\* Whatever the server does, its start comes to an end: it is connected, or its
\* process is gone.  Only a write that blocks for ever prevents it.
StartDecided ==
  \/ <>[]WriteBlocked
  \/ <>(stage \in {"connected", "stopped"} \/ (stage = "failed" /\ ~alive))

\* Every call of a tool returns, also when the reader has ended before the
\* process, the process dies or the client is closed, unless a write blocks for
\* ever: nothing else that a server does or does not do holds a call, neither the
\* races for the mutex nor a reader that no longer runs.
OnlyWritesBlock ==
  \A c \in Tools : <>[]WriteBlocked \/ (pc[c] # "idle" ~> pc[c] = "idle")

\* "call_timeout_sec: the timeout of a single call of a tool" (README.md:344,
\* config.go:107): every call returns, by its timeout at the latest.
CallsReturn == \A c \in Tools : pc[c] # "idle" ~> pc[c] = "idle"
=============================================================================
