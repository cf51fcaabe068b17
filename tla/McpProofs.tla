----------------------------- MODULE McpProofs ------------------------------
(***************************************************************************)
(* Proofs about Mcp, for every set of callers, every size of the pipes and *)
(* every limit: its types, that a call takes no answer but its own, and    *)
(* that nobody waits for a server whose end was noticed.                   *)
(***************************************************************************)
EXTENDS Mcp, SequenceTheorems, TLAPS

\* The steps of the specification, by name.
LEMMA StepCases ==
  ASSUME [Next]_vars
  PROVE  \/ \E c \in Tools : Execute(c)
         \/ \E c \in Callers : Lock(c) \/ Write(c) \/ WriteFails(c) \/ Receive(c) \/ Timeout(c)
         \/ Ask \/ Initialized \/ NextPage \/ Register \/ StartFails
         \/ Scan \/ Take \/ Deliver \/ ReadEnds \/ ReaderFails
         \/ Reap \/ WatcherFails
         \/ ServerReads \/ ServerWrites \/ ServerExits
         \/ CloseBegins \/ Kill \/ CloseReturns
         \/ UNCHANGED vars
BY DEF Next, Go, Answered, StartOne, Reader, Watcher, Server, Closing

\* What the helpers on the table and the channels return.
LEMMA PutFacts ==
  ASSUME NEW f, NEW x, NEW y
  PROVE  /\ DOMAIN Put(f, x, y) = DOMAIN f \cup {x}
         /\ Put(f, x, y)[x] = y
         /\ \A n \in DOMAIN f : n # x => Put(f, x, y)[n] = f[n]
BY DEF Put

LEMMA DropFacts ==
  ASSUME NEW f, NEW S
  PROVE  /\ DOMAIN Drop(f, S) = DOMAIN f \ S
         /\ \A n \in DOMAIN f \ S : Drop(f, S)[n] = f[n]
BY DEF Drop

LEMMA AllFailedFacts ==
  /\ DOMAIN AllFailed = DOMAIN pending \cup DOMAIN box
  /\ \A n \in DOMAIN pending : AllFailed[n] = NoCall
  /\ \A n \in DOMAIN box \ DOMAIN pending : AllFailed[n] = box[n]
BY DEF AllFailed

LEMMA EmptyFacts == DOMAIN Empty = {}
BY DEF Empty

LEMMA StarterCaller == Starter \in Callers /\ Tools \subseteq Callers
BY DEF Callers

-----------------------------------------------------------------------------
(* Types.                                                                   *)

\* The table, the channels and the callers have their types.
TableType ==
  /\ mu \in Callers \cup {Free}
  /\ mu # Free => pc[mu] \in {"write", "notify"}
  /\ nextID \in Nat /\ calls \in Nat
  /\ DOMAIN pending \subseteq 1..nextID /\ \A n \in DOMAIN pending : pending[n] \in Callers
  /\ DOMAIN box \subseteq 1..nextID /\ \A n \in DOMAIN box : box[n] \in Nat
  /\ pc \in [Callers -> {"idle", "write", "notify", "wait"}]
  /\ id \in [Callers -> Nat] /\ call \in [Callers -> Nat] /\ got \in [Callers -> Nat]

\* So have the start and the client.
StartType ==
  /\ stage \in {"initialize", "notify", "list", "failing", "failed", "connected", "stopped"}
  /\ pages \in 0..MaxPages /\ tools \subseteq ToolNames \ BuiltIn
  /\ watcher \in {"wait", "fail", "ended"}
  /\ closer \in {"no", "waiting", "killed", "done"}

\* So have the lines.
LineType ==
  /\ alive \in BOOLEAN /\ inPipe \in Seq(Request) /\ seen \subseteq Request
  /\ outPipe \in Seq(Request \cup {TooLong})
  /\ reader \in {"scan", "take", "deliver", "fail", "ended"}
  /\ line \in Request

LEMMA TypeParts == TypeOK <=> TableType /\ StartType /\ LineType
BY DEF TypeOK, TableType, StartType, LineType

\* A step of the server and the end of it leave the pipes empty.
LEMMA EmptyPipes == << >> \in Seq(Request) /\ << >> \in Seq(Request \cup {TooLong})
BY EmptySeq

LEMMA TypeInit == Init => TypeOK
BY McpAssumption, EmptyFacts
   DEF Init, TypeOK, Request, Nothing, Notification, NoCall, Callers

\* A call is entered in the table.
LEMMA BeginType ==
  ASSUME TableType, NEW c \in Callers, pc[c] = "idle", Begin(c), UNCHANGED mu
  PROVE  TableType'
<1>. nextID' = nextID + 1 /\ nextID' \in Nat /\ 1..nextID \subseteq 1..nextID'
     /\ nextID' \in 1..nextID'
  BY DEF TableType, Begin, NextId
<1>1. /\ DOMAIN pending' \subseteq 1..nextID'
      /\ \A n \in DOMAIN pending' : pending'[n] \in Callers
  BY DEF TableType, Begin, NextId, Put
<1>2. /\ DOMAIN box' \subseteq 1..nextID'
      /\ \A n \in DOMAIN box' : box'[n] \in Nat
  BY DEF TableType, Begin
<1>3. /\ mu' = mu /\ mu = Free
  BY DEF Begin
<1>. QED BY <1>1, <1>2, <1>3 DEF TableType, Begin, Goto, NoCall

\* A call returns.
LEMMA ReturnType ==
  ASSUME TableType, NEW c \in Callers, NEW n \in Nat, Return(c, n),
         UNCHANGED <<nextID, call, calls>>, mu' = Free
  PROVE  TableType'
<1>1. /\ DOMAIN pending' \subseteq 1..nextID'
      /\ \A m \in DOMAIN pending' : pending'[m] \in Callers
  BY DEF TableType, Return, Forgotten, Drop
<1>2. /\ DOMAIN box' \subseteq 1..nextID'
      /\ \A m \in DOMAIN box' : box'[m] \in Nat
  BY DEF TableType, Return, Drop
<1>. QED BY <1>1, <1>2 DEF TableType, Return, Goto

\* All calls in the table fail.
LEMMA FailAllType ==
  ASSUME TableType, FailAll
  PROVE  TableType'
<1>1. DOMAIN pending' = {}
  BY EmptyFacts DEF FailAll
<1>2. /\ DOMAIN box' \subseteq 1..nextID'
      /\ \A m \in DOMAIN box' : box'[m] \in Nat
  BY AllFailedFacts DEF TableType, FailAll, NoCall
<1>. QED BY <1>1, <1>2 DEF TableType, FailAll, caller

\* What a step of the reader reads is a line.
LEMMA HeadType ==
  ASSUME LineType, outPipe # << >>
  PROVE  /\ Head(outPipe) \in Request \cup {TooLong}
         /\ Tail(outPipe) \in Seq(Request \cup {TooLong})
BY HeadTailProperties DEF LineType

LEMMA TypeStep ==
  ASSUME TypeOK, IdsOK, LinesOK, [Next]_vars
  PROVE  TypeOK'
<1>. TableType /\ StartType /\ LineType
  BY TypeParts
<1>. SUFFICES TableType' /\ StartType' /\ LineType'
  BY DEF TypeOK, TableType, StartType, LineType
<1>. USE StarterCaller
<1>1. ASSUME NEW c \in Tools, Execute(c) PROVE TableType' /\ StartType' /\ LineType'
  <2>1. TableType'
    BY <1>1, BeginType DEF Execute
  <2>. QED BY <1>1, <2>1 DEF Execute, start, server, loops, StartType, LineType
<1>2. ASSUME NEW c \in Callers, Lock(c) PROVE TableType' /\ StartType' /\ LineType'
  BY <1>2 DEF Lock, table, caller, start, server, loops, TableType, StartType, LineType
<1>3. ASSUME NEW c \in Callers, Write(c) PROVE TableType' /\ StartType' /\ LineType'
  <2>1. TableType'
    BY <1>3 DEF Write, table, Goto, TableType
  <2>2. StartType'
    BY <1>3 DEF Write, loops, StartType
  <2>3. inPipe' \in Seq(Request)
    <3>1. Notification \in Request /\ [id |-> id[c], call |-> call[c]] \in Request
      BY DEF Notification, NoCall, Request, TableType
    <3>2. \E l \in Request : inPipe' = Append(inPipe, l)
      BY <1>3, <3>1 DEF Write
    <3>. QED BY <3>2 DEF LineType
  <2>. QED BY <1>3, <2>1, <2>2, <2>3 DEF Write, loops, LineType
<1>4. ASSUME NEW c \in Callers, WriteFails(c) PROVE TableType' /\ StartType' /\ LineType'
  <2>1. CASE pc[c] = "notify"
    BY <1>4, <2>1 DEF WriteFails, table, Goto, server, loops, TableType, StartType, LineType
  <2>2. CASE pc[c] # "notify"
    <3>1. TableType'
      BY <1>4, <2>2, ReturnType DEF WriteFails, NoCall
    <3>. QED BY <1>4, <2>2, <3>1 DEF WriteFails, server, loops, StartType, LineType
  <2>. QED BY <2>1, <2>2
<1>5. ASSUME NEW c \in Callers, Receive(c) \/ Timeout(c)
      PROVE  TableType' /\ StartType' /\ LineType'
  <2>1. CASE Receive(c)
    <3>1. box[id[c]] \in Nat /\ mu' = Free
      BY <2>1 DEF Receive, TableType
    <3>2. TableType'
      BY <2>1, <3>1, ReturnType DEF Receive
    <3>. QED BY <2>1, <3>2 DEF Receive, start, server, loops, StartType, LineType
  <2>2. CASE Timeout(c)
    <3>1. TableType'
      BY <2>2, ReturnType DEF Timeout, NoCall
    <3>. QED BY <2>2, <3>1 DEF Timeout, start, server, loops, StartType, LineType
  <2>. QED BY <1>5, <2>1, <2>2
<1>6. CASE Ask
  <2>1. TableType'
    BY <1>6, BeginType DEF Ask
  <2>2. pages' \in 0..MaxPages
    BY <1>6, McpAssumption DEF Ask, StartType
  <2>. QED BY <1>6, <2>1, <2>2 DEF Ask, server, loops, StartType, LineType
<1>7. CASE Initialized
  <2>1. mu = Free \/ mu # Starter
    BY <1>7 DEF Initialized, TableType
  <2>. QED BY <1>7, <2>1 DEF Initialized, table, Goto, server, loops, NoCall,
              TableType, StartType, LineType
<1>8. CASE NextPage
  <2>1. TableType'
    BY <1>8, BeginType DEF NextPage
  <2>2. pages' \in 0..MaxPages
    BY <1>8, McpAssumption DEF NextPage, MorePages, StartType
  <2>. QED BY <1>8, <2>1, <2>2 DEF NextPage, server, loops, StartType, LineType
<1>9. CASE Register
  BY <1>9 DEF Register, table, caller, server, loops, TableType, StartType, LineType
<1>10. CASE StartFails
  BY <1>10 DEF StartFails, table, caller, server, loops, TableType, StartType, LineType
<1>11. CASE Scan
  <2>1. outPipe' \in Seq(Request \cup {TooLong})
    BY <1>11, HeadType DEF Scan
  <2>2. reader' \in {"scan", "take", "fail"} /\ line' \in Request
    BY <1>11, HeadType DEF Scan, LineType
  <2>. QED BY <1>11, <2>1, <2>2 DEF Scan, table, caller, start, TableType, StartType, LineType
<1>12. CASE Take
  <2>1. /\ DOMAIN pending' \subseteq DOMAIN pending
        /\ \A n \in DOMAIN pending' : pending'[n] = pending[n]
    BY <1>12 DEF Take, Drop
  <2>2. line' \in Request /\ reader' \in {"deliver", "scan"}
    BY <1>12 DEF Take, LineType, Nothing, Notification, NoCall, Request
  <2>. QED BY <1>12, <2>1, <2>2 DEF Take, caller, start, server, TableType, StartType, LineType
<1>13. CASE Deliver
  <2>1. line' \in Request
    BY <1>13 DEF Deliver, Nothing, Notification, NoCall, Request
  <2>2. /\ DOMAIN box' \subseteq 1..nextID'
        /\ \A m \in DOMAIN box' : box'[m] \in Nat
    <3>1. CASE \E c \in Callers : id[c] = line.id
      <4>1. line.id \in 1..nextID /\ line.call \in Nat
        BY <1>13, <3>1 DEF Deliver, TableType, LineType, Request, IdsOK, LinesOK
      <4>2. box' = Put(box, line.id, line.call) /\ nextID' = nextID
        BY <1>13, <3>1 DEF Deliver
      <4>3. DOMAIN box' = DOMAIN box \cup {line.id}
        BY <4>2 DEF Put
      <4>4. \A m \in DOMAIN box' : box'[m] \in Nat
        BY <4>1, <4>2 DEF Put, TableType
      <4>. QED BY <4>1, <4>2, <4>3, <4>4 DEF TableType
    <3>2. CASE ~\E c \in Callers : id[c] = line.id
      BY <1>13, <3>2 DEF Deliver, TableType
    <3>. QED BY <3>1, <3>2
  <2>. QED BY <1>13, <2>1, <2>2 DEF Deliver, caller, start, server, TableType, StartType, LineType
<1>14. CASE ReadEnds
  BY <1>14 DEF ReadEnds, table, caller, start, server, TableType, StartType, LineType
<1>15. CASE ReaderFails
  BY <1>15, FailAllType DEF ReaderFails, FailAll, start, server, StartType, LineType
<1>16. CASE Reap
  BY <1>16, EmptyPipes DEF Reap, table, caller, start, TableType, StartType, LineType
<1>17. CASE WatcherFails
  BY <1>17, FailAllType DEF WatcherFails, FailAll, start, server, StartType, LineType
<1>18. CASE ServerReads
  <2>1. Head(inPipe) \in Request /\ Tail(inPipe) \in Seq(Request)
    BY <1>18, HeadTailProperties DEF ServerReads, LineType
  <2>. QED BY <1>18, <2>1 DEF ServerReads, table, caller, start, loops,
              TableType, StartType, LineType
<1>19. CASE ServerWrites
  <2>1. Notification \in Request
    BY DEF Notification, NoCall, Request
  <2>2. outPipe' \in Seq(Request \cup {TooLong})
    BY <1>19, <2>1 DEF ServerWrites, LineType
  <2>. QED BY <1>19, <2>2 DEF ServerWrites, table, caller, start, loops,
              TableType, StartType, LineType
<1>20. CASE ServerExits
  BY <1>20, EmptyPipes DEF ServerExits, table, caller, start, loops, TableType, StartType, LineType
<1>21. CASE CloseBegins
  BY <1>21 DEF CloseBegins, table, caller, start, server, loops, TableType, StartType, LineType
<1>22. CASE Kill
  BY <1>22, EmptyPipes DEF Kill, table, caller, start, loops, TableType, StartType, LineType
<1>23. CASE CloseReturns
  BY <1>23 DEF CloseReturns, table, caller, server, loops, TableType, StartType, LineType
<1>24. CASE UNCHANGED vars
  BY <1>24 DEF vars, TableType, StartType, LineType
<1>. QED BY StepCases, <1>1, <1>2, <1>3, <1>4, <1>5, <1>6, <1>7, <1>8, <1>9, <1>10, <1>11,
            <1>12, <1>13, <1>14, <1>15, <1>16, <1>17, <1>18, <1>19, <1>20, <1>21, <1>22,
            <1>23, <1>24

-----------------------------------------------------------------------------
(* Ids.                                                                     *)

LEMMA IdsInit == Init => IdsOK
BY EmptyFacts DEF Init, IdsOK

\* A call gets an id that no call has.
LEMMA BeginIds ==
  ASSUME TypeOK, IdsOK, NEW c \in Callers, pc[c] = "idle", Begin(c)
  PROVE  IdsOK'
<1>. /\ id \in [Callers -> Nat] /\ pc \in [Callers -> {"idle", "write", "notify", "wait"}]
     /\ nextID \in Nat /\ nextID' = nextID + 1
  BY DEF TypeOK, Begin, NextId
<1>1. /\ id'[c] = nextID + 1 /\ pc'[c] = "write" /\ call'[c] # NoCall
      /\ \A d \in Callers : d # c => id'[d] = id[d] /\ pc'[d] = pc[d] /\ call'[d] = call[d]
  BY DEF Begin, NextId, Goto, TypeOK, NoCall
<1>2. \A d \in Callers : /\ pc'[d] \in {"write", "wait"} <=> id'[d] # 0
                         /\ id'[d] <= nextID'
                         /\ id'[d] # 0 => call'[d] # NoCall
  BY <1>1 DEF IdsOK
<1>3. \A d, e \in Callers : id'[d] # 0 /\ id'[d] = id'[e] => d = e
  BY <1>1 DEF IdsOK
<1>4. DOMAIN pending' = DOMAIN pending \cup {nextID + 1} /\ box' = box
  BY DEF Begin, NextId, Put
<1>5. id[c] = 0
  BY DEF IdsOK
<1>6. \A n \in DOMAIN pending \cup DOMAIN box : n # 0
  BY DEF TypeOK
<1>7. \A n \in DOMAIN pending' \cup DOMAIN box' : \E d \in Callers : id'[d] = n
  BY <1>1, <1>4, <1>5, <1>6 DEF IdsOK
<1>. QED BY <1>2, <1>3, <1>7 DEF IdsOK

\* A call that returns takes its entry and its channel away.
LEMMA ReturnIds ==
  ASSUME TypeOK, IdsOK, NEW c \in Callers, NEW n, Return(c, n), UNCHANGED <<nextID, call>>
  PROVE  IdsOK'
<1>. /\ id \in [Callers -> Nat] /\ pc \in [Callers -> {"idle", "write", "notify", "wait"}]
     /\ nextID \in Nat
  BY DEF TypeOK
<1>1. /\ id'[c] = 0 /\ pc'[c] = "idle"
      /\ \A d \in Callers : d # c => id'[d] = id[d] /\ pc'[d] = pc[d]
  BY DEF Return, Goto
<1>2. \A d \in Callers : /\ pc'[d] \in {"write", "wait"} <=> id'[d] # 0
                         /\ id'[d] <= nextID'
                         /\ id'[d] # 0 => call'[d] # NoCall
  BY <1>1 DEF IdsOK
<1>3. \A d, e \in Callers : id'[d] # 0 /\ id'[d] = id'[e] => d = e
  BY <1>1 DEF IdsOK
<1>4. /\ DOMAIN pending' = DOMAIN pending \ {id[c]}
      /\ DOMAIN box' = DOMAIN box \ {id[c]}
  BY DEF Return, Forgotten, Drop
<1>5. \A m \in DOMAIN pending' \cup DOMAIN box' : \E d \in Callers : id'[d] = m
  BY <1>1, <1>4 DEF IdsOK
<1>. QED BY <1>2, <1>3, <1>5 DEF IdsOK

\* Calls that fail are in the channels instead of the table.
LEMMA FailAllIds ==
  ASSUME IdsOK, FailAll
  PROVE  IdsOK'
<1>1. DOMAIN pending' \cup DOMAIN box' = DOMAIN pending \cup DOMAIN box
  BY EmptyFacts, AllFailedFacts DEF FailAll
<1>. QED BY <1>1 DEF FailAll, caller, IdsOK

\* What a step does to the ids and to the calls they stand for.
LEMMA IdCases ==
  ASSUME TypeOK, [Next]_vars
  PROVE  \/ UNCHANGED <<nextID, id, call>>
         \/ \E c \in Callers : pc[c] = "idle" /\ Begin(c)
         \/ \E c \in Callers : /\ id' = [id EXCEPT ![c] = 0]
                               /\ UNCHANGED <<nextID, call>>
<1>. USE StarterCaller
<1>1. ASSUME NEW c \in Tools, Execute(c) PROVE pc[c] = "idle" /\ Begin(c)
  BY <1>1 DEF Execute
<1>2. Ask \/ NextPage => pc[Starter] = "idle" /\ Begin(Starter)
  BY DEF Ask, NextPage
<1>3. ASSUME NEW c \in Callers, WriteFails(c) \/ Receive(c) \/ Timeout(c)
      PROVE  UNCHANGED <<nextID, call>> /\ (UNCHANGED id \/ id' = [id EXCEPT ![c] = 0])
  BY <1>3 DEF WriteFails, Receive, Timeout, Return, table
<1>4. ASSUME NEW c \in Callers, Lock(c) \/ Write(c) PROVE UNCHANGED <<nextID, id, call>>
  BY <1>4 DEF Lock, Write, table, caller
<1>5. Initialized \/ Register \/ StartFails => UNCHANGED <<nextID, id, call>>
  BY DEF Initialized, Register, StartFails, table, caller
<1>6. Scan \/ Take \/ Deliver \/ ReadEnds \/ ReaderFails \/ Reap \/ WatcherFails
      => UNCHANGED <<nextID, id, call>>
  BY DEF Scan, Take, Deliver, ReadEnds, ReaderFails, Reap, WatcherFails, FailAll, table, caller
<1>7. ServerReads \/ ServerWrites \/ ServerExits \/ CloseBegins \/ Kill \/ CloseReturns
      => UNCHANGED <<nextID, id, call>>
  BY DEF ServerReads, ServerWrites, ServerExits, CloseBegins, Kill, CloseReturns, table, caller
<1>8. UNCHANGED vars => UNCHANGED <<nextID, id, call>>
  BY DEF vars
<1>. QED BY StepCases, <1>1, <1>2, <1>3, <1>4, <1>5, <1>6, <1>7, <1>8

LEMMA IdsStep ==
  ASSUME TypeOK, IdsOK, LinesOK, [Next]_vars
  PROVE  IdsOK'
<1>. USE StarterCaller
<1>1. ASSUME NEW c \in Tools, Execute(c) PROVE IdsOK'
  BY <1>1, BeginIds DEF Execute
<1>2. CASE Ask \/ NextPage
  BY <1>2, BeginIds DEF Ask, NextPage
<1>3. ASSUME NEW c \in Callers, WriteFails(c) \/ Receive(c) \/ Timeout(c) PROVE IdsOK'
  <2>1. CASE WriteFails(c) /\ pc[c] = "notify"
    <3>1. \A d \in Callers : pc'[d] \in {"write", "wait"} <=> pc[d] \in {"write", "wait"}
      BY <2>1 DEF WriteFails, Goto, TypeOK
    <3>. QED BY <2>1, <3>1 DEF WriteFails, table, IdsOK
  <2>2. CASE WriteFails(c) /\ pc[c] # "notify"
    BY <2>2, ReturnIds DEF WriteFails
  <2>3. CASE Receive(c) \/ Timeout(c)
    BY <2>3, ReturnIds DEF Receive, Timeout
  <2>. QED BY <1>3, <2>1, <2>2, <2>3
<1>4. ASSUME NEW c \in Callers, Write(c) PROVE IdsOK'
  <2>1. mu = c /\ pc[c] \in {"write", "notify"}
    BY <1>4, McpAssumption DEF Write, TypeOK
  <2>2. \A d \in Callers : pc'[d] \in {"write", "wait"} <=> pc[d] \in {"write", "wait"}
    BY <1>4, <2>1 DEF Write, Goto, TypeOK
  <2>. QED BY <1>4, <2>2 DEF Write, table, IdsOK
<1>5. ASSUME NEW c \in Callers, Lock(c) PROVE IdsOK'
  BY <1>5 DEF Lock, table, caller, IdsOK
<1>6. CASE Initialized
  <2>1. \A d \in Callers : pc'[d] \in {"write", "wait"} <=> pc[d] \in {"write", "wait"}
    BY <1>6 DEF Initialized, Goto, TypeOK
  <2>. QED BY <1>6, <2>1 DEF Initialized, table, IdsOK
<1>7. CASE Register \/ StartFails \/ Scan \/ ReadEnds \/ Reap
  BY <1>7 DEF Register, StartFails, Scan, ReadEnds, Reap, table, caller, IdsOK
<1>8. CASE Take
  <2>1. DOMAIN pending' \subseteq DOMAIN pending
    BY <1>8 DEF Take, Drop
  <2>. QED BY <1>8, <2>1 DEF Take, caller, IdsOK
<1>9. CASE Deliver
  <2>1. DOMAIN box' \subseteq DOMAIN box \cup {id[c] : c \in Callers}
    BY <1>9 DEF Deliver, Put
  <2>. QED BY <1>9, <2>1 DEF Deliver, caller, IdsOK
<1>10. CASE ReaderFails \/ WatcherFails
  BY <1>10, FailAllIds DEF ReaderFails, WatcherFails
<1>11. CASE ServerReads \/ ServerWrites \/ ServerExits \/ CloseBegins \/ Kill \/ CloseReturns
  BY <1>11 DEF ServerReads, ServerWrites, ServerExits, CloseBegins, Kill, CloseReturns,
               table, caller, IdsOK
<1>12. CASE UNCHANGED vars
  BY <1>12 DEF vars, IdsOK
<1>. QED BY StepCases, <1>1, <1>2, <1>3, <1>4, <1>5, <1>6, <1>7, <1>8, <1>9, <1>10, <1>11, <1>12

-----------------------------------------------------------------------------
(* Lines.                                                                   *)

\* A line keeps its call, whatever begins or returns.
LEMMA MatchesKept ==
  ASSUME TypeOK, IdsOK, [Next]_vars
  PROVE  \A l \in Request \cup {TooLong} : Matches(l) => Matches(l)'
<1>. SUFFICES ASSUME NEW l \in Request \cup {TooLong}, Matches(l),
                     NEW c \in Callers
              PROVE  /\ l.id <= nextID' /\ (l.id = 0 => l.call = NoCall)
                     /\ id'[c] # 0 /\ l.id = id'[c] => l.call = call'[c]
  BY StarterCaller DEF Matches
<1>. /\ id \in [Callers -> Nat] /\ call \in [Callers -> Nat] /\ nextID \in Nat
     /\ l.id \in Int /\ l.id <= nextID
  BY DEF TypeOK, Matches, Request, TooLong
<1>1. CASE UNCHANGED <<nextID, id, call>>
  BY <1>1 DEF Matches
<1>2. ASSUME NEW d \in Callers, Begin(d)
      PROVE  /\ l.id <= nextID' /\ (l.id = 0 => l.call = NoCall)
             /\ id'[c] # 0 /\ l.id = id'[c] => l.call = call'[c]
  <2>1. nextID' = nextID + 1 /\ id'[d] = nextID + 1
    BY <1>2 DEF Begin, NextId
  <2>2. c # d => id'[c] = id[c] /\ call'[c] = call[c]
    BY <1>2 DEF Begin
  <2>. QED BY <2>1, <2>2 DEF Matches
<1>3. ASSUME NEW d \in Callers, id' = [id EXCEPT ![d] = 0], UNCHANGED <<nextID, call>>
      PROVE  /\ l.id <= nextID' /\ (l.id = 0 => l.call = NoCall)
             /\ id'[c] # 0 /\ l.id = id'[c] => l.call = call'[c]
  BY <1>3 DEF Matches
<1>. QED BY IdCases, <1>1, <1>2, <1>3

\* What is not a request is nobody's.
LEMMA NobodysLines ==
  ASSUME TypeOK
  PROVE  Matches(Notification) /\ Matches(TooLong)
BY DEF TypeOK, Matches, Notification, TooLong, NoCall

\* The request of a call is its own.
LEMMA OwnLine ==
  ASSUME TypeOK, IdsOK, NEW c \in Callers, id[c] # 0
  PROVE  Matches([id |-> id[c], call |-> call[c]])
BY DEF TypeOK, IdsOK, Matches

LEMMA LinesInit == Init => LinesOK
BY DEF Init, LinesOK, Matches, Nothing, Notification, NoCall

\* How lines move: each is written by its caller, read by the server, written
\* back any number of times, and read again; nothing else enters a pipe.
InPipeMoves ==
  \/ inPipe' \in {inPipe, << >>}
  \/ inPipe # << >> /\ inPipe' = Tail(inPipe)
  \/ \E l \in Request : Matches(l)' /\ inPipe' = Append(inPipe, l)
SeenMoves == \A l \in seen' : l \in seen \/ (inPipe # << >> /\ l = Head(inPipe))
OutPipeMoves ==
  \/ outPipe' \in {outPipe, << >>}
  \/ outPipe # << >> /\ outPipe' = Tail(outPipe)
  \/ \E l \in seen \cup {Notification, TooLong} : outPipe' = Append(outPipe, l)
LineMoves ==
  \/ line' = line /\ (reader' \in {"take", "deliver"} => reader \in {"take", "deliver"})
  \/ line' = Nothing /\ reader' \notin {"take", "deliver"}
  \/ outPipe # << >> /\ line' = Head(outPipe) /\ line' \notin {Notification, TooLong}

Moves == InPipeMoves /\ SeenMoves /\ OutPipeMoves /\ LineMoves

LEMMA RestMoves ==
  ASSUME UNCHANGED <<inPipe, seen, outPipe, line>>,
         reader' \in {"take", "deliver"} => reader \in {"take", "deliver"}
  PROVE  Moves
BY DEF Moves, InPipeMoves, SeenMoves, OutPipeMoves, LineMoves

LEMMA WriteMoves ==
  ASSUME TypeOK, IdsOK, NEW c \in Callers, Write(c)
  PROVE  Moves
<1>1. mu = c /\ pc[c] \in {"write", "notify"}
  BY McpAssumption DEF Write, TypeOK
<1>2. UNCHANGED <<nextID, id, call>>
  BY DEF Write, table
<1>3. \E l \in Request : Matches(l)' /\ inPipe' = Append(inPipe, l)
  <2>1. CASE pc[c] = "notify"
    <3>1. inPipe' = Append(inPipe, Notification) /\ Notification \in Request
      BY <2>1 DEF Write, Notification, Request, NoCall
    <3>2. Matches(Notification)'
      BY <1>2, NobodysLines DEF Matches, Notification
    <3>. QED BY <3>1, <3>2
  <2>2. CASE pc[c] = "write"
    <3>. DEFINE l == [id |-> id[c], call |-> call[c]]
    <3>1. inPipe' = Append(inPipe, l) /\ l \in Request /\ id[c] # 0
      BY <2>2 DEF Write, TypeOK, Request, IdsOK
    <3>2. \A d \in Callers : id'[d] # 0 /\ l.id = id'[d] => l.call = call'[d]
      BY <1>2, <3>1, OwnLine DEF Matches
    <3>3. l.id <= nextID' /\ (l.id = 0 => l.call = NoCall)
      BY <1>2, <3>1 DEF IdsOK
    <3>4. \E m \in Request : Matches(m)' /\ inPipe' = Append(inPipe, m)
      BY <1>2, <3>1, <3>2, <3>3 DEF Matches
    <3>. QED BY <3>4
  <2>. QED BY <1>1, <2>1, <2>2
<1>. QED BY <1>3 DEF Write, loops, Moves, InPipeMoves, SeenMoves, OutPipeMoves, LineMoves

LEMMA MovesStep ==
  ASSUME TypeOK, IdsOK, [Next]_vars
  PROVE  Moves
<1>. USE StarterCaller
<1>1. ASSUME NEW c \in Tools, Execute(c) PROVE Moves
  BY <1>1, RestMoves DEF Execute, server, loops
<1>2. ASSUME NEW c \in Callers, Lock(c) \/ WriteFails(c) \/ Receive(c) \/ Timeout(c)
      PROVE  Moves
  BY <1>2, RestMoves DEF Lock, WriteFails, Receive, Timeout, server, loops
<1>3. CASE Ask \/ Initialized \/ NextPage \/ Register \/ StartFails
  BY <1>3, RestMoves DEF Ask, Initialized, NextPage, Register, StartFails, server, loops
<1>4. CASE Scan
  <2>1. CASE UNCHANGED line /\ reader' \notin {"take", "deliver"}
    BY <1>4, <2>1 DEF Scan, Moves, InPipeMoves, SeenMoves, OutPipeMoves, LineMoves
  <2>2. CASE line' = Head(outPipe) /\ line' \notin {Notification, TooLong}
    BY <1>4, <2>2 DEF Scan, Moves, InPipeMoves, SeenMoves, OutPipeMoves, LineMoves
  <2>. QED BY <1>4, <2>1, <2>2 DEF Scan
<1>5. CASE Take \/ Deliver
  BY <1>5 DEF Take, Deliver, server, Moves, InPipeMoves, SeenMoves, OutPipeMoves, LineMoves
<1>6. CASE ReadEnds \/ ReaderFails \/ WatcherFails
  BY <1>6, RestMoves DEF ReadEnds, ReaderFails, WatcherFails, FailAll, server
<1>7. CASE Reap
  BY <1>7 DEF Reap, Moves, InPipeMoves, SeenMoves, OutPipeMoves, LineMoves
<1>8. CASE ServerReads
  BY <1>8 DEF ServerReads, loops, Moves, InPipeMoves, SeenMoves, OutPipeMoves, LineMoves
<1>9. CASE ServerWrites
  BY <1>9 DEF ServerWrites, loops, Moves, InPipeMoves, SeenMoves, OutPipeMoves, LineMoves
<1>10. CASE ServerExits \/ Kill
  BY <1>10 DEF ServerExits, Kill, loops, Moves, InPipeMoves, SeenMoves, OutPipeMoves, LineMoves
<1>11. CASE CloseBegins \/ CloseReturns
  BY <1>11, RestMoves DEF CloseBegins, CloseReturns, server, loops
<1>12. CASE UNCHANGED vars
  BY <1>12, RestMoves DEF vars
<1>. QED BY StepCases, WriteMoves, <1>1, <1>2, <1>3, <1>4, <1>5, <1>6, <1>7, <1>8, <1>9, <1>10,
            <1>11, <1>12

LEMMA LinesStep ==
  ASSUME TypeOK, IdsOK, LinesOK, [Next]_vars, TypeOK'
  PROVE  LinesOK'
<1>. Moves
  BY MovesStep
<1>. /\ inPipe \in Seq(Request) /\ seen \subseteq Request /\ line \in Request
     /\ outPipe \in Seq(Request \cup {TooLong})
  BY DEF TypeOK
<1>1. \A l \in Request \cup {TooLong} : Matches(l) => Matches(l)'
  BY MatchesKept
<1>2. /\ \A i \in 1..Len(inPipe) : inPipe[i] \in Request /\ Matches(inPipe[i])
      /\ \A i \in 1..Len(outPipe) : /\ outPipe[i] \in Request \cup {TooLong}
                                    /\ Matches(outPipe[i])
  BY DEF LinesOK
<1>3. /\ inPipe # << >> => Head(inPipe) \in Request /\ Matches(Head(inPipe))
      /\ outPipe # << >> => /\ Head(outPipe) \in Request \cup {TooLong}
                            /\ Matches(Head(outPipe))
  BY <1>2
<1>4. \A l \in {Notification, TooLong} : Matches(l)'
  BY NobodysLines, <1>1 DEF Notification, NoCall, Request
<1>5. \A i \in 1..Len(inPipe') : \E l \in Request : l = inPipe'[i] /\ Matches(l)'
  <2>1. CASE inPipe' \in {inPipe, << >>}
    BY <1>1, <1>2, <2>1
  <2>2. CASE inPipe # << >> /\ inPipe' = Tail(inPipe)
    <3>1. \A i \in 1..Len(inPipe') : i + 1 \in 1..Len(inPipe) /\ inPipe'[i] = inPipe[i + 1]
      BY <2>2
    <3>. QED BY <1>1, <1>2, <3>1
  <2>3. ASSUME NEW m \in Request, Matches(m)', inPipe' = Append(inPipe, m)
        PROVE  \A i \in 1..Len(inPipe') : \E l \in Request : l = inPipe'[i] /\ Matches(l)'
    <3>1. \A i \in 1..Len(inPipe') : inPipe'[i] = m \/ (i \in 1..Len(inPipe) /\ inPipe'[i] = inPipe[i])
      BY <2>3
    <3>. QED BY <1>1, <1>2, <2>3, <3>1
  <2>. QED BY <2>1, <2>2, <2>3 DEF Moves, InPipeMoves
<1>6. \A l \in seen' : Matches(l)'
  BY <1>1, <1>3 DEF Moves, SeenMoves, LinesOK
<1>7. \A i \in 1..Len(outPipe') : \E l \in Request \cup {TooLong} : l = outPipe'[i] /\ Matches(l)'
  <2>1. CASE outPipe' \in {outPipe, << >>}
    BY <1>1, <1>2, <2>1
  <2>2. CASE outPipe # << >> /\ outPipe' = Tail(outPipe)
    <3>1. \A i \in 1..Len(outPipe') : i + 1 \in 1..Len(outPipe) /\ outPipe'[i] = outPipe[i + 1]
      BY <2>2
    <3>. QED BY <1>1, <1>2, <3>1
  <2>3. ASSUME NEW m \in seen \cup {Notification, TooLong}, outPipe' = Append(outPipe, m)
        PROVE  \A i \in 1..Len(outPipe') :
                 \E l \in Request \cup {TooLong} : l = outPipe'[i] /\ Matches(l)'
    <3>1. m \in Request \cup {TooLong} /\ Matches(m)'
      BY <1>1, <1>4 DEF LinesOK, Notification, NoCall, Request
    <3>2. \A i \in 1..Len(outPipe') :
            outPipe'[i] = m \/ (i \in 1..Len(outPipe) /\ outPipe'[i] = outPipe[i])
      BY <2>3, <3>1
    <3>. QED BY <1>1, <1>2, <3>1, <3>2
  <2>. QED BY <2>1, <2>2, <2>3 DEF Moves, OutPipeMoves
<1>8. \E l \in Request : l = line' /\ Matches(l)'
  <2>1. CASE line' = line
    BY <1>1, <2>1 DEF LinesOK
  <2>2. CASE line' = Nothing
    BY <1>4, <2>2 DEF Nothing, Notification, NoCall, Request
  <2>3. CASE outPipe # << >> /\ line' = Head(outPipe) /\ line' \notin {Notification, TooLong}
    BY <1>1, <1>3, <2>3
  <2>. QED BY <2>1, <2>2, <2>3 DEF Moves, LineMoves
<1>9. reader' \in {"take", "deliver"} => line'.id # 0
  <2>1. CASE line' = line /\ (reader' \in {"take", "deliver"} => reader \in {"take", "deliver"})
    BY <2>1 DEF LinesOK
  <2>2. CASE outPipe # << >> /\ line' = Head(outPipe) /\ line' \notin {Notification, TooLong}
    <3>1. line' \in Request /\ Matches(line')
      BY <1>3, <2>2
    <3>. QED BY <2>2, <3>1 DEF Matches, Request, Notification, NoCall
  <2>. QED BY <2>1, <2>2 DEF Moves, LineMoves
<1>. QED BY <1>5, <1>6, <1>7, <1>8, <1>9 DEF LinesOK, Matches

-----------------------------------------------------------------------------
(* Responses.                                                               *)

\* What a step does to the channels, the table and the calls: a call begins,
\* one returns with what its channel holds or an error, a response is
\* delivered, or all calls in the table fail.
BoxMoves ==
  \/ box' = box /\ UNCHANGED <<id, call>>
  \/ \E c \in Callers : pc[c] = "idle" /\ Begin(c)
  \/ \E c \in Callers, n \in Nat :
       /\ Return(c, n) /\ UNCHANGED call
       /\ n = NoCall \/ (id[c] \in DOMAIN box /\ n = box[id[c]])
  \/ Deliver
  \/ FailAll

LEMMA BoxCases ==
  ASSUME TypeOK, [Next]_vars
  PROVE  BoxMoves
<1>. USE StarterCaller
<1>1. ASSUME NEW c \in Tools, Execute(c) PROVE BoxMoves
  BY <1>1 DEF Execute, BoxMoves
<1>2. CASE Ask \/ NextPage
  BY <1>2 DEF Ask, NextPage, BoxMoves
<1>3. ASSUME NEW c \in Callers, WriteFails(c) PROVE BoxMoves
  BY <1>3 DEF WriteFails, NoCall, table, BoxMoves
<1>4. ASSUME NEW c \in Callers, Timeout(c) PROVE BoxMoves
  BY <1>4 DEF Timeout, NoCall, BoxMoves
<1>5. ASSUME NEW c \in Callers, Receive(c) PROVE BoxMoves
  <2>1. box[id[c]] \in Nat
    BY <1>5 DEF Receive, TypeOK
  <2>. QED BY <1>5, <2>1 DEF Receive, BoxMoves
<1>6. ASSUME NEW c \in Callers, Lock(c) \/ Write(c) PROVE BoxMoves
  BY <1>6 DEF Lock, Write, table, caller, BoxMoves
<1>7. CASE Initialized \/ Register \/ StartFails
  BY <1>7 DEF Initialized, Register, StartFails, table, caller, BoxMoves
<1>8. CASE Scan \/ Take \/ ReadEnds \/ Reap
  BY <1>8 DEF Scan, Take, ReadEnds, Reap, table, caller, BoxMoves
<1>9. CASE Deliver \/ ReaderFails \/ WatcherFails
  BY <1>9 DEF ReaderFails, WatcherFails, BoxMoves
<1>10. CASE ServerReads \/ ServerWrites \/ ServerExits \/ CloseBegins \/ Kill \/ CloseReturns
  BY <1>10 DEF ServerReads, ServerWrites, ServerExits, CloseBegins, Kill, CloseReturns,
               table, caller, BoxMoves
<1>11. CASE UNCHANGED vars
  BY <1>11 DEF vars, BoxMoves
<1>. QED BY StepCases, <1>1, <1>2, <1>3, <1>4, <1>5, <1>6, <1>7, <1>8, <1>9, <1>10, <1>11

LEMMA BoxInit == Init => BoxOK
BY EmptyFacts DEF Init, BoxOK

LEMMA BoxStep ==
  ASSUME TypeOK, IdsOK, LinesOK, BoxOK, [Next]_vars
  PROVE  BoxOK'
<1>. SUFFICES ASSUME NEW d \in Callers, id'[d] \in DOMAIN box'
              PROVE  box'[id'[d]] \in {NoCall, call'[d]}
  BY DEF BoxOK
<1>. /\ id \in [Callers -> Nat] /\ call \in [Callers -> Nat] /\ nextID \in Nat
     /\ DOMAIN box \subseteq 1..nextID /\ DOMAIN pending \subseteq 1..nextID
  BY DEF TypeOK
<1>1. CASE box' = box /\ UNCHANGED <<id, call>>
  BY <1>1 DEF BoxOK
<1>2. ASSUME NEW c \in Callers, Begin(c) PROVE box'[id'[d]] \in {NoCall, call'[d]}
  <2>1. id'[c] = nextID + 1 /\ box' = box
    BY <1>2 DEF Begin, NextId
  <2>2. d # c
    BY <2>1
  <2>. QED BY <1>2, <2>1, <2>2 DEF Begin, BoxOK
<1>3. ASSUME NEW c \in Callers, NEW n \in Nat, Return(c, n), UNCHANGED call
      PROVE  box'[id'[d]] \in {NoCall, call'[d]}
  <2>1. id' = [id EXCEPT ![c] = 0] /\ box' = Drop(box, {id[c]})
    BY <1>3 DEF Return
  <2>2. DOMAIN box' = DOMAIN box \ {id[c]} /\ \A m \in DOMAIN box' : box'[m] = box[m]
    BY <2>1 DEF Drop
  <2>3. d # c /\ id'[d] = id[d]
    BY <2>1, <2>2
  <2>. QED BY <1>3, <2>2, <2>3 DEF BoxOK
<1>4. CASE Deliver
  <2>1. UNCHANGED <<id, call>> /\ line.id # 0
    BY <1>4 DEF Deliver, caller, LinesOK
  <2>2. CASE box' = box
    BY <2>1, <2>2 DEF BoxOK
  <2>3. CASE box' = Put(box, line.id, line.call)
    <3>1. CASE id[d] = line.id
      <4>1. box'[id'[d]] = line.call
        BY <2>1, <2>3, <3>1 DEF Put
      <4>. QED BY <2>1, <3>1, <4>1 DEF LinesOK, Matches
    <3>2. CASE id[d] # line.id
      <4>1. id[d] \in DOMAIN box /\ box'[id'[d]] = box[id[d]]
        BY <2>1, <2>3, <3>2 DEF Put
      <4>. QED BY <2>1, <4>1 DEF BoxOK
    <3>. QED BY <3>1, <3>2
  <2>. QED BY <1>4, <2>2, <2>3 DEF Deliver
<1>5. CASE FailAll
  <2>1. UNCHANGED <<id, call>> /\ box' = AllFailed
    BY <1>5 DEF FailAll, caller
  <2>2. CASE id[d] \in DOMAIN pending
    BY <2>1, <2>2, AllFailedFacts
  <2>3. CASE id[d] \notin DOMAIN pending
    <3>1. id[d] \in DOMAIN box /\ box'[id'[d]] = box[id[d]]
      BY <2>1, <2>3, AllFailedFacts
    <3>. QED BY <2>1, <3>1 DEF BoxOK
  <2>. QED BY <2>2, <2>3
<1>. QED BY BoxCases, <1>1, <1>2, <1>3, <1>4, <1>5 DEF BoxMoves

LEMMA OwnStep ==
  ASSUME TypeOK, BoxOK, OwnAnswer, [Next]_vars
  PROVE  OwnAnswer'
<1>. SUFFICES ASSUME NEW d \in Callers, got'[d] # NoCall
              PROVE  got'[d] = call'[d]
  BY DEF OwnAnswer
<1>. /\ got \in [Callers -> Nat] /\ call \in [Callers -> Nat]
  BY DEF TypeOK
<1>. USE StarterCaller
<1>1. CASE UNCHANGED <<got, call>>
  BY <1>1 DEF OwnAnswer
<1>2. ASSUME NEW c \in Callers, Begin(c) PROVE got'[d] = call'[d]
  BY <1>2 DEF Begin, OwnAnswer
<1>3. ASSUME NEW c \in Callers, NEW n \in Nat, Return(c, n), UNCHANGED call,
             n \in {NoCall, call[c]}
      PROVE  got'[d] = call'[d]
  BY <1>3 DEF Return, OwnAnswer
<1>4. ASSUME NEW c \in Callers, WriteFails(c) \/ Timeout(c) PROVE got'[d] = call'[d]
  BY <1>1, <1>3, <1>4 DEF WriteFails, Timeout, NoCall
<1>5. ASSUME NEW c \in Callers, Receive(c) PROVE got'[d] = call'[d]
  <2>1. box[id[c]] \in Nat /\ box[id[c]] \in {NoCall, call[c]}
    BY <1>5 DEF Receive, TypeOK, BoxOK
  <2>. QED BY <1>3, <1>5, <2>1 DEF Receive
<1>6. CASE Initialized
  BY <1>6 DEF Initialized, OwnAnswer
<1>7. ASSUME NEW c \in Tools, Execute(c) PROVE got'[d] = call'[d]
  BY <1>2, <1>7 DEF Execute
<1>8. CASE Ask \/ NextPage
  BY <1>2, <1>8 DEF Ask, NextPage
<1>9. ASSUME NEW c \in Callers, Lock(c) \/ Write(c) PROVE UNCHANGED <<got, call>>
  BY <1>9 DEF Lock, Write, caller
<1>10. Register \/ StartFails \/ Scan \/ Take \/ Deliver \/ ReadEnds \/ ReaderFails \/ Reap
       \/ WatcherFails => UNCHANGED <<got, call>>
  BY DEF Register, StartFails, Scan, Take, Deliver, ReadEnds, ReaderFails, Reap, WatcherFails,
         FailAll, caller
<1>11. ServerReads \/ ServerWrites \/ ServerExits \/ CloseBegins \/ Kill \/ CloseReturns
       \/ UNCHANGED vars => UNCHANGED <<got, call>>
  BY DEF ServerReads, ServerWrites, ServerExits, CloseBegins, Kill, CloseReturns, caller, vars
<1>. QED BY StepCases, <1>1, <1>4, <1>5, <1>6, <1>7, <1>8, <1>9, <1>10, <1>11

-----------------------------------------------------------------------------
(* Nobody is forgotten.                                                     *)

LEMMA WaitInit == Init => WaitOK
BY DEF Init, WaitOK, Reaped

\* What is not in the table any more is in its channel or in the reader's hand.
KnownOK == \A c \in Callers : id[c] # 0 => id[c] \in DOMAIN pending \/ Answerable(c)

LEMMA KnownStep ==
  ASSUME TypeOK, IdsOK, KnownOK, [Next]_vars
  PROVE  KnownOK'
<1>. SUFFICES ASSUME NEW d \in Callers, id'[d] # 0
              PROVE  \/ id'[d] \in DOMAIN pending' \cup DOMAIN box'
                     \/ reader' = "deliver" /\ line'.id = id'[d]
  BY DEF KnownOK, Answerable
<1>. DEFINE Known == \/ id'[d] \in DOMAIN pending' \cup DOMAIN box'
                     \/ reader' = "deliver" /\ line'.id = id'[d]
<1>. id \in [Callers -> Nat]
  BY DEF TypeOK
<1>. USE StarterCaller
<1>1. CASE UNCHANGED <<table, id>> /\ (reader = "deliver" => UNCHANGED <<reader, line>>)
  BY <1>1 DEF table, KnownOK, Answerable
<1>2. ASSUME NEW c \in Callers, Begin(c), UNCHANGED loops PROVE Known
  <2>1. DOMAIN pending' = DOMAIN pending \cup {NextId} /\ id' = [id EXCEPT ![c] = NextId]
    BY <1>2 DEF Begin, Put
  <2>. QED BY <1>2, <2>1 DEF Begin, loops, KnownOK, Answerable
<1>3. ASSUME NEW c \in Callers, NEW n \in Nat, Return(c, n), UNCHANGED loops PROVE Known
  <2>1. /\ DOMAIN pending' = DOMAIN pending \ {id[c]} /\ DOMAIN box' = DOMAIN box \ {id[c]}
        /\ id' = [id EXCEPT ![c] = 0]
    BY <1>3 DEF Return, Forgotten, Drop
  <2>2. d # c /\ id'[d] = id[d] /\ id[d] # id[c]
    BY <2>1 DEF IdsOK
  <2>. QED BY <1>3, <2>1, <2>2 DEF loops, KnownOK, Answerable
<1>4. CASE FailAll /\ reader # "deliver"
  <2>1. DOMAIN box' = DOMAIN pending \cup DOMAIN box /\ UNCHANGED id
    BY <1>4, AllFailedFacts DEF FailAll, caller
  <2>. QED BY <1>4, <2>1 DEF KnownOK, Answerable
<1>5. CASE Take
  <2>1. DOMAIN pending' = DOMAIN pending \ {line.id} /\ UNCHANGED <<id, box>>
    BY <1>5 DEF Take, Drop, caller
  <2>. QED BY <1>5, <2>1 DEF Take, KnownOK, Answerable
<1>6. CASE Deliver
  <2>1. UNCHANGED <<id, pending>>
    BY <1>6 DEF Deliver, caller
  <2>2. CASE id[d] = line.id
    BY <1>6, <2>1, <2>2 DEF Deliver, Put
  <2>3. CASE id[d] # line.id
    <3>1. DOMAIN box \subseteq DOMAIN box'
      BY <1>6 DEF Deliver, Put
    <3>. QED BY <2>1, <2>3, <3>1 DEF KnownOK, Answerable
  <2>. QED BY <2>2, <2>3
<1>7. ASSUME NEW c \in Tools, Execute(c) PROVE Known
  BY <1>2, <1>7 DEF Execute
<1>8. CASE Ask \/ NextPage
  BY <1>2, <1>8 DEF Ask, NextPage
<1>9. ASSUME NEW c \in Callers, Lock(c) \/ Write(c) \/ (WriteFails(c) /\ pc[c] = "notify")
      PROVE  Known
  BY <1>1, <1>9 DEF Lock, Write, WriteFails, caller, loops
<1>10. ASSUME NEW c \in Callers, WriteFails(c), pc[c] # "notify" PROVE Known
  BY <1>3, <1>10 DEF WriteFails, NoCall
<1>11. ASSUME NEW c \in Callers, Timeout(c) PROVE Known
  BY <1>3, <1>11 DEF Timeout, NoCall
<1>12. ASSUME NEW c \in Callers, Receive(c) PROVE Known
  <2>1. box[id[c]] \in Nat
    BY <1>12 DEF Receive, TypeOK
  <2>. QED BY <1>3, <1>12, <2>1 DEF Receive
<1>13. CASE Initialized \/ Register \/ StartFails
  BY <1>1, <1>13 DEF Initialized, Register, StartFails, caller, loops
<1>14. CASE Scan \/ ReadEnds \/ Reap
  BY <1>1, <1>14 DEF Scan, ReadEnds, Reap, caller
<1>15. CASE ReaderFails
  BY <1>4, <1>15 DEF ReaderFails
<1>16. CASE WatcherFails
  <2>1. DOMAIN box' = DOMAIN pending \cup DOMAIN box /\ UNCHANGED <<id, reader, line>>
    BY <1>16, AllFailedFacts DEF WatcherFails, FailAll, caller
  <2>. QED BY <2>1 DEF KnownOK, Answerable
<1>17. CASE ServerReads \/ ServerWrites \/ ServerExits \/ CloseBegins \/ Kill \/ CloseReturns
  BY <1>1, <1>17 DEF ServerReads, ServerWrites, ServerExits, CloseBegins, Kill, CloseReturns,
                     caller, loops
<1>18. CASE UNCHANGED vars
  BY <1>1, <1>18 DEF vars, table
<1>. QED BY StepCases, <1>5, <1>6, <1>7, <1>8, <1>9, <1>10, <1>11, <1>12, <1>13, <1>14, <1>15,
            <1>16, <1>17, <1>18

\* A process that was reaped stays dead.
LEMMA ReapedStep ==
  ASSUME Reaped => ~alive, [Next]_vars
  PROVE  Reaped' => ~alive'
<1>. USE StarterCaller
<1>1. CASE UNCHANGED <<alive, watcher>>
  BY <1>1 DEF Reaped
<1>2. CASE Reap \/ WatcherFails \/ ServerExits \/ Kill
  BY <1>2 DEF Reap, WatcherFails, FailAll, ServerExits, Kill, server, Reaped
<1>3. ASSUME NEW c \in Callers,
             Execute(c) \/ Lock(c) \/ Write(c) \/ WriteFails(c) \/ Receive(c) \/ Timeout(c)
      PROVE  UNCHANGED <<alive, watcher>>
  BY <1>3 DEF Execute, Lock, Write, WriteFails, Receive, Timeout, server, loops
<1>4. Ask \/ Initialized \/ NextPage \/ Register \/ StartFails => UNCHANGED <<alive, watcher>>
  BY DEF Ask, Initialized, NextPage, Register, StartFails, server, loops
<1>5. Scan \/ Take \/ Deliver \/ ReadEnds \/ ReaderFails => UNCHANGED <<alive, watcher>>
  BY DEF Scan, Take, Deliver, ReadEnds, ReaderFails, FailAll, server
<1>6. ServerReads \/ ServerWrites \/ CloseBegins \/ CloseReturns \/ UNCHANGED vars
      => UNCHANGED <<alive, watcher>>
  BY DEF ServerReads, ServerWrites, CloseBegins, CloseReturns, server, loops, vars
<1>. QED BY StepCases, <1>1, <1>2, <1>3, <1>4, <1>5, <1>6

\* After the end only calls that have not written are in the table.
EndedOK ==
  watcher = "ended" => \A c \in Callers : pc[c] = "wait" => id[c] \notin DOMAIN pending

LEMMA EndedStep ==
  ASSUME TypeOK, IdsOK, Reaped => ~alive, EndedOK, [Next]_vars
  PROVE  EndedOK'
<1>. SUFFICES ASSUME watcher' = "ended", NEW d \in Callers, pc'[d] = "wait",
                     id'[d] \in DOMAIN pending'
              PROVE  FALSE
  BY DEF EndedOK
<1>. /\ id \in [Callers -> Nat] /\ pc \in [Callers -> {"idle", "write", "notify", "wait"}]
     /\ nextID \in Nat
  BY DEF TypeOK
<1>. USE StarterCaller
\* What leaves the watcher, the calls and the rest of the table alone.
<1>1. ASSUME UNCHANGED watcher, pc'[d] = pc[d], id'[d] = id[d],
             id[d] \in DOMAIN pending' => id[d] \in DOMAIN pending
      PROVE  FALSE
  BY <1>1 DEF EndedOK
<1>2. ASSUME NEW c \in Callers, Begin(c), UNCHANGED loops PROVE FALSE
  <2>1. /\ DOMAIN pending' = DOMAIN pending \cup {nextID + 1}
        /\ pc'[c] = "write"
        /\ c # d => pc'[d] = pc[d] /\ id'[d] = id[d]
    BY <1>2 DEF Begin, Put, NextId, Goto
  <2>2. id[d] # nextID + 1
    BY DEF IdsOK
  <2>. QED BY <1>1, <1>2, <2>1, <2>2 DEF loops
<1>3. ASSUME NEW c \in Callers, NEW n, Return(c, n), UNCHANGED loops PROVE FALSE
  <2>1. /\ DOMAIN pending' \subseteq DOMAIN pending
        /\ pc'[c] = "idle"
        /\ c # d => pc'[d] = pc[d] /\ id'[d] = id[d]
    BY <1>3 DEF Return, Forgotten, Drop, Goto
  <2>. QED BY <1>1, <1>3, <2>1 DEF loops
<1>4. CASE FailAll
  BY <1>4, EmptyFacts DEF FailAll
<1>5. ASSUME NEW c \in Callers, Write(c) PROVE FALSE
  <2>1. watcher = "wait" /\ UNCHANGED watcher
    BY <1>5 DEF Write, Reaped, loops
  <2>. QED BY <2>1
<1>6. CASE Take
  <2>1. DOMAIN pending' \subseteq DOMAIN pending
    BY <1>6 DEF Take, Drop
  <2>. QED BY <1>1, <1>6, <2>1 DEF Take, caller
<1>7. ASSUME NEW c \in Tools, Execute(c) PROVE FALSE
  BY <1>2, <1>7 DEF Execute
<1>8. CASE Ask \/ NextPage
  BY <1>2, <1>8 DEF Ask, NextPage
<1>9. ASSUME NEW c \in Callers, WriteFails(c) \/ Receive(c) \/ Timeout(c) PROVE FALSE
  <2>1. CASE WriteFails(c) /\ pc[c] = "notify"
    BY <1>1, <2>1 DEF WriteFails, Goto, table, loops
  <2>2. CASE ~(WriteFails(c) /\ pc[c] = "notify")
    BY <1>3, <1>9, <2>2 DEF WriteFails, Receive, Timeout
  <2>. QED BY <2>1, <2>2
<1>10. ASSUME NEW c \in Callers, Lock(c) PROVE FALSE
  BY <1>1, <1>10 DEF Lock, table, caller, loops
<1>11. CASE Initialized
  BY <1>1, <1>11 DEF Initialized, Goto, table, loops
<1>12. CASE Register \/ StartFails \/ Scan \/ Deliver \/ ReadEnds
  BY <1>1, <1>12 DEF Register, StartFails, Scan, Deliver, ReadEnds, table, caller, loops
<1>13. CASE Reap
  BY <1>13 DEF Reap
<1>14. CASE ReaderFails \/ WatcherFails
  BY <1>4, <1>14 DEF ReaderFails, WatcherFails
<1>15. CASE ServerReads \/ ServerWrites \/ ServerExits \/ CloseBegins \/ Kill \/ CloseReturns
  BY <1>1, <1>15 DEF ServerReads, ServerWrites, ServerExits, CloseBegins, Kill, CloseReturns,
                     table, caller, loops
<1>16. CASE UNCHANGED vars
  BY <1>1, <1>16 DEF vars
<1>. QED BY StepCases, <1>5, <1>6, <1>7, <1>8, <1>9, <1>10, <1>11, <1>12, <1>13, <1>14, <1>15,
            <1>16

-----------------------------------------------------------------------------
(* The invariant and what follows from it.                                  *)

LEMMA InvInit == Init => IInv
<1>1. Init => OwnAnswer
  BY DEF Init, OwnAnswer
<1>. QED BY TypeInit, IdsInit, LinesInit, BoxInit, WaitInit, <1>1 DEF IInv

LEMMA InvStep ==
  ASSUME IInv, [Next]_vars
  PROVE  IInv'
<1>1. TypeOK /\ IdsOK /\ LinesOK /\ BoxOK /\ WaitOK /\ OwnAnswer
  BY DEF IInv
<1>2. TypeOK'
  BY <1>1, TypeStep
<1>3. IdsOK' /\ BoxOK' /\ OwnAnswer'
  BY <1>1, IdsStep, BoxStep, OwnStep
<1>4. LinesOK'
  BY <1>1, <1>2, LinesStep
<1>5. WaitOK'
  <2>1. WaitOK <=> KnownOK /\ (Reaped => ~alive) /\ EndedOK
    BY DEF WaitOK, KnownOK, EndedOK
  <2>2. KnownOK' /\ (Reaped' => ~alive') /\ EndedOK'
    BY <1>1, <2>1, KnownStep, ReapedStep, EndedStep
  <2>. QED BY <2>2 DEF WaitOK, KnownOK, EndedOK
<1>. QED BY <1>2, <1>3, <1>4, <1>5 DEF IInv

\* An id belongs to one call and a line keeps it all the way; a call that has
\* left the table has its response at hand.
THEOREM Invariant == Spec => []IInv
<1>. QED BY InvInit, InvStep, PTL DEF Spec

\* The types hold in every behaviour: a caller that holds the mutex is about to
\* write, ids in the table were given out, and no registered tool has a name of
\* the bot's own (Client.call, client.go:224; startOne, manager.go:90).
THEOREM TypeCorrect == Spec => []TypeOK
<1>1. IInv => TypeOK
  BY DEF IInv
<1>. QED BY Invariant, <1>1, PTL

\* No call takes the answer to another for its own, whatever the server repeats,
\* reorders or sends late (readLoop, client.go:172; call, client.go:224).
THEOREM OwnAnswerCorrect == Spec => []OwnAnswer
<1>1. IInv => OwnAnswer
  BY DEF IInv
<1>. QED BY Invariant, <1>1, PTL

\* Once the end of the process was noticed, every call that waits has its
\* response, or the reader has it in hand (failAllPending, client.go:208).
THEOREM NobodyWaitsForTheDeadCorrect == Spec => []NobodyWaitsForTheDead
<1>1. IInv => NobodyWaitsForTheDead
  BY DEF IInv, WaitOK, IdsOK, NobodyWaitsForTheDead
<1>. QED BY Invariant, <1>1, PTL
-----------------------------------------------------------------------------
(* Mcp implements Rpc.                                                      *)

Asking == [c \in Callers |-> IF id[c] = 0 THEN NoCall ELSE call[c]]

\* What a step of the client is in Rpc.
RpcStep ==
  \/ \E c \in Callers : Abs!Ask(c) \/ Abs!End(c) \/ Abs!Use(c)
  \/ UNCHANGED <<calls, Asking, got>>

LEMMA RestRpc ==
  ASSUME UNCHANGED <<id, call, calls, got>>
  PROVE  RpcStep
BY DEF RpcStep, Asking

LEMMA BeginRpc ==
  ASSUME TypeOK, IdsOK, NEW c \in Callers, pc[c] = "idle", Begin(c)
  PROVE  RpcStep
<1>. id \in [Callers -> Nat] /\ call \in [Callers -> Nat] /\ nextID \in Nat
  BY DEF TypeOK
<1>1. id[c] = 0 /\ NextId # 0
  BY DEF IdsOK, NextId
<1>2. Asking' = [Asking EXCEPT ![c] = calls + 1]
  BY <1>1 DEF Asking, Begin
<1>3. Abs!Ask(c)
  BY <1>1, <1>2 DEF Abs!Ask, Abs!None, Asking, Begin, NoCall
<1>. QED BY <1>3 DEF RpcStep

LEMMA ReturnRpc ==
  ASSUME TypeOK, IdsOK, NEW c \in Callers, NEW n \in {NoCall, call[c]}, Return(c, n),
         id[c] # 0, UNCHANGED <<call, calls>>
  PROVE  RpcStep
<1>. id \in [Callers -> Nat] /\ call \in [Callers -> Nat]
  BY DEF TypeOK
<1>1. Asking' = [Asking EXCEPT ![c] = NoCall]
  BY DEF Asking, Return
<1>2. Asking[c] = call[c] /\ call[c] # NoCall
  BY DEF Asking, IdsOK
<1>3. Abs!End(c)
  BY <1>1, <1>2 DEF Abs!End, Abs!None, Asking, Return, NoCall
<1>. QED BY <1>3 DEF RpcStep

LEMMA StepRpc ==
  ASSUME IInv, [Next]_vars
  PROVE  RpcStep
<1>. TypeOK /\ IdsOK /\ BoxOK
  BY DEF IInv
<1>. USE StarterCaller
<1>1. ASSUME NEW c \in Tools, Execute(c) PROVE RpcStep
  BY <1>1, BeginRpc DEF Execute
<1>2. CASE Ask \/ NextPage
  BY <1>2, BeginRpc DEF Ask, NextPage
<1>3. ASSUME NEW c \in Callers, WriteFails(c) PROVE RpcStep
  <2>1. pc[c] \in {"write", "notify"}
    BY <1>3, McpAssumption DEF WriteFails, TypeOK
  <2>2. CASE pc[c] = "notify"
    BY <1>3, <2>2, RestRpc DEF WriteFails
  <2>3. CASE pc[c] = "write"
    BY <1>3, <2>3, ReturnRpc DEF WriteFails, IdsOK
  <2>. QED BY <2>1, <2>2, <2>3
<1>4. ASSUME NEW c \in Callers, Timeout(c) PROVE RpcStep
  BY <1>4, ReturnRpc DEF Timeout, IdsOK
<1>5. ASSUME NEW c \in Callers, Receive(c) PROVE RpcStep
  BY <1>5, ReturnRpc DEF Receive, IdsOK, BoxOK
<1>6. CASE Initialized
  <2>1. id[Starter] = 0
    BY <1>6 DEF Initialized, IdsOK
  <2>2. Abs!Use(Starter)
    BY <1>6, <2>1 DEF Initialized, table, Abs!Use, Abs!None, Asking, NoCall
  <2>. QED BY <2>2 DEF RpcStep
<1>7. ASSUME NEW c \in Callers, Lock(c) \/ Write(c) PROVE RpcStep
  BY <1>7, RestRpc DEF Lock, Write, caller
<1>8. CASE Register \/ StartFails \/ Scan \/ Take \/ Deliver \/ ReadEnds \/ Reap
  BY <1>8, RestRpc DEF Register, StartFails, Scan, Take, Deliver, ReadEnds, Reap, caller
<1>9. CASE ReaderFails \/ WatcherFails
  BY <1>9, RestRpc DEF ReaderFails, WatcherFails, FailAll, caller
<1>10. CASE ServerReads \/ ServerWrites \/ ServerExits \/ CloseBegins \/ Kill \/ CloseReturns
  BY <1>10, RestRpc DEF ServerReads, ServerWrites, ServerExits, CloseBegins, Kill, CloseReturns,
                        caller
<1>11. CASE UNCHANGED vars
  BY <1>11, RestRpc DEF vars
<1>. QED BY StepCases, <1>1, <1>2, <1>3, <1>4, <1>5, <1>6, <1>7, <1>8, <1>9, <1>10, <1>11

\* Seen from the callers the client is Rpc: each call ends once, with its own
\* response or an error, and without a call nothing arrives (Client.call,
\* client.go:224).
THEOREM Refinement == Spec => ImplementsRpc
<1>1. Init => Abs!Init
  BY DEF Init, Abs!Init, Abs!None, NoCall
<1>2. IInv /\ [Next]_vars => [Abs!Next]_(Abs!vars)
  BY StepRpc DEF RpcStep, Abs!Next, Abs!vars, Asking
<1>. QED BY Invariant, <1>1, <1>2, PTL DEF Spec, ImplementsRpc, Abs!Spec
=============================================================================
