------------------------- MODULE NativeBridge_proofs -------------------------
(***************************************************************************)
(* Theorems about NativeBridge, for any number of calls, connections and   *)
(* native hosts.                                                           *)
(***************************************************************************)
EXTENDS NativeBridge, TLAPS

\* The handlers that have a command.
Busy(c)    == handler[c].pc \in {"post", "wait", "reply"}
Waits(c)   == handler[c].pc \in {"post", "wait"}

\* The mutex serializes the calls, and who writes or reads has a connection.
OneCaller ==
  /\ \A a \in Calls : call[a].pc \in {"dial", "write", "read"} => lock = a
  /\ \A a \in Calls : call[a].pc \in {"write", "read"} => conn # 0
  /\ conn <= dialled
  /\ \A c \in Conns : handler[c].pc = "none" <=> c > dialled

\* A handler that has a command has its call, and its number while it waits.
Commands ==
  \A c \in Conns : /\ Busy(c) => handler[c].call \in Calls
                   /\ Waits(c) => handler[c].number \in Numbers
                   /\ handler[c].pc = "reply" => handler[c].result # NoReply

\* A connection carries one line at a time: a request, then what the handler
\* makes of it, then the reply.
OneLine ==
  \A c \in Conns :
    /\ wire[c].request # None => ~Busy(c) /\ wire[c].reply = None
    /\ Busy(c) => wire[c].reply = None

\* The driver's connection carries nothing unless a call reads.
QuietConn ==
  conn # 0 /\ (\A a \in Calls : call[a].pc # "read")
    => ~Busy(conn) /\ wire[conn].request = None /\ wire[conn].reply = None

\* Numbers are given once, and what bears one was given it before.
OwnNumbers ==
  /\ \A c, d \in Conns : Waits(c) /\ Waits(d) /\ handler[c].number = handler[d].number
       => c = d
  /\ \A c \in Conns : Waits(c) => handler[c].number <= number
  /\ \A r \in Numbers : answer[r] # NoReply => r <= number
  /\ \A r \in pending : r <= number
  /\ reader.pc = "send" => reader.number \in 1..number

\* What bears the number of a command that waits is for the call it came from.
OwnAnswers ==
  /\ \A o \in ops : o.host = 1 /\ o.number <= number
  /\ \A c \in Conns : Waits(c) =>
       /\ \A o \in ops : o.number = handler[c].number => o.call = handler[c].call
       /\ reader.pc = "send" /\ reader.number = handler[c].number
            => reader.result = handler[c].call
       /\ answer[handler[c].number] \in {NoReply, Error, handler[c].call}
  /\ \A c \in Conns : handler[c].pc = "reply" => handler[c].result \in {Error, handler[c].call}
  /\ \A c \in Conns : wire[c].reply # None
       => wire[c].reply.result \in {Error, wire[c].reply.id}

Lines == OneCaller /\ Commands /\ OneLine /\ QuietConn
IInv  == TypeOK /\ Lines /\ OwnNumbers /\ PendingAwaited
           /\ (host = 1 => OwnAnswers /\ OwnResponse)

-----------------------------------------------------------------------------

\* What replies are made of.
LEMMA ResultTypes ==
  /\ NoReply \in Results /\ Error \in Results /\ Calls \subseteq Results
  /\ NoReply # Error /\ NoReply \notin Calls /\ Error \notin Calls
BY CallsAssumption DEF Results, NoReply, Error

\* No call, no connection, and a host that has taken no command.
LEMMA InitInv == Init => IInv
<1> SUFFICES ASSUME Init PROVE IInv
  OBVIOUS
<1> USE CallsAssumption, BoundAssumption DEF Init, Numbers, Conns, Hosts
<1>1. TypeOK
  <2>1. DriverTypes /\ WireTypes
    BY DEF DriverTypes, WireTypes, CallStates, WireStates, Attempts, Results, Closed
  <2>2. HandlerTypes
    BY DEF HandlerTypes, HandlerStates, Unborn, Results
  <2>3. HostTypes
    <3>1. answer \in [Numbers -> Results] /\ pending \subseteq Numbers
      BY ResultTypes
    <3>2. reader \in [pc : {"read", "send", "close", "over"},
                      number : Numbers \cup {0}, result : Results]
      BY ResultTypes
    <3>3. host \in Hosts /\ number \in Numbers \cup {0} /\ ops = {}
      BY DEF Hosts
    <3> HIDE DEF Init, Numbers, Hosts
    <3>4. stream \in BOOLEAN /\ ended \in BOOLEAN
      BY DEF Init
    <3> QED BY <3>1, <3>2, <3>3, <3>4 DEF HostTypes
  <2> QED BY <2>1, <2>2, <2>3 DEF TypeOK
<1>2. Lines
  BY DEF Lines, OneCaller, Commands, OneLine, QuietConn, Busy, Waits, Closed, Unborn
<1>3. OwnNumbers /\ PendingAwaited
  BY DEF OwnNumbers, PendingAwaited, Waits, Unborn
<1>4. OwnAnswers /\ OwnResponse
  BY DEF OwnAnswers, OwnResponse, Waits, Unborn, Closed
<1> QED BY <1>1, <1>2, <1>3, <1>4 DEF IInv

\* A connection in use is one of those dialled.
LEMMA InUse ==
  ASSUME TypeOK, Lines, NEW a \in Calls, call[a].pc \in {"write", "read"}
  PROVE  conn \in Conns
BY BoundAssumption DEF TypeOK, DriverTypes, Lines, OneCaller, Conns

\* A call keeps the types of the driver.
LEMMA CallTypes ==
  ASSUME TypeOK, Lines, NEW a \in Calls, Driver(a) \/ AttemptFails(a) \/ Cancel(a)
  PROVE  DriverTypes'
<1> DEFINE Kept(state) == call' = [call EXCEPT ![a] = state] /\ state \in CallStates
<1>1. call \in [Calls -> CallStates] /\ call[a] \in CallStates /\ lock \in Calls \cup {None}
      /\ conn \in 0..MaxConns /\ closers \subseteq Conns
  BY DEF TypeOK, DriverTypes
<1>2. SUFFICES (\E state : Kept(state)) /\ lock' \in Calls \cup {None}
               /\ conn' \in 0..MaxConns /\ closers' \subseteq Conns
  BY <1>1 DEF DriverTypes
<1>3. ASSUME NEW result \in Results, Finish(a, result)
      PROVE  (\E state : Kept(state)) /\ lock' \in Calls \cup {None}
  <2>1. Kept([pc |-> "done", try |-> 0, result |-> result, cancelled |-> FALSE])
    BY <1>3 DEF Finish, CallStates, Attempts
  <2> QED BY <1>3, <2>1 DEF Finish
<1>4. ASSUME NEW pc \in {"write", "read"}, call' = [call EXCEPT ![a].pc = pc]
      PROVE  \E state : Kept(state)
  <2>1. [call[a] EXCEPT !.pc = pc] \in CallStates
    BY <1>1 DEF CallStates
  <2>2. call' = [call EXCEPT ![a] = [call[a] EXCEPT !.pc = pc]]
    BY <1>4
  <2> QED BY <2>1, <2>2
<1>5. CASE Lock(a)
  <2>1. PICK cancelled \in {FALSE, Cancels} :
          call' = [call EXCEPT ![a] = [pc |-> "dial", try |-> 1, result |-> NoReply,
                                       cancelled |-> cancelled]]
    BY <1>5 DEF Lock
  <2> cancelled \in BOOLEAN
    BY CancelsAssumption, Zenon
  <2>2. [pc |-> "dial", try |-> 1, result |-> NoReply, cancelled |-> cancelled] \in CallStates
    BY ResultTypes DEF CallStates, Attempts
  <2>3. \E state : Kept(state)
    BY <2>1, <2>2
  <2> QED BY <1>1, <1>5, <2>3 DEF Lock
<1>6. CASE Reuse(a)
  <2>1. conn \in Conns
    BY <1>1, <1>6, BoundAssumption DEF Reuse, Conns
  <2> QED BY <1>1, <1>4, <1>6, <2>1 DEF Reuse, Attach
<1>7. CASE Dial(a)
  <2>1. dialled + 1 \in Conns
    BY <1>7, BoundAssumption DEF Dial, TypeOK, WireTypes, Conns
  <2>2. conn' = dialled + 1 /\ conn' \in 0..MaxConns
    BY <1>7, <2>1, BoundAssumption DEF Dial, Conns
  <2> QED BY <1>1, <1>4, <1>7, <2>1, <2>2 DEF Dial, Attach
<1>8. CASE DialFails(a)
  BY <1>1, <1>3, <1>8, ResultTypes DEF DialFails
<1>9. CASE Write(a)
  BY <1>1, <1>4, <1>9 DEF Write
<1>10. CASE Read(a)
  <2>1. conn \in Conns
    BY <1>10, InUse DEF Read
  <2>2. wire[conn].reply \in Replied
    BY <1>10, <2>1 DEF Read, TypeOK, WireTypes, WireStates
  <2>3. wire[conn].reply.result \in Results
    BY <2>2 DEF Replied
  <2>4. \E result \in Results : Finish(a, result)
    BY <1>10, <2>3, ResultTypes DEF Read
  <2> QED BY <1>1, <1>3, <1>10, <2>4 DEF Read
<1>11. CASE AttemptFails(a)
  <2>1. conn' = 0 /\ closers' = closers
    BY <1>11 DEF AttemptFails, Retry
  <2>2. CASE call[a].try < Attempts
    <3>1. [call[a] EXCEPT !.pc = "dial", !.try = @ + 1] \in CallStates
      <4>1. call[a].try + 1 \in 0..Attempts
        BY <1>1, <2>2 DEF CallStates, Attempts
      <4> QED BY <1>1, <4>1 DEF CallStates
    <3>2. call' = [call EXCEPT ![a] = [call[a] EXCEPT !.pc = "dial", !.try = @ + 1]]
      BY <1>11, <2>2 DEF AttemptFails, Retry
    <3>3. lock' = lock
      BY <1>11, <2>2 DEF AttemptFails, Retry
    <3>4. \E state : Kept(state)
      BY <3>1, <3>2
    <3>5. conn' \in 0..MaxConns
      BY <2>1, BoundAssumption
    <3> HIDE DEF Kept
    <3> QED BY <1>1, <2>1, <3>3, <3>4, <3>5
  <2>3. CASE ~(call[a].try < Attempts)
    BY <1>1, <1>3, <1>11, <2>1, <2>3, ResultTypes, BoundAssumption DEF AttemptFails, Retry
  <2> QED BY <2>2, <2>3
<1>12. CASE Cancel(a)
  <2>1. [call[a] EXCEPT !.cancelled = TRUE] \in CallStates
    BY <1>1 DEF CallStates
  <2>2. call' = [call EXCEPT ![a] = [call[a] EXCEPT !.cancelled = TRUE]]
    BY <1>12 DEF Cancel
  <2>3. closers' \subseteq Conns
    BY <1>1, <1>12, InUse DEF Cancel
  <2> QED BY <1>1, <1>12, <2>1, <2>2, <2>3 DEF Cancel
<1> QED BY <1>5, <1>6, <1>7, <1>8, <1>9, <1>10, <1>11, <1>12 DEF Driver

\* Every action keeps the types of the sockets.
LEMMA SocketTypes == TypeOK /\ Lines /\ [Next]_vars => WireTypes'
<1> SUFFICES ASSUME TypeOK, Lines, [Next]_vars PROVE WireTypes'
  OBVIOUS
<1>1. /\ dialled \in 0..MaxConns /\ wire \in [Conns -> WireStates]
      /\ \A c \in Conns : wire[c] \in WireStates
  BY DEF TypeOK, WireTypes
<1>2. ASSUME UNCHANGED sockets PROVE WireTypes'
  BY <1>1, <1>2 DEF WireTypes, sockets
<1>3. ASSUME NEW c \in Conns, NEW ends \in WireStates, dialled' = dialled,
             wire' = [wire EXCEPT ![c] = ends]
      PROVE  WireTypes'
  BY <1>1, <1>3 DEF WireTypes
<1>4. ASSUME NEW c \in Conns, dialled' = dialled, Hangup(c)
      PROVE  WireTypes'
  <2>1. [wire[c] EXCEPT !.client = FALSE, !.reply = None] \in WireStates
    BY <1>1 DEF WireStates
  <2>2. wire' = [wire EXCEPT ![c] = [wire[c] EXCEPT !.client = FALSE, !.reply = None]]
    BY <1>4 DEF Hangup
  <2> QED BY <1>3, <1>4, <2>1, <2>2
<1>5. ASSUME NEW c \in Conns, dialled' = dialled, Over(c)
      PROVE  WireTypes'
  <2>1. [wire[c] EXCEPT !.server = FALSE, !.request = None] \in WireStates
    BY <1>1 DEF WireStates
  <2>2. wire' = [wire EXCEPT ![c] = [wire[c] EXCEPT !.server = FALSE, !.request = None]]
    BY <1>5 DEF Over
  <2> QED BY <1>3, <1>5, <2>1, <2>2
<1>6. ASSUME NEW c \in Conns, dialled' = dialled, NEW line \in Calls \cup {None},
             wire' = [wire EXCEPT ![c].request = line]
      PROVE  WireTypes'
  <2>1. [wire[c] EXCEPT !.request = line] \in WireStates
    BY <1>1 DEF WireStates
  <2>2. wire' = [wire EXCEPT ![c] = [wire[c] EXCEPT !.request = line]]
    BY <1>6
  <2> QED BY <1>3, <1>6, <2>1, <2>2
<1>7. ASSUME NEW c \in Conns, dialled' = dialled, NEW line \in Replied \cup {None},
             wire' = [wire EXCEPT ![c].reply = line]
      PROVE  WireTypes'
  <2>1. [wire[c] EXCEPT !.reply = line] \in WireStates
    BY <1>1 DEF WireStates
  <2>2. wire' = [wire EXCEPT ![c] = [wire[c] EXCEPT !.reply = line]]
    BY <1>7
  <2> QED BY <1>3, <1>7, <2>1, <2>2
<1>8. ASSUME NEW a \in Calls, Driver(a) \/ AttemptFails(a) \/ Cancel(a) PROVE WireTypes'
  <2>1. CASE Lock(a) \/ DialFails(a) \/ Cancel(a) \/ Reuse(a)
    BY <1>2, <2>1 DEF Lock, DialFails, Cancel, Reuse
  <2>2. CASE Dial(a)
    <3>1. dialled + 1 \in Conns /\ dialled + 1 \in 0..MaxConns
      BY <1>1, <2>2, BoundAssumption DEF Dial, Conns
    <3>2. [client |-> TRUE, server |-> TRUE, request |-> None, reply |-> None] \in WireStates
      BY DEF WireStates
    <3> QED BY <1>1, <2>2, <3>1, <3>2 DEF Dial, WireTypes
  <2>3. CASE Write(a)
    BY <1>6, <2>3, InUse DEF Write
  <2>4. CASE AttemptFails(a)
    BY <1>4, <2>4, InUse DEF AttemptFails, Retry
  <2>5. CASE Read(a)
    BY <1>7, <2>5, InUse DEF Read
  <2> QED BY <1>8, <2>1, <2>2, <2>3, <2>4, <2>5 DEF Driver
<1>9. ASSUME NEW c \in Conns, Handler(c) \/ GiveUp(c) \/ Closes(c) PROVE WireTypes'
  <2>1. CASE Register(c)
    BY <1>6, <2>1 DEF Register
  <2>2. CASE ReadFails(c)
    BY <1>5, <2>2 DEF ReadFails
  <2>3. CASE Closes(c)
    BY <1>4, <2>3 DEF Closes
  <2>4. CASE Reply(c)
    <3>1. [id |-> handler[c].call, result |-> handler[c].result] \in Replied
      BY <2>4 DEF Reply, TypeOK, HandlerTypes, HandlerStates, Lines, Commands, Busy, Replied
    <3>2. CASE wire' = [wire EXCEPT ![c].reply = [id |-> handler[c].call,
                                                  result |-> handler[c].result]]
      BY <1>7, <2>4, <3>1, <3>2 DEF Reply
    <3> QED BY <1>5, <2>4, <3>2 DEF Reply
  <2>5. CASE Post(c) \/ PostFails(c) \/ TakeAnswer(c) \/ GiveUp(c)
    BY <1>2, <2>5 DEF Post, PostFails, TakeAnswer, GiveUp
  <2> QED BY <1>9, <2>1, <2>2, <2>3, <2>4, <2>5 DEF Handler
<1>10. CASE HostRestarts
  <2>1. \A c \in Conns : [wire[c] EXCEPT !.server = FALSE, !.request = None] \in WireStates
    BY <1>1 DEF WireStates
  <2> QED BY <1>1, <1>10, <2>1 DEF HostRestarts, WireTypes
<1>11. CASE (\E o \in ops : Deliver(o)) \/ Reader \/ StreamCloses \/ HostSignal \/ UNCHANGED vars
  BY <1>2, <1>11 DEF Deliver, Reader, SendAnswer, failAllPending, ReaderCloses, StreamCloses,
                     HostSignal, vars
<1> QED BY <1>8, <1>9, <1>10, <1>11 DEF Next

\* Every action keeps the types of the handlers.
LEMMA ServedTypes == TypeOK /\ Lines /\ [Next]_vars => HandlerTypes'
<1> SUFFICES ASSUME TypeOK, Lines, [Next]_vars PROVE HandlerTypes'
  OBVIOUS
<1>1. handler \in [Conns -> HandlerStates] /\ \A c \in Conns : handler[c] \in HandlerStates
  BY DEF TypeOK, HandlerTypes
<1>2. ASSUME UNCHANGED handler PROVE HandlerTypes'
  BY <1>1, <1>2 DEF HandlerTypes
<1>3. ASSUME NEW c \in Conns, NEW state \in HandlerStates, handler' = [handler EXCEPT ![c] = state]
      PROVE  HandlerTypes'
  BY <1>1, <1>3 DEF HandlerTypes
<1>4. Reading \in HandlerStates /\ Gone \in HandlerStates /\ Unborn \in HandlerStates
  BY ResultTypes DEF Reading, Gone, Unborn, HandlerStates
<1>5. ASSUME NEW c \in Conns, NEW result \in Results, Replies(c, result)
      PROVE  HandlerTypes'
  <2>1. [pc |-> "reply", number |-> 0, call |-> handler[c].call, result |-> result]
          \in HandlerStates
    BY <1>1 DEF HandlerStates
  <2> QED BY <1>3, <1>5, <2>1 DEF Replies
<1>6. ASSUME NEW c \in Conns, handler' = [handler EXCEPT ![c].pc = "wait"]
      PROVE  HandlerTypes'
  <2>1. [handler[c] EXCEPT !.pc = "wait"] \in HandlerStates
    BY <1>1 DEF HandlerStates
  <2>2. handler' = [handler EXCEPT ![c] = [handler[c] EXCEPT !.pc = "wait"]]
    BY <1>6
  <2> QED BY <1>3, <2>1, <2>2
<1>7. ASSUME NEW a \in Calls, Driver(a) \/ AttemptFails(a) \/ Cancel(a) PROVE HandlerTypes'
  <2>1. CASE Dial(a)
    <3>1. dialled + 1 \in Conns
      BY <2>1, BoundAssumption DEF Dial, TypeOK, WireTypes, Conns
    <3> QED BY <1>3, <1>4, <2>1, <3>1 DEF Dial
  <2> QED BY <1>2, <1>7, <2>1
          DEF Driver, Lock, DialFails, Cancel, Reuse, Write, AttemptFails, Read
<1>8. ASSUME NEW c \in Conns, Handler(c) \/ GiveUp(c) \/ Closes(c) PROVE HandlerTypes'
  <2>1. CASE Register(c)
    <3>1. NextNumber \in Numbers
      BY <2>1, BoundAssumption DEF Register, NextNumber, TypeOK, HostTypes, Numbers
    <3>2. wire[c].request \in Calls \cup {None}
      BY DEF TypeOK, WireTypes, WireStates
    <3>3. [pc |-> "post", number |-> NextNumber, call |-> wire[c].request, result |-> NoReply]
            \in HandlerStates
      BY <3>1, <3>2, ResultTypes DEF HandlerStates
    <3> QED BY <1>3, <2>1, <3>3 DEF Register
  <2>2. CASE ReadFails(c) \/ Reply(c)
    BY <1>3, <1>4, <2>2 DEF ReadFails, Reply, Over
  <2>3. CASE Closes(c)
    BY <1>2, <2>3 DEF Closes
  <2>4. CASE Post(c)
    BY <1>6, <2>4 DEF Post
  <2>5. CASE PostFails(c) \/ GiveUp(c)
    BY <1>5, <1>6, <2>5, ResultTypes DEF PostFails, GiveUp
  <2>6. CASE TakeAnswer(c)
    <3>1. answer[handler[c].number] \in Results
      BY <2>6 DEF TakeAnswer, TypeOK, HostTypes, Lines, Commands, Waits
    <3> QED BY <1>5, <2>6, <3>1 DEF TakeAnswer
  <2> QED BY <1>8, <2>1, <2>2, <2>3, <2>4, <2>5, <2>6 DEF Handler
<1>9. CASE HostRestarts
  BY <1>4, <1>9 DEF HostRestarts, HandlerTypes
<1>10. CASE (\E o \in ops : Deliver(o)) \/ Reader \/ StreamCloses \/ HostSignal \/ UNCHANGED vars
  BY <1>2, <1>10 DEF Deliver, Reader, SendAnswer, failAllPending, ReaderCloses, StreamCloses,
                     HostSignal, vars
<1> QED BY <1>7, <1>8, <1>9, <1>10 DEF Next

\* Every action keeps the types of the native host.
LEMMA HostSideTypes == TypeOK /\ Lines /\ [Next]_vars => HostTypes'
<1> SUFFICES ASSUME TypeOK, Lines, [Next]_vars PROVE HostTypes'
  OBVIOUS
<1> DEFINE Readers == [pc : {"read", "send", "close", "over"},
                       number : Numbers \cup {0}, result : Results]
           Ops     == [host : Hosts, number : Numbers, call : Calls]
<1>1. /\ host \in Hosts /\ number \in Numbers \cup {0}
      /\ pending \subseteq Numbers /\ answer \in [Numbers -> Results]
      /\ reader \in Readers /\ stream \in BOOLEAN /\ ended \in BOOLEAN /\ ops \subseteq Ops
  BY DEF TypeOK, HostTypes
<1>2. ASSUME host' \in Hosts, number' \in Numbers \cup {0},
             pending' \subseteq Numbers, answer' \in [Numbers -> Results],
             reader' \in Readers, stream' \in BOOLEAN, ended' \in BOOLEAN, ops' \subseteq Ops
      PROVE  HostTypes'
  BY <1>2 DEF HostTypes
<1> HIDE DEF Readers, Ops
<1>3. CASE UNCHANGED <<bridge, ops>>
  BY <1>1, <1>2, <1>3 DEF bridge
<1>4. ASSUME NEW c \in Conns, Handler(c) \/ GiveUp(c) \/ Closes(c) PROVE HostTypes'
  <2>1. CASE Register(c)
    <3>1. NextNumber \in Numbers
      BY <1>1, <2>1, BoundAssumption DEF Register, NextNumber, Numbers
    <3> QED BY <1>1, <1>2, <2>1, <3>1 DEF Register
  <2>2. CASE ReadFails(c) \/ Reply(c) \/ Closes(c)
    BY <1>3, <1>2, <2>2 DEF ReadFails, Reply, Closes, bridge
  <2>3. CASE Post(c)
    <3>1. [host |-> host, number |-> handler[c].number, call |-> handler[c].call] \in Ops
      BY <1>1, <2>3 DEF Post, Lines, Commands, Busy, Waits, Ops
    <3> QED BY <1>1, <1>2, <2>3, <3>1 DEF Post, bridge
  <2>4. CASE PostFails(c) \/ GiveUp(c)
    BY <1>1, <1>2, <2>4 DEF PostFails, GiveUp
  <2>5. CASE TakeAnswer(c)
    <3>1. answer' \in [Numbers -> Results]
      BY <1>1, <2>5, ResultTypes DEF TakeAnswer
    <3> QED BY <1>1, <1>2, <2>5, <3>1 DEF TakeAnswer
  <2> QED BY <1>4, <2>1, <2>2, <2>3, <2>4, <2>5 DEF Handler
<1>5. ASSUME NEW a \in Calls, Driver(a) \/ AttemptFails(a) \/ Cancel(a) PROVE HostTypes'
  BY <1>2, <1>3, <1>5 DEF Driver, Lock, DialFails, Cancel, Reuse, Dial, Write, AttemptFails, Read
<1>6. ASSUME NEW o \in ops, Deliver(o) PROVE HostTypes'
  <2>1. o.number \in Numbers /\ o.call \in Results
    BY <1>1, ResultTypes DEF Ops
  <2>2. [pc |-> "send", number |-> o.number, result |-> o.call] \in Readers
    BY <2>1 DEF Readers
  <2>3. reader' \in Readers /\ pending' \subseteq Numbers
    BY <1>1, <1>6, <2>2 DEF Deliver, LookUp
  <2> QED BY <1>1, <1>2, <1>6, <2>3 DEF Deliver
<1>7. [pc |-> "read", number |-> 0, result |-> NoReply] \in Readers
  BY ResultTypes DEF Readers
<1>8. CASE SendAnswer
  <2>1. reader.result \in Results
    BY <1>1 DEF Readers
  <2>2. answer' \in [Numbers -> Results]
    BY <1>1, <1>8, <2>1 DEF SendAnswer
  <2> QED BY <1>1, <1>2, <1>7, <1>8, <2>2 DEF SendAnswer
<1>9. CASE failAllPending
  <2>1. [reader EXCEPT !.pc = "close"] \in Readers
    BY <1>1 DEF Readers
  <2>2. answer' \in [Numbers -> Results]
    BY <1>1, <1>9, ResultTypes DEF failAllPending
  <2> QED BY <1>1, <1>2, <1>9, <2>1, <2>2 DEF failAllPending
<1>10. CASE ReaderCloses
  <2>1. [reader EXCEPT !.pc = "over"] \in Readers
    BY <1>1 DEF Readers
  <2> QED BY <1>1, <1>2, <1>10, <2>1 DEF ReaderCloses
<1>11. CASE StreamCloses \/ HostSignal
  BY <1>1, <1>2, <1>11 DEF StreamCloses, HostSignal
<1>12. CASE HostRestarts
  <2>1. host + 1 \in Hosts
    <3>1. host < MaxHosts
      BY <1>12 DEF HostRestarts
    <3> QED BY <1>1, <3>1, BoundAssumption DEF Hosts
  <2> QED BY <1>1, <1>2, <1>7, <1>12, <2>1, ResultTypes DEF HostRestarts
<1>13. CASE UNCHANGED vars
  BY <1>2, <1>3, <1>13 DEF vars
<1> QED BY <1>2, <1>4, <1>5, <1>6, <1>8, <1>9, <1>10, <1>11, <1>12, <1>13 DEF Next, Reader

\* Every action keeps the types.
LEMMA TypesKept == TypeOK /\ Lines /\ [Next]_vars => TypeOK'
<1> SUFFICES ASSUME TypeOK, Lines, [Next]_vars PROVE TypeOK'
  OBVIOUS
<1>1. DriverTypes'
  <2>1. ASSUME NEW a \in Calls, Driver(a) \/ AttemptFails(a) \/ Cancel(a) PROVE DriverTypes'
    BY <2>1, CallTypes
  <2>2. ASSUME NEW c \in Conns, Closes(c) PROVE DriverTypes'
    BY <2>2 DEF Closes, TypeOK, DriverTypes
  <2>3. CASE UNCHANGED driver
    BY <2>3 DEF driver, TypeOK, DriverTypes
  <2> QED BY <2>1, <2>2, <2>3
          DEF Next, Handler, Register, ReadFails, Post, PostFails, TakeAnswer, GiveUp, Reply,
              Deliver, Reader, SendAnswer, failAllPending, ReaderCloses, StreamCloses, HostSignal,
              HostRestarts, vars
<1> QED BY <1>1, SocketTypes, ServedTypes, HostSideTypes DEF TypeOK

-----------------------------------------------------------------------------

\* One call at a time, on the connection it made or found.
LEMMA OneCallerKept == TypeOK /\ Lines /\ [Next]_vars => OneCaller'
<1> SUFFICES ASSUME TypeOK, Lines, [Next]_vars PROVE OneCaller'
  OBVIOUS
<1> DEFINE At(a) == call[a].pc \in {"dial", "write", "read"}
           On(a) == call[a].pc \in {"write", "read"}
<1>1. /\ call \in [Calls -> CallStates] /\ lock \in Calls \cup {None}
      /\ conn \in 0..MaxConns /\ dialled \in 0..MaxConns
      /\ handler \in [Conns -> HandlerStates]
  BY DEF TypeOK, DriverTypes, WireTypes, HandlerTypes
<1>2. /\ \A a \in Calls : At(a) => lock = a
      /\ \A a \in Calls : On(a) => conn # 0
      /\ conn <= dialled
      /\ \A c \in Conns : handler[c].pc = "none" <=> c > dialled
  BY DEF Lines, OneCaller
<1>3. ASSUME \A a \in Calls : At(a)' => lock' = a,
             \A a \in Calls : On(a)' => conn' # 0,
             conn' <= dialled',
             \A c \in Conns : handler'[c].pc = "none" <=> c > dialled'
      PROVE  OneCaller'
  BY <1>3 DEF OneCaller
<1>4. ASSUME UNCHANGED <<call, lock, conn, dialled>>,
             \A c \in Conns : handler'[c].pc = "none" <=> handler[c].pc = "none"
      PROVE  OneCaller'
  BY <1>2, <1>3, <1>4
<1>5. ASSUME NEW a \in Calls, At(a) \/ lock = None,
             UNCHANGED <<dialled, handler>>, conn' \in {0, conn},
             \/ lock' = a /\ (\A b \in Calls \ {a} : call'[b] = call[b])
                  /\ (On(a)' => conn' # 0)
             \/ lock' = None /\ \A b \in Calls : call'[b].pc = IF b = a THEN "done" ELSE call[b].pc
      PROVE  OneCaller'
  <2>1. \A b \in Calls \ {a} : ~At(b)
    BY <1>2, <1>5, CallsAssumption
  <2>2. \A b \in Calls \ {a} : ~At(b)'
    BY <1>5, <2>1
  <2>3. conn' <= dialled'
    BY <1>1, <1>2, <1>5, BoundAssumption
  <2>4. ~At(a)' \/ lock' = a
    BY <1>5
  <2>5. ~On(a)' \/ conn' # 0
    BY <1>5
  <2> QED BY <1>2, <1>3, <1>5, <2>2, <2>3, <2>4, <2>5
<1>6. ASSUME NEW a \in Calls, Driver(a) \/ AttemptFails(a) \/ Cancel(a) PROVE OneCaller'
  <2>1. CASE Lock(a)
    BY <1>1, <1>5, <2>1 DEF Lock, sockets
  <2>2. CASE Reuse(a)
    BY <1>1, <1>2, <1>5, <2>2 DEF Reuse, sockets
  <2>3. CASE Dial(a)
    <3>1. /\ UNCHANGED lock /\ At(a) /\ dialled < MaxConns
          /\ dialled' = dialled + 1 /\ conn' = dialled + 1
          /\ handler' = [handler EXCEPT ![dialled + 1] = Reading]
      BY <2>3 DEF Dial
    <3>2. lock' = a /\ \A b \in Calls \ {a} : call'[b] = call[b] /\ ~At(b)
      BY <1>1, <1>2, <2>3, <3>1 DEF Dial
    <3>3. \A c \in Conns : handler'[c].pc = "none" <=> c > dialled'
      BY <1>1, <1>2, <3>1, BoundAssumption DEF Reading, Unborn, Conns
    <3>4. conn' # 0 /\ conn' <= dialled'
      BY <1>1, <3>1, BoundAssumption
    <3> QED BY <1>3, <3>2, <3>3, <3>4
  <2>4. CASE DialFails(a)
    BY <1>1, <1>5, <2>4 DEF DialFails, Finish, sockets
  <2>5. CASE Write(a)
    BY <1>1, <1>2, <1>5, <2>5 DEF Write
  <2>6. CASE Read(a)
    BY <1>1, <1>5, <2>6 DEF Read, Finish
  <2>7. CASE AttemptFails(a)
    <3>1. CASE call[a].try < Attempts
      <4>1. call' = [call EXCEPT ![a] = [call[a] EXCEPT !.pc = "dial", !.try = @ + 1]]
        BY <2>7, <3>1 DEF AttemptFails, Retry
      <4>2. call'[a].pc = "dial" /\ \A b \in Calls \ {a} : call'[b] = call[b]
        BY <1>1, <4>1 DEF CallStates
      <4>3. UNCHANGED <<lock, dialled, handler>> /\ conn' = 0 /\ At(a)
        BY <2>7, <3>1 DEF AttemptFails, Retry
      <4> QED BY <1>2, <1>5, <4>2, <4>3
    <3>2. CASE ~(call[a].try < Attempts)
      BY <1>1, <1>5, <2>7, <3>2 DEF AttemptFails, Retry, Finish
    <3> QED BY <3>1, <3>2
  <2>8. CASE Cancel(a)
    BY <1>1, <1>2, <1>5, <2>8 DEF Cancel, sockets
  <2> QED BY <1>6, <2>1, <2>2, <2>3, <2>4, <2>5, <2>6, <2>7, <2>8 DEF Driver
<1>7. ASSUME NEW c \in Conns, Handler(c) \/ GiveUp(c) \/ Closes(c) PROVE OneCaller'
  <2>1. \A d \in Conns : handler'[d].pc = "none" <=> handler[d].pc = "none"
    <3>1. ASSUME NEW state, handler' = [handler EXCEPT ![c] = state],
                 handler[c].pc # "none", state.pc # "none"
          PROVE  \A d \in Conns : handler'[d].pc = "none" <=> handler[d].pc = "none"
      BY <1>1, <3>1
    <3>2. CASE Register(c)
      BY <3>1, <3>2 DEF Register
    <3>3. CASE ReadFails(c) \/ Reply(c)
      BY <3>1, <3>3 DEF ReadFails, Reply, Over, Gone, Reading, Unborn
    <3>4. CASE Post(c)
      BY <1>1, <3>4 DEF Post
    <3>5. CASE PostFails(c) \/ TakeAnswer(c) \/ GiveUp(c)
      <4>1. ASSUME NEW result, Replies(c, result), handler[c].pc # "none"
            PROVE  \A d \in Conns : handler'[d].pc = "none" <=> handler[d].pc = "none"
        BY <3>1, <4>1 DEF Replies
      <4>2. CASE handler' = [handler EXCEPT ![c].pc = "wait"]
        BY <1>1, <3>5, <4>2 DEF PostFails, TakeAnswer, GiveUp
      <4> QED BY <3>5, <4>1, <4>2 DEF PostFails, TakeAnswer, GiveUp
    <3>6. CASE Closes(c)
      BY <3>6 DEF Closes
    <3> QED BY <1>7, <3>2, <3>3, <3>4, <3>5, <3>6 DEF Handler
  <2>2. UNCHANGED <<call, lock, conn, dialled>>
    BY <1>7 DEF Handler, Register, ReadFails, Post, PostFails, TakeAnswer, GiveUp, Reply, Closes,
                driver, sockets
  <2> QED BY <1>4, <2>1, <2>2
<1>8. CASE HostRestarts
  <2>1. \A d \in Conns : handler'[d].pc = "none" <=> handler[d].pc = "none"
    BY <1>8 DEF HostRestarts, Gone, Unborn
  <2> QED BY <1>4, <1>8, <2>1 DEF HostRestarts, driver
<1>9. CASE (\E o \in ops : Deliver(o)) \/ Reader \/ StreamCloses \/ HostSignal \/ UNCHANGED vars
  BY <1>4, <1>9 DEF Deliver, Reader, SendAnswer, failAllPending, ReaderCloses, StreamCloses,
                    HostSignal, vars, driver, sockets
<1> QED BY <1>6, <1>7, <1>8, <1>9 DEF Next

\* A handler is given a command by Register alone, and keeps it to the reply.
LEMMA CommandsKept == TypeOK /\ Lines /\ [Next]_vars => Commands'
<1> SUFFICES ASSUME TypeOK, Lines, [Next]_vars PROVE Commands'
  OBVIOUS
<1> DEFINE Good(state) == /\ state.pc \in {"post", "wait", "reply"} => state.call \in Calls
                          /\ state.pc \in {"post", "wait"} => state.number \in Numbers
                          /\ state.pc = "reply" => state.result # NoReply
<1>1. handler \in [Conns -> HandlerStates] /\ \A c \in Conns : Good(handler[c])
  BY DEF TypeOK, HandlerTypes, Lines, Commands, Busy, Waits
<1>2. ASSUME \A c \in Conns : Good(handler'[c]) PROVE Commands'
  BY <1>2 DEF Commands, Busy, Waits
<1>3. ASSUME NEW c \in Conns, NEW state, Good(state), handler' = [handler EXCEPT ![c] = state]
      PROVE  Commands'
  BY <1>1, <1>2, <1>3
<1>4. Good(Reading) /\ Good(Gone) /\ Good(Unborn)
  BY DEF Reading, Gone, Unborn
<1>5. ASSUME NEW c \in Conns, handler[c].pc \in {"post", "wait"}, NEW result, result # NoReply,
             Replies(c, result)
      PROVE  Commands'
  BY <1>1, <1>3, <1>5 DEF Replies
<1>6. ASSUME NEW c \in Conns, handler[c].pc = "post", handler' = [handler EXCEPT ![c].pc = "wait"]
      PROVE  Commands'
  <2>1. Good([handler[c] EXCEPT !.pc = "wait"])
    BY <1>1, <1>6 DEF HandlerStates
  <2>2. handler' = [handler EXCEPT ![c] = [handler[c] EXCEPT !.pc = "wait"]]
    BY <1>6
  <2> QED BY <1>3, <2>1, <2>2
<1>7. CASE UNCHANGED handler
  BY <1>1, <1>2, <1>7
<1> HIDE DEF Good
<1>8. ASSUME NEW a \in Calls, Driver(a) \/ AttemptFails(a) \/ Cancel(a) PROVE Commands'
  <2>1. CASE Dial(a)
    <3>1. dialled + 1 \in Conns
      BY <2>1, BoundAssumption DEF Dial, TypeOK, WireTypes, Conns
    <3> QED BY <1>3, <1>4, <2>1, <3>1 DEF Dial
  <2> QED BY <1>7, <1>8, <2>1
          DEF Driver, Lock, DialFails, Cancel, Reuse, Write, AttemptFails, Read
<1>9. ASSUME NEW c \in Conns, Handler(c) \/ GiveUp(c) \/ Closes(c) PROVE Commands'
  <2>1. CASE Register(c)
    <3>1. NextNumber \in Numbers
      BY <2>1, BoundAssumption DEF Register, NextNumber, TypeOK, HostTypes, Numbers
    <3>2. wire[c].request \in Calls
      BY <2>1 DEF Register, TypeOK, WireTypes, WireStates
    <3>3. Good([pc |-> "post", number |-> NextNumber, call |-> wire[c].request,
                result |-> NoReply])
      BY <3>1, <3>2 DEF Good
    <3> QED BY <1>3, <2>1, <3>3 DEF Register
  <2>2. CASE ReadFails(c) \/ Reply(c)
    BY <1>3, <1>4, <2>2 DEF ReadFails, Reply, Over
  <2>3. CASE Closes(c)
    BY <1>7, <2>3 DEF Closes
  <2>4. CASE Post(c)
    BY <1>6, <2>4 DEF Post
  <2>5. CASE PostFails(c) \/ GiveUp(c)
    BY <1>5, <1>6, <2>5, ResultTypes DEF PostFails, GiveUp
  <2>6. CASE TakeAnswer(c)
    BY <1>5, <2>6 DEF TakeAnswer
  <2> QED BY <1>9, <2>1, <2>2, <2>3, <2>4, <2>5, <2>6 DEF Handler
<1>10. CASE HostRestarts
  BY <1>2, <1>4, <1>10 DEF HostRestarts
<1>11. CASE (\E o \in ops : Deliver(o)) \/ Reader \/ StreamCloses \/ HostSignal \/ UNCHANGED vars
  BY <1>7, <1>11 DEF Deliver, Reader, SendAnswer, failAllPending, ReaderCloses, StreamCloses,
                     HostSignal, vars
<1> QED BY <1>8, <1>9, <1>10, <1>11 DEF Next

\* A call finds the connection as quiet as it was dialled: the attempt before
\* either read its reply or closed the connection.
LEMMA OneLineKept == TypeOK /\ Lines /\ [Next]_vars => OneLine' /\ QuietConn'
<1> SUFFICES ASSUME TypeOK, Lines, [Next]_vars PROVE OneLine' /\ QuietConn'
  OBVIOUS
<1> DEFINE Idle(c) == ~Busy(c) /\ wire[c].request = None /\ wire[c].reply = None
           Tidy(c) == /\ wire[c].request # None => ~Busy(c) /\ wire[c].reply = None
                      /\ Busy(c) => wire[c].reply = None
           Read1   == \E a \in Calls : call[a].pc = "read"
<1>1. /\ handler \in [Conns -> HandlerStates] /\ wire \in [Conns -> WireStates]
      /\ call \in [Calls -> CallStates] /\ conn \in 0..MaxConns
  BY DEF TypeOK, DriverTypes, WireTypes, HandlerTypes
<1>2. (\A c \in Conns : Tidy(c)) /\ (conn # 0 /\ ~Read1 => Idle(conn))
  BY DEF Lines, OneLine, QuietConn
<1>3. ASSUME \A c \in Conns : Tidy(c)', conn' # 0 /\ ~Read1' => Idle(conn)'
      PROVE  OneLine' /\ QuietConn'
  BY <1>3 DEF OneLine, QuietConn
<1>4. \A c \in Conns : Idle(c)' => Tidy(c)'
  OBVIOUS
<1>5. CASE UNCHANGED <<wire, handler, conn>> /\ (Read1' <=> Read1)
  BY <1>2, <1>3, <1>5 DEF Busy
<1>6. ASSUME NEW c \in Conns, UNCHANGED <<call, conn>>,
             \A d \in Conns \ {c} : wire'[d] = wire[d] /\ handler'[d] = handler[d],
             Tidy(c)', Idle(c) => Idle(c)'
      PROVE  OneLine' /\ QuietConn'
  <2>1. \A d \in Conns \ {c} : (Tidy(d)' <=> Tidy(d)) /\ (Idle(d)' <=> Idle(d))
    BY <1>6 DEF Busy
  <2>2. conn # 0 => conn \in Conns
    BY <1>1, BoundAssumption DEF Conns
  <2> QED BY <1>2, <1>3, <1>6, <2>1, <2>2
<1>7. ASSUME NEW c \in Conns, Hangup(c)
      PROVE  /\ \A d \in Conns \ {c} : wire'[d] = wire[d]
             /\ wire'[c].request = wire[c].request /\ wire'[c].reply = None
  BY <1>1, <1>7 DEF Hangup, WireStates
<1>8. ASSUME NEW c \in Conns, Over(c)
      PROVE  /\ \A d \in Conns \ {c} : wire'[d] = wire[d] /\ handler'[d] = handler[d]
             /\ wire'[c].reply = wire[c].reply /\ wire'[c].request = None /\ ~Busy(c)'
  BY <1>1, <1>8 DEF Over, WireStates, Busy, Gone, Unborn
<1>9. ASSUME NEW c \in Conns, Handler(c) \/ GiveUp(c) \/ Closes(c) PROVE OneLine' /\ QuietConn'
  <2>1. CASE Register(c)
    <3>1. /\ \A d \in Conns \ {c} : wire'[d] = wire[d] /\ handler'[d] = handler[d]
          /\ wire'[c].reply = wire[c].reply /\ wire'[c].request = None
          /\ wire[c].request # None /\ UNCHANGED <<call, conn>>
      BY <1>1, <2>1 DEF Register, WireStates, driver
    <3> QED BY <1>2, <1>6, <3>1
  <2>2. CASE ReadFails(c)
    BY <1>2, <1>6, <1>8, <2>2 DEF ReadFails, driver
  <2>3. CASE Reply(c)
    <3>1. Busy(c) /\ UNCHANGED <<call, conn>>
      BY <2>3 DEF Reply, Busy, driver
    <3>2. CASE Over(c)
      BY <1>2, <1>6, <1>8, <3>1, <3>2
    <3>3. CASE /\ wire' = [wire EXCEPT ![c].reply = [id |-> handler[c].call,
                                                      result |-> handler[c].result]]
               /\ handler' = [handler EXCEPT ![c] = Reading]
      <4>1. /\ \A d \in Conns \ {c} : wire'[d] = wire[d] /\ handler'[d] = handler[d]
            /\ wire'[c].request = wire[c].request /\ ~Busy(c)'
        BY <1>1, <3>3 DEF WireStates, Busy, Reading, Unborn
      <4> QED BY <1>2, <1>6, <3>1, <4>1
    <3> QED BY <2>3, <3>2, <3>3 DEF Reply
  <2>4. CASE Post(c) \/ PostFails(c) \/ TakeAnswer(c) \/ GiveUp(c)
    <3>1. /\ \A d \in Conns \ {c} : handler'[d] = handler[d]
          /\ UNCHANGED <<call, conn, wire>> /\ Busy(c)
      <4>1. ASSUME NEW result, Replies(c, result)
            PROVE  \A d \in Conns \ {c} : handler'[d] = handler[d]
        BY <1>1, <4>1 DEF Replies
      <4>2. ASSUME handler' = [handler EXCEPT ![c].pc = "wait"]
            PROVE  \A d \in Conns \ {c} : handler'[d] = handler[d]
        BY <1>1, <4>2
      <4> QED BY <2>4, <4>1, <4>2
              DEF Post, PostFails, TakeAnswer, GiveUp, Busy, driver, sockets
    <3> QED BY <1>2, <1>6, <3>1
  <2>5. CASE Closes(c)
    <3>1. UNCHANGED <<call, conn, handler>>
      BY <2>5 DEF Closes
    <3>2. Busy(c)' <=> Busy(c)
      BY <3>1 DEF Busy
    <3> QED BY <1>2, <1>6, <1>7, <2>5, <3>1, <3>2 DEF Closes
  <2> QED BY <1>9, <2>1, <2>2, <2>3, <2>4, <2>5 DEF Handler
<1>10. ASSUME NEW a \in Calls, call[a].pc \in {"idle", "dial"}, UNCHANGED <<wire, handler, conn>>,
              NEW state, state.pc # "read", call' = [call EXCEPT ![a] = state]
       PROVE  OneLine' /\ QuietConn'
  <2>1. Read1' <=> Read1
    BY <1>1, <1>10
  <2> QED BY <1>5, <1>10, <2>1
<1>11. ASSUME NEW a \in Calls, Driver(a) \/ AttemptFails(a) \/ Cancel(a)
       PROVE  OneLine' /\ QuietConn'
  <2>1. CASE Lock(a)
    BY <1>10, <2>1 DEF Lock, sockets
  <2>2. CASE Reuse(a)
    <3>1. call' = [call EXCEPT ![a] = [call[a] EXCEPT !.pc = "write"]]
      BY <2>2 DEF Reuse
    <3>2. [call[a] EXCEPT !.pc = "write"].pc # "read"
      BY <1>1 DEF CallStates
    <3> QED BY <1>10, <2>2, <3>1, <3>2 DEF Reuse, sockets
  <2>3. CASE Dial(a)
    <3>1. /\ dialled + 1 \in Conns /\ conn' = dialled + 1
          /\ wire' = [wire EXCEPT ![dialled + 1] = [client |-> TRUE, server |-> TRUE,
                                                    request |-> None, reply |-> None]]
          /\ handler' = [handler EXCEPT ![dialled + 1] = Reading]
      BY <2>3, BoundAssumption DEF Dial, TypeOK, WireTypes, Conns
    <3>2. Idle(conn)' /\ \A d \in Conns : d # conn' => Tidy(d)'
      BY <1>1, <1>2, <3>1 DEF Busy, Reading, Unborn
    <3> QED BY <1>3, <1>4, <3>2
  <2>4. CASE DialFails(a)
    BY <1>10, <2>4 DEF DialFails, Finish, sockets
  <2>5. CASE Write(a)
    <3>1. conn \in Conns /\ ~Read1
      BY <2>5, InUse DEF Write, Lines, OneCaller
    <3>2. Idle(conn)
      BY <1>2, <3>1, BoundAssumption DEF Conns
    <3>3. /\ \A d \in Conns \ {conn} : wire'[d] = wire[d]
          /\ wire'[conn].reply = wire[conn].reply
          /\ UNCHANGED <<handler, conn>> /\ call'[a].pc = "read"
      BY <1>1, <2>5, <3>1 DEF Write, WireStates, CallStates
    <3>4. \A d \in Conns : Tidy(d)'
      BY <1>2, <3>2, <3>3 DEF Busy
    <3> QED BY <1>3, <3>3, <3>4
  <2>6. CASE Read(a)
    <3>1. conn \in Conns
      BY <2>6, InUse DEF Read
    <3>2. /\ \A d \in Conns \ {conn} : wire'[d] = wire[d]
          /\ wire'[conn].reply = None /\ wire'[conn].request = wire[conn].request
          /\ wire[conn].reply # None
          /\ UNCHANGED <<handler, conn>>
      BY <1>1, <2>6, <3>1 DEF Read, WireStates
    <3>3. Idle(conn)'
      BY <1>2, <3>1, <3>2 DEF Busy
    <3>4. \A d \in Conns : Tidy(d)'
      BY <1>2, <1>4, <3>2, <3>3 DEF Busy
    <3> QED BY <1>3, <3>2, <3>3, <3>4
  <2>7. CASE AttemptFails(a)
    <3>1. conn \in Conns /\ Hangup(conn) /\ conn' = 0 /\ UNCHANGED handler
      BY <2>7, InUse DEF AttemptFails, Retry
    <3>2. \A d \in Conns : Tidy(d)'
      BY <1>2, <1>7, <3>1 DEF Busy
    <3> QED BY <1>3, <3>1, <3>2
  <2>8. CASE Cancel(a)
    <3>1. \A b \in Calls : call'[b].pc = call[b].pc
      BY <1>1, <2>8 DEF Cancel, CallStates
    <3> QED BY <1>5, <2>8, <3>1 DEF Cancel, sockets
  <2> QED BY <1>11, <2>1, <2>2, <2>3, <2>4, <2>5, <2>6, <2>7, <2>8 DEF Driver
<1>12. CASE HostRestarts
  <2>1. \A c \in Conns : /\ wire'[c].request = None /\ wire'[c].reply = wire[c].reply
                         /\ ~Busy(c)' /\ UNCHANGED <<call, conn>>
    BY <1>1, <1>12 DEF HostRestarts, WireStates, Busy, Gone, Unborn, driver
  <2>2. conn # 0 => conn \in Conns
    BY <1>1, BoundAssumption DEF Conns
  <2> QED BY <1>2, <1>3, <1>12, <2>1, <2>2 DEF HostRestarts, driver
<1>13. CASE (\E o \in ops : Deliver(o)) \/ Reader \/ StreamCloses \/ HostSignal \/ UNCHANGED vars
  BY <1>5, <1>13 DEF Deliver, Reader, SendAnswer, failAllPending, ReaderCloses, StreamCloses,
                     HostSignal, vars, driver, sockets
<1> QED BY <1>9, <1>11, <1>12, <1>13 DEF Next

\* The lines of the calls, with the types.
LEMMA LinesInvariant == Spec => [](TypeOK /\ Lines)
<1>1. Init => TypeOK /\ Lines
  BY InitInv DEF IInv
<1>2. TypeOK /\ Lines /\ [Next]_vars => (TypeOK /\ Lines)'
  BY TypesKept, OneCallerKept, CommandsKept, OneLineKept DEF Lines
<1> QED BY <1>1, <1>2, PTL DEF Spec

\* TypeOK in every reachable state.  A line that the driver reads is a reply
\* with a result, and a command that is posted has a number and a call, because
\* a connection carries one line at a time (native_host.go:259-300, 376-480).
THEOREM BridgeTypes == Spec => []TypeOK
BY LinesInvariant, PTL

\* InStep in every reachable state: an attempt that fails closes its connection,
\* so the one a call finds open carries no line of an earlier call
\* (ExtensionDriver.call, native_host.go:484-547).
THEOREM StaysInStep == Spec => []InStep
<1>1. TypeOK /\ Lines => InStep
  <2> SUFFICES ASSUME TypeOK, Lines, NEW a \in Calls, call[a].pc = "write"
               PROVE  /\ wire[conn].request = None /\ wire[conn].reply = None
                      /\ handler[conn].pc \in {"read", "over"}
    BY DEF InStep
  <2>1. conn \in Conns /\ conn <= dialled /\ \A b \in Calls : call[b].pc # "read"
    BY InUse DEF Lines, OneCaller
  <2>2. conn # 0
    BY <2>1, BoundAssumption DEF Conns
  <2>3. ~Busy(conn) /\ wire[conn].request = None /\ wire[conn].reply = None
    BY <2>1, <2>2 DEF Lines, QuietConn
  <2>4. handler[conn] \in HandlerStates /\ handler[conn].pc # "none"
    BY <2>1, BoundAssumption DEF TypeOK, WireTypes, HandlerTypes, Lines, OneCaller, Conns
  <2> QED BY <2>3, <2>4 DEF Busy, HandlerStates
<1> QED BY <1>1, LinesInvariant, PTL

-----------------------------------------------------------------------------

\* What a step does to the handlers that wait: nothing, or one of them leaves.
SameWaits == \A d \in Conns : /\ Waits(d)' <=> Waits(d)
                              /\ Waits(d) => /\ handler'[d].number = handler[d].number
                                             /\ handler'[d].call = handler[d].call
Leaves(c) ==
  /\ Waits(c) /\ ~Waits(c)'
  /\ \A d \in Conns \ {c} : /\ Waits(d)' <=> Waits(d)
                            /\ Waits(d) => /\ handler'[d].number = handler[d].number
                                           /\ handler'[d].call = handler[d].call

\* A handler that replies has left, with the reply for its call.
LEMMA ReplyLeaves ==
  ASSUME TypeOK, NEW c \in Conns, Waits(c), NEW result, Replies(c, result)
  PROVE  Leaves(c)
BY DEF TypeOK, HandlerTypes, Replies, Leaves, Waits

\* A handler that has posted waits as before.
LEMMA PostWaits ==
  ASSUME TypeOK, NEW c \in Conns, handler[c].pc = "post", handler' = [handler EXCEPT ![c].pc = "wait"]
  PROVE  SameWaits
<1>1. handler \in [Conns -> HandlerStates] /\ handler[c] \in HandlerStates
  BY DEF TypeOK, HandlerTypes
<1>2. /\ handler'[c].pc = "wait" /\ handler'[c].number = handler[c].number
      /\ handler'[c].call = handler[c].call /\ \A d \in Conns \ {c} : handler'[d] = handler[d]
  BY <1>1 DEF HandlerStates
<1> QED BY <1>2 DEF SameWaits, Waits

\* The waiting handlers under the steps of the driver and of the handlers that
\* do not wait.
LEMMA OthersKeepWaits ==
  ASSUME TypeOK, Lines,
         \/ \E a \in Calls : Driver(a) \/ AttemptFails(a) \/ Cancel(a)
         \/ \E c \in Conns : ReadFails(c) \/ Reply(c) \/ Closes(c)
         \/ UNCHANGED vars
  PROVE  SameWaits /\ UNCHANGED <<bridge, ops>>
<1>1. handler \in [Conns -> HandlerStates]
  BY DEF TypeOK, HandlerTypes
<1>2. ASSUME UNCHANGED handler PROVE SameWaits
  BY <1>2 DEF SameWaits, Waits
<1>3. ASSUME NEW c \in Conns, ~Waits(c), NEW state \in {Reading, Gone},
             handler' = [handler EXCEPT ![c] = state]
      PROVE  SameWaits
  BY <1>1, <1>3 DEF SameWaits, Waits, Reading, Gone, Unborn
<1>4. ASSUME NEW a \in Calls, Driver(a) \/ AttemptFails(a) \/ Cancel(a)
      PROVE  SameWaits /\ UNCHANGED <<bridge, ops>>
  <2>1. CASE Dial(a)
    <3>1. dialled + 1 \in Conns /\ dialled + 1 > dialled
      BY <2>1, BoundAssumption DEF Dial, TypeOK, WireTypes, Conns
    <3>2. ~Waits(dialled + 1)
      BY <3>1 DEF Lines, OneCaller, Waits
    <3> QED BY <1>3, <2>1, <3>1, <3>2 DEF Dial
  <2>2. CASE ~Dial(a)
    <3>1. UNCHANGED <<handler, bridge, ops>>
      BY <1>4, <2>2 DEF Driver, Lock, DialFails, Cancel, Reuse, Write, AttemptFails, Read
    <3> QED BY <1>2, <3>1
  <2> QED BY <2>1, <2>2
<1>5. ASSUME NEW c \in Conns, ReadFails(c) \/ Reply(c) \/ Closes(c)
      PROVE  SameWaits /\ UNCHANGED <<bridge, ops>>
  <2>1. CASE ReadFails(c) \/ Reply(c)
    BY <1>3, <2>1 DEF ReadFails, Reply, Over, Waits
  <2>2. CASE Closes(c)
    BY <1>2, <2>2 DEF Closes
  <2> QED BY <1>5, <2>1, <2>2
<1>6. ASSUME UNCHANGED vars PROVE SameWaits /\ UNCHANGED <<bridge, ops>>
  BY <1>2, <1>6 DEF vars
<1> QED BY <1>4, <1>5, <1>6

Numbered == OwnNumbers /\ PendingAwaited

\* A number is given once while its host lives: what is registered under it is
\* awaited by the handler it was given to, with an empty channel.
LEMMA NumbersKept == TypeOK /\ Lines /\ Numbered /\ [Next]_vars => Numbered'
<1> SUFFICES ASSUME TypeOK, Lines, Numbered, [Next]_vars PROVE Numbered'
  OBVIOUS
<1>1. /\ number \in Nat /\ pending \subseteq Numbers /\ answer \in [Numbers -> Results]
      /\ \A c \in Conns : Waits(c) => handler[c].number \in Numbers
      /\ \A r \in Numbers : r \in Nat
  BY BoundAssumption DEF TypeOK, HostTypes, Lines, Commands, Numbers
<1>2. /\ \A c, d \in Conns : Waits(c) /\ Waits(d) /\ handler[c].number = handler[d].number => c = d
      /\ \A c \in Conns : Waits(c) => handler[c].number <= number
      /\ \A r \in Numbers : answer[r] # NoReply => r <= number
      /\ \A r \in pending : r <= number
      /\ reader.pc = "send" => reader.number \in 1..number
      /\ \A r \in pending : /\ answer[r] = NoReply
                            /\ \E c \in Conns : Waits(c) /\ handler[c].number = r
      /\ reader.pc = "send" => answer[reader.number] = NoReply /\ reader.number \notin pending
  BY DEF Numbered, OwnNumbers, PendingAwaited, Waits
<1>3. ASSUME \A c, d \in Conns : Waits(c)' /\ Waits(d)' /\ handler'[c].number = handler'[d].number
               => c = d,
             \A c \in Conns : Waits(c)' => handler'[c].number <= number',
             \A r \in Numbers : answer'[r] # NoReply => r <= number',
             \A r \in pending' : r <= number',
             reader'.pc = "send" => reader'.number \in 1..number',
             \A r \in pending' : /\ answer'[r] = NoReply
                                 /\ \E c \in Conns : Waits(c)' /\ handler'[c].number = r,
             reader'.pc = "send" => answer'[reader'.number] = NoReply /\ reader'.number \notin pending'
      PROVE  Numbered'
  BY <1>3 DEF Numbered, OwnNumbers, PendingAwaited, Waits
<1>4. ASSUME SameWaits, UNCHANGED bridge PROVE Numbered'
  <2>1. \A d \in Conns : Waits(d)' => Waits(d) /\ handler'[d].number = handler[d].number
    BY <1>4 DEF SameWaits
  <2>2. UNCHANGED <<number, pending, answer, reader>>
    BY <1>4 DEF bridge
  <2>3. \A r \in pending' : \E d \in Conns : Waits(d)' /\ handler'[d].number = r
    BY <1>2, <1>4, <2>2 DEF SameWaits
  <2> QED BY <1>2, <1>3, <2>1, <2>2, <2>3
<1>5. ASSUME NEW c \in Conns, Leaves(c), UNCHANGED <<number, reader>>,
             pending' = pending \ {handler[c].number},
             \/ answer' = answer
             \/ answer' = [answer EXCEPT ![handler[c].number] = NoReply]
      PROVE  Numbered'
  <2>1. \A r \in pending' : r # handler[c].number /\ r \in pending
    BY <1>5
  <2>2. \A r \in Numbers : answer'[r] \in {NoReply, answer[r]}
    BY <1>1, <1>5
  <2>3. \A r \in pending' : \E d \in Conns : Waits(d)' /\ handler'[d].number = r
    BY <1>2, <1>5, <2>1 DEF Leaves
  <2>4. \A d \in Conns : Waits(d)' => Waits(d) /\ handler'[d].number = handler[d].number
    BY <1>5 DEF Leaves
  <2>5. reader.pc = "send" => reader.number \in Numbers
    BY <1>2, BoundAssumption DEF TypeOK, HostTypes, Numbers
  <2> QED BY <1>1, <1>2, <1>3, <1>5, <2>1, <2>2, <2>3, <2>4, <2>5
<1>6. ASSUME NEW c \in Conns, Handler(c) \/ GiveUp(c) \/ Closes(c) PROVE Numbered'
  <2>1. CASE Register(c)
    <3>1. /\ ~Waits(c) /\ number' = number + 1 /\ pending' = pending \cup {number + 1}
          /\ number + 1 \in Numbers /\ UNCHANGED <<answer, reader>>
      BY <1>1, <2>1, BoundAssumption DEF Register, NextNumber, Waits, Numbers
    <3>2. /\ Waits(c)' /\ handler'[c].number = number + 1
          /\ \A d \in Conns \ {c} : handler'[d] = handler[d] /\ (Waits(d)' <=> Waits(d))
      BY <2>1 DEF Register, NextNumber, TypeOK, HandlerTypes, Waits
    <3>3. answer[number + 1] = NoReply
      BY <1>1, <1>2, <3>1
    <3>4. \A r \in pending' : \E d \in Conns : Waits(d)' /\ handler'[d].number = r
      BY <1>2, <3>1, <3>2
    <3>5. \A d \in Conns \ {c} : Waits(d)' => Waits(d) /\ handler'[d].number <= number
                                                       /\ handler'[d].number \in Nat
      BY <1>1, <1>2, <3>2
    <3>6. \A d, e \in Conns : Waits(d)' /\ Waits(e)' /\ handler'[d].number = handler'[e].number => d = e
      BY <1>1, <1>2, <3>2, <3>5
    <3>7. reader'.pc = "send" => reader'.number \in 1..number /\ reader'.number \notin pending'
      BY <1>1, <1>2, <3>1
    <3>8. \A d \in Conns : Waits(d)' => handler'[d].number <= number'
      BY <1>1, <3>1, <3>2, <3>5
    <3>9. \A r \in pending' : r <= number' /\ answer'[r] = NoReply
      BY <1>1, <1>2, <3>1, <3>3
    <3> QED BY <1>1, <1>2, <1>3, <3>1, <3>4, <3>6, <3>7, <3>8, <3>9
  <2>2. CASE ReadFails(c) \/ Reply(c) \/ Closes(c)
    BY <1>4, <2>2, OthersKeepWaits
  <2>3. CASE Post(c)
    BY <1>4, <2>3, PostWaits DEF Post
  <2>4. CASE PostFails(c)
    <3>1. CASE pending' = pending \ {handler[c].number} /\ Replies(c, Error)
      BY <1>5, <2>4, <3>1, ReplyLeaves DEF PostFails, Waits
    <3>2. CASE handler' = [handler EXCEPT ![c].pc = "wait"] /\ UNCHANGED pending
      BY <1>4, <2>4, <3>2, PostWaits DEF PostFails, bridge
    <3> QED BY <2>4, <3>1, <3>2 DEF PostFails
  <2>5. CASE TakeAnswer(c)
    <3>1. Waits(c) /\ answer[handler[c].number] # NoReply
      BY <2>5 DEF TakeAnswer, Waits
    <3>2. pending \ {handler[c].number} = pending
      BY <1>2, <3>1
    <3> QED BY <1>5, <2>5, <3>1, <3>2, ReplyLeaves DEF TakeAnswer
  <2>6. CASE GiveUp(c)
    BY <1>5, <2>6, ReplyLeaves DEF GiveUp, Waits
  <2> QED BY <1>6, <2>1, <2>2, <2>3, <2>4, <2>5, <2>6 DEF Handler
<1>7. CASE \E a \in Calls : Driver(a) \/ AttemptFails(a) \/ Cancel(a)
  BY <1>4, <1>7, OthersKeepWaits
<1>8. CASE UNCHANGED <<handler, number, answer, ops>> /\ pending' \subseteq pending
             /\ (reader'.pc = "send" => reader' = reader)
  <2>1. \A d \in Conns : Waits(d)' <=> Waits(d)
    BY <1>8 DEF Waits
  <2> QED BY <1>2, <1>3, <1>8, <2>1
<1>9. ASSUME NEW o \in ops, Deliver(o) PROVE Numbered'
  <2>1. CASE o.number \in pending
    <3>1. /\ pending' = pending \ {o.number} /\ UNCHANGED <<handler, number, answer>>
          /\ reader'.number = o.number
      BY <1>9, <2>1 DEF Deliver, LookUp
    <3>2. \A d \in Conns : Waits(d)' <=> Waits(d)
      BY <3>1 DEF Waits
    <3>3. o.number \in 1..number
      <4>1. PICK r \in pending : r = o.number
        BY <2>1
      <4>2. r \in 1..MaxNumber /\ r <= number
        BY <1>1, <1>2 DEF Numbers
      <4> QED BY <1>1, <4>1, <4>2, BoundAssumption
    <3>4. \A r \in pending' : \E d \in Conns : Waits(d)' /\ handler'[d].number = r
      BY <1>2, <3>1, <3>2
    <3> QED BY <1>2, <1>3, <2>1, <3>1, <3>2, <3>3, <3>4
  <2>2. CASE o.number \notin pending
    <3>1. UNCHANGED <<handler, number, answer, pending, reader>>
      BY <1>9, <2>2 DEF Deliver
    <3>2. \A d \in Conns : Waits(d)' <=> Waits(d)
      BY <3>1 DEF Waits
    <3> QED BY <1>2, <1>3, <3>1, <3>2
  <2> QED BY <2>1, <2>2
<1>10. CASE SendAnswer
  <2>1. /\ reader.number \in Numbers /\ reader.number \in 1..number
        /\ reader.number \notin pending
    BY <1>2, <1>10, BoundAssumption DEF SendAnswer, TypeOK, HostTypes, Numbers
  <2>2. /\ \A r \in Numbers \ {reader.number} : answer'[r] = answer[r]
        /\ reader'.pc = "read" /\ UNCHANGED <<handler, number, pending>>
    BY <1>1, <1>10 DEF SendAnswer
  <2>3. \A d \in Conns : Waits(d)' <=> Waits(d)
    BY <2>2 DEF Waits
  <2>4. \A r \in pending' : /\ answer'[r] = NoReply
                            /\ \E d \in Conns : Waits(d)' /\ handler'[d].number = r
    BY <1>1, <1>2, <2>1, <2>2, <2>3
  <2>5. \A r \in Numbers : answer'[r] # NoReply => r <= number
    BY <1>1, <1>2, <2>1, <2>2
  <2> QED BY <1>2, <1>3, <2>2, <2>3, <2>4, <2>5
<1>11. CASE failAllPending
  <2>1. /\ pending' = {} /\ reader'.pc = "close" /\ UNCHANGED <<handler, number>>
        /\ \A r \in Numbers \ pending : answer'[r] = answer[r]
    BY <1>1, <1>11 DEF failAllPending, TypeOK, HostTypes
  <2>2. \A d \in Conns : Waits(d)' <=> Waits(d)
    BY <2>1 DEF Waits
  <2> QED BY <1>2, <1>3, <2>1, <2>2
<1>12. CASE ReaderCloses \/ StreamCloses \/ HostSignal
  <2>1. CASE ReaderCloses
    <3>1. reader'.pc = "over"
      BY <2>1 DEF ReaderCloses, TypeOK, HostTypes
    <3> QED BY <1>8, <2>1, <3>1 DEF ReaderCloses
  <2> QED BY <1>8, <1>12, <2>1 DEF StreamCloses, HostSignal
<1>13. CASE HostRestarts
  <2>1. /\ \A d \in Conns : ~Waits(d)'
        /\ pending' = {} /\ reader'.pc = "read" /\ \A r \in Numbers : answer'[r] = NoReply
    BY <1>13 DEF HostRestarts, Waits, Gone, Unborn
  <2> QED BY <1>3, <2>1
<1>14. CASE UNCHANGED vars
  BY <1>4, <1>14, OthersKeepWaits
<1> QED BY <1>6, <1>7, <1>9, <1>10, <1>11, <1>12, <1>13, <1>14 DEF Next, Reader

\* The numbers, with the types and the lines.
LEMMA NumbersInvariant == Spec => [](TypeOK /\ Lines /\ Numbered)
<1>1. Init => Numbered
  BY InitInv DEF IInv, Numbered
<1>2. Numbered /\ TypeOK /\ Lines /\ [Next]_vars => Numbered'
  BY NumbersKept
<1> QED BY <1>1, <1>2, LinesInvariant, PTL DEF Spec

\* PendingAwaited in every reachable state: neither an answer nor failAllPending,
\* which sends under the bridge's mutex, meets a channel that is full, and no
\* entry of pendingCalls outlives its call (native_host.go:180-300).
THEOREM PendingIsAwaited == Spec => []PendingAwaited
BY NumbersInvariant, PTL DEF Numbered

-----------------------------------------------------------------------------

\* OwnAnswers in parts: what bears a number, what a handler replies with, what a
\* connection carries back.
OwnNumbered ==
  /\ \A o \in ops : o.host = 1 /\ o.number <= number
  /\ \A c \in Conns : Waits(c) =>
       /\ \A o \in ops : o.number = handler[c].number => o.call = handler[c].call
       /\ reader.pc = "send" /\ reader.number = handler[c].number
            => reader.result = handler[c].call
       /\ answer[handler[c].number] \in {NoReply, Error, handler[c].call}
OwnReplied ==
  \A c \in Conns : handler[c].pc = "reply" => handler[c].result \in {Error, handler[c].call}
OwnLines ==
  \A c \in Conns : wire[c].reply # None => wire[c].reply.result \in {Error, wire[c].reply.id}

Safe == TypeOK /\ Lines /\ Numbered /\ OwnAnswers /\ OwnResponse

\* Only a restart changes the host, and for good.
LEMMA SameHost ==
  ASSUME TypeOK, [Next]_vars, host' = 1
  PROVE  host = 1 /\ ~HostRestarts
<1>1. host \in Nat \ {0}
  BY DEF TypeOK, HostTypes, Hosts
<1>2. ~HostRestarts
  <2>1. HostRestarts => host' = host + 1
    BY DEF HostRestarts
  <2> QED BY <1>1, <2>1
<1>3. host' = host
  <2>1. ASSUME NEW a \in Calls, Driver(a) \/ AttemptFails(a) \/ Cancel(a) PROVE host' = host
    BY <2>1 DEF Driver, Lock, Reuse, Dial, DialFails, Write, Read, AttemptFails, Cancel, bridge
  <2>2. ASSUME NEW c \in Conns, Handler(c) \/ GiveUp(c) \/ Closes(c) PROVE host' = host
    BY <2>2 DEF Handler, Register, ReadFails, Post, PostFails, TakeAnswer, Reply, GiveUp, Closes,
                bridge
  <2>3. CASE (\E o \in ops : Deliver(o)) \/ Reader \/ StreamCloses \/ HostSignal \/ UNCHANGED vars
    BY <2>3 DEF Deliver, Reader, SendAnswer, failAllPending, ReaderCloses, StreamCloses, HostSignal,
                vars, bridge
  <2> QED BY <1>2, <2>1, <2>2, <2>3 DEF Next
<1> QED BY <1>2, <1>3

\* What a call returns is its own reply, or an error.
LEMMA OwnResponseKept == Safe /\ [Next]_vars => OwnResponse'
<1> SUFFICES ASSUME Safe, [Next]_vars PROVE OwnResponse'
  OBVIOUS
<1> DEFINE Own(a, result) == result \in {NoReply, Error, a}
<1>1. call \in [Calls -> CallStates] /\ \A a \in Calls : Own(a, call[a].result)
  BY DEF Safe, TypeOK, DriverTypes, OwnResponse
<1>2. ASSUME \A a \in Calls : Own(a, call'[a].result) PROVE OwnResponse'
  BY <1>2 DEF OwnResponse
<1>3. ASSUME NEW a \in Calls, NEW state, Own(a, state.result), call' = [call EXCEPT ![a] = state]
      PROVE  OwnResponse'
  BY <1>1, <1>2, <1>3
<1>4. ASSUME NEW a \in Calls, NEW result \in {NoReply, Error, a}, Finish(a, result)
      PROVE  OwnResponse'
  <2> DEFINE state == [pc |-> "done", try |-> 0, result |-> result, cancelled |-> FALSE]
  <2>1. Own(a, state.result)
    BY <1>4
  <2>2. call' = [call EXCEPT ![a] = state]
    BY <1>4 DEF Finish
  <2> HIDE DEF state, Own
  <2> QED BY <1>3, <2>1, <2>2
<1>5. CASE UNCHANGED call
  BY <1>1, <1>2, <1>5
<1> HIDE DEF Own
<1>6. ASSUME NEW a \in Calls, Driver(a) \/ AttemptFails(a) \/ Cancel(a) PROVE OwnResponse'
  <2>1. CASE Lock(a)
    <3>1. PICK state : state.result = NoReply /\ call' = [call EXCEPT ![a] = state]
      <4>1. PICK cancelled \in {FALSE, Cancels} :
              call' = [call EXCEPT ![a] = [pc |-> "dial", try |-> 1, result |-> NoReply,
                                           cancelled |-> cancelled]]
        BY <2>1 DEF Lock
      <4> QED BY <4>1
    <3>2. Own(a, state.result)
      BY <3>1 DEF Own
    <3> QED BY <1>3, <3>1, <3>2
  <2>2. ASSUME NEW pc, call' = [call EXCEPT ![a].pc = pc] PROVE OwnResponse'
    <3>1. [call[a] EXCEPT !.pc = pc].result = call[a].result
      BY <1>1 DEF CallStates
    <3>2. call' = [call EXCEPT ![a] = [call[a] EXCEPT !.pc = pc]]
      BY <2>2
    <3> QED BY <1>1, <1>3, <3>1, <3>2
  <2>3. CASE Reuse(a) \/ Dial(a) \/ Write(a)
    BY <2>2, <2>3 DEF Reuse, Dial, Write
  <2>4. CASE DialFails(a)
    BY <1>4, <2>4 DEF DialFails
  <2>5. CASE Read(a)
    <3>1. conn \in Conns
      BY <2>5, InUse DEF Read, Safe
    <3>2. CASE wire[conn].reply.id = a
      <4>1. wire[conn].reply.result \in {Error, a}
        BY <2>5, <3>1, <3>2 DEF Read, Safe, OwnAnswers
      <4> QED BY <1>4, <2>5, <3>2, <4>1 DEF Read
    <3>3. CASE wire[conn].reply.id # a
      BY <1>4, <2>5, <3>3 DEF Read
    <3> QED BY <3>2, <3>3
  <2>6. CASE AttemptFails(a)
    <3>1. CASE call[a].try < Attempts
      <4>1. call' = [call EXCEPT ![a] = [call[a] EXCEPT !.pc = "dial", !.try = @ + 1]]
        BY <2>6, <3>1 DEF AttemptFails, Retry
      <4>2. [call[a] EXCEPT !.pc = "dial", !.try = @ + 1].result = call[a].result
        BY <1>1 DEF CallStates
      <4> QED BY <1>1, <1>3, <4>1, <4>2
    <3>2. CASE ~(call[a].try < Attempts)
      BY <1>4, <2>6, <3>2 DEF AttemptFails, Retry
    <3> QED BY <3>1, <3>2
  <2>7. CASE Cancel(a)
    <3>1. call' = [call EXCEPT ![a] = [call[a] EXCEPT !.cancelled = TRUE]]
      BY <2>7 DEF Cancel
    <3>2. [call[a] EXCEPT !.cancelled = TRUE].result = call[a].result
      BY <1>1 DEF CallStates
    <3> QED BY <1>1, <1>3, <3>1, <3>2
  <2> QED BY <1>6, <2>1, <2>3, <2>4, <2>5, <2>6, <2>7 DEF Driver
<1>7. CASE ~\E a \in Calls : Driver(a) \/ AttemptFails(a) \/ Cancel(a)
  BY <1>5, <1>7
  DEF Next, Handler, Register, ReadFails, Post, PostFails, TakeAnswer, Reply, GiveUp, Closes,
      Deliver, Reader, SendAnswer, failAllPending, ReaderCloses, StreamCloses, HostSignal,
      HostRestarts, vars, driver
<1> QED BY <1>6, <1>7

\* What a handler replies with is the answer to its own command, or an error.
LEMMA OwnRepliedKept == Safe /\ [Next]_vars => OwnReplied'
<1> SUFFICES ASSUME Safe, [Next]_vars PROVE OwnReplied'
  OBVIOUS
<1> DEFINE Good(state) == state.pc = "reply" => state.result \in {Error, state.call}
<1>1. handler \in [Conns -> HandlerStates] /\ \A c \in Conns : Good(handler[c])
  BY DEF Safe, TypeOK, HandlerTypes, OwnAnswers
<1>2. ASSUME \A c \in Conns : Good(handler'[c]) PROVE OwnReplied'
  BY <1>2 DEF OwnReplied
<1>3. ASSUME NEW c \in Conns, NEW state, Good(state), handler' = [handler EXCEPT ![c] = state]
      PROVE  OwnReplied'
  BY <1>1, <1>2, <1>3
<1>4. Good(Reading) /\ Good(Gone) /\ Good(Unborn)
  BY DEF Reading, Gone, Unborn
<1>5. ASSUME NEW c \in Conns, NEW result \in {Error, handler[c].call}, Replies(c, result)
      PROVE  OwnReplied'
  BY <1>3, <1>5 DEF Replies
<1>6. ASSUME NEW c \in Conns, handler' = [handler EXCEPT ![c].pc = "wait"]
      PROVE  OwnReplied'
  <2>1. Good([handler[c] EXCEPT !.pc = "wait"])
    BY <1>1 DEF HandlerStates
  <2>2. handler' = [handler EXCEPT ![c] = [handler[c] EXCEPT !.pc = "wait"]]
    BY <1>6
  <2> QED BY <1>3, <2>1, <2>2
<1>7. CASE UNCHANGED handler
  BY <1>1, <1>2, <1>7
<1> HIDE DEF Good
<1>8. ASSUME NEW a \in Calls, Driver(a) \/ AttemptFails(a) \/ Cancel(a) PROVE OwnReplied'
  <2>1. CASE Dial(a)
    <3>1. dialled + 1 \in Conns
      BY <2>1, BoundAssumption DEF Dial, Safe, TypeOK, WireTypes, Conns
    <3> QED BY <1>3, <1>4, <2>1, <3>1 DEF Dial
  <2> QED BY <1>7, <1>8, <2>1
          DEF Driver, Lock, DialFails, Cancel, Reuse, Write, AttemptFails, Read
<1>9. ASSUME NEW c \in Conns, Handler(c) \/ GiveUp(c) \/ Closes(c) PROVE OwnReplied'
  <2>1. CASE Register(c)
    BY <1>3, <2>1 DEF Register, Good
  <2>2. CASE ReadFails(c) \/ Reply(c)
    BY <1>3, <1>4, <2>2 DEF ReadFails, Reply, Over
  <2>3. CASE Closes(c)
    BY <1>7, <2>3 DEF Closes
  <2>4. CASE Post(c)
    BY <1>6, <2>4 DEF Post
  <2>5. CASE PostFails(c) \/ GiveUp(c)
    BY <1>5, <1>6, <2>5 DEF PostFails, GiveUp
  <2>6. CASE TakeAnswer(c)
    <3>1. answer[handler[c].number] \in {Error, handler[c].call}
      BY <2>6 DEF TakeAnswer, Safe, OwnAnswers, Waits
    <3> QED BY <1>5, <2>6, <3>1 DEF TakeAnswer
  <2> QED BY <1>9, <2>1, <2>2, <2>3, <2>4, <2>5, <2>6 DEF Handler
<1>10. CASE HostRestarts
  BY <1>2, <1>4, <1>10 DEF HostRestarts
<1>11. CASE (\E o \in ops : Deliver(o)) \/ Reader \/ StreamCloses \/ HostSignal \/ UNCHANGED vars
  BY <1>7, <1>11 DEF Deliver, Reader, SendAnswer, failAllPending, ReaderCloses, StreamCloses,
                     HostSignal, vars
<1> QED BY <1>8, <1>9, <1>10, <1>11 DEF Next

\* What a connection carries back is the reply of its own handler.
LEMMA OwnLinesKept == Safe /\ [Next]_vars => OwnLines'
<1> SUFFICES ASSUME Safe, [Next]_vars PROVE OwnLines'
  OBVIOUS
<1> DEFINE Good(reply) == reply # None => reply.result \in {Error, reply.id}
<1>1. wire \in [Conns -> WireStates] /\ \A c \in Conns : Good(wire[c].reply)
  BY DEF Safe, TypeOK, WireTypes, OwnAnswers
<1>2. ASSUME \A c \in Conns : Good(wire'[c].reply) PROVE OwnLines'
  BY <1>2 DEF OwnLines
<1>3. Good(None)
  OBVIOUS
<1> HIDE DEF Good
<1>4. ASSUME NEW c \in Conns, Good(wire'[c].reply), \A d \in Conns \ {c} : wire'[d] = wire[d]
      PROVE  OwnLines'
  BY <1>1, <1>2, <1>4
<1>5. ASSUME NEW c \in Conns, Hangup(c) PROVE OwnLines'
  <2>1. wire'[c].reply = None /\ \A d \in Conns \ {c} : wire'[d] = wire[d]
    BY <1>1, <1>5 DEF Hangup, WireStates
  <2> QED BY <1>3, <1>4, <2>1
<1>6. ASSUME NEW c \in Conns, Over(c) PROVE OwnLines'
  <2>1. wire'[c].reply = wire[c].reply /\ \A d \in Conns \ {c} : wire'[d] = wire[d]
    BY <1>1, <1>6 DEF Over, WireStates
  <2> QED BY <1>1, <1>4, <2>1
<1>7. ASSUME NEW c \in Conns, NEW line, wire' = [wire EXCEPT ![c].request = line] PROVE OwnLines'
  <2>1. wire'[c].reply = wire[c].reply /\ \A d \in Conns \ {c} : wire'[d] = wire[d]
    BY <1>1, <1>7 DEF WireStates
  <2> QED BY <1>1, <1>4, <2>1
<1>8. ASSUME NEW c \in Conns, NEW line, Good(line), wire' = [wire EXCEPT ![c].reply = line]
      PROVE  OwnLines'
  <2>1. wire'[c].reply = line /\ \A d \in Conns \ {c} : wire'[d] = wire[d]
    BY <1>1, <1>8 DEF WireStates
  <2> QED BY <1>4, <1>8, <2>1
<1>9. CASE UNCHANGED wire
  BY <1>1, <1>2, <1>9
<1>10. ASSUME NEW a \in Calls, Driver(a) \/ AttemptFails(a) \/ Cancel(a) PROVE OwnLines'
  <2>1. CASE Dial(a)
    <3> DEFINE ends == [client |-> TRUE, server |-> TRUE, request |-> None, reply |-> None]
    <3> HIDE DEF ends
    <3>1. PICK c \in Conns : wire' = [wire EXCEPT ![c] = ends]
      <4>1. dialled + 1 \in Conns
        BY <2>1, BoundAssumption DEF Dial, Safe, TypeOK, WireTypes, Conns
      <4> QED BY <2>1, <4>1 DEF Dial, ends
    <3> USE DEF ends
    <3>2. wire'[c].reply = None /\ \A d \in Conns \ {c} : wire'[d] = wire[d]
      BY <1>1, <3>1
    <3> QED BY <1>3, <1>4, <3>2
  <2>2. CASE Write(a)
    BY <1>7, <2>2, InUse DEF Write, Safe
  <2>3. CASE Read(a)
    BY <1>3, <1>8, <2>3, InUse DEF Read, Safe
  <2>4. CASE AttemptFails(a)
    BY <1>5, <2>4, InUse DEF AttemptFails, Retry, Safe
  <2>5. CASE Lock(a) \/ Reuse(a) \/ DialFails(a) \/ Cancel(a)
    BY <1>9, <2>5 DEF Lock, Reuse, DialFails, Cancel, sockets
  <2> QED BY <1>10, <2>1, <2>2, <2>3, <2>4, <2>5 DEF Driver
<1>11. ASSUME NEW c \in Conns, Handler(c) \/ GiveUp(c) \/ Closes(c) PROVE OwnLines'
  <2>1. CASE Register(c)
    BY <1>7, <2>1 DEF Register
  <2>2. CASE ReadFails(c)
    BY <1>6, <2>2 DEF ReadFails
  <2>3. CASE Reply(c)
    <3>1. handler[c].result \in {Error, handler[c].call}
      BY <2>3 DEF Reply, Safe, OwnAnswers
    <3>2. Good([id |-> handler[c].call, result |-> handler[c].result])
      BY <3>1 DEF Good
    <3> QED BY <1>6, <1>8, <2>3, <3>2 DEF Reply
  <2>4. CASE Closes(c)
    BY <1>5, <2>4 DEF Closes
  <2>5. CASE Post(c) \/ PostFails(c) \/ TakeAnswer(c) \/ GiveUp(c)
    BY <1>9, <2>5 DEF Post, PostFails, TakeAnswer, GiveUp, sockets
  <2> QED BY <1>11, <2>1, <2>2, <2>3, <2>4, <2>5 DEF Handler
<1>12. CASE HostRestarts
  <2>1. \A c \in Conns : wire'[c].reply = wire[c].reply
    BY <1>1, <1>12 DEF HostRestarts, WireStates
  <2> QED BY <1>1, <1>2, <2>1
<1>13. CASE (\E o \in ops : Deliver(o)) \/ Reader \/ StreamCloses \/ HostSignal \/ UNCHANGED vars
  BY <1>9, <1>13 DEF Deliver, Reader, SendAnswer, failAllPending, ReaderCloses, StreamCloses,
                     HostSignal, vars, sockets
<1> QED BY <1>10, <1>11, <1>12, <1>13 DEF Next

\* What bears the number of a command that waits is for the call it came from,
\* as long as the host is the first one.
LEMMA OwnNumberedKept == Safe /\ [Next]_vars /\ host' = 1 => OwnNumbered'
<1> SUFFICES ASSUME Safe, [Next]_vars, host' = 1 PROVE OwnNumbered'
  OBVIOUS
<1>1. /\ number \in Nat /\ answer \in [Numbers -> Results] /\ ops \subseteq [host : Hosts, number : Numbers, call : Calls]
      /\ \A c \in Conns : Waits(c) => handler[c].number \in Numbers
      /\ \A r \in Numbers : r \in Nat
      /\ handler \in [Conns -> HandlerStates]
  BY BoundAssumption DEF Safe, TypeOK, HandlerTypes, HostTypes, Lines, Commands, Numbers
<1>2. /\ \A c, d \in Conns : Waits(c) /\ Waits(d) /\ handler[c].number = handler[d].number => c = d
      /\ \A c \in Conns : Waits(c) => handler[c].number <= number
      /\ \A r \in Numbers : answer[r] # NoReply => r <= number
      /\ \A r \in pending : r <= number
      /\ reader.pc = "send" => reader.number \in 1..number
  BY DEF Safe, Numbered, OwnNumbers
<1>3. host = 1 /\ ~HostRestarts
  BY SameHost DEF Safe
<1> DEFINE Own(c) == /\ \A o \in ops : o.number = handler[c].number => o.call = handler[c].call
                     /\ reader.pc = "send" /\ reader.number = handler[c].number
                          => reader.result = handler[c].call
                     /\ answer[handler[c].number] \in {NoReply, Error, handler[c].call}
<1>4. /\ \A o \in ops : o.host = 1 /\ o.number <= number
      /\ \A c \in Conns : Waits(c) => Own(c)
  BY DEF Safe, OwnAnswers
<1>5. ASSUME \A o \in ops' : o.host = 1 /\ o.number <= number',
             \A c \in Conns : Waits(c)' => Own(c)'
      PROVE  OwnNumbered'
  BY <1>5 DEF OwnNumbered
<1>6. ASSUME NEW c \in Conns, UNCHANGED <<number, ops>>, reader' = reader \/ reader'.pc # "send",
             Waits(c)' => /\ Waits(c) /\ handler'[c].number = handler[c].number
                          /\ handler'[c].call = handler[c].call
                          /\ answer'[handler[c].number] \in {NoReply, Error, answer[handler[c].number]}
      PROVE  Waits(c)' => Own(c)'
  BY <1>4, <1>6
<1>7. CASE SameWaits /\ UNCHANGED <<bridge, ops>>
  BY <1>4, <1>5, <1>6, <1>7 DEF SameWaits, bridge
<1>8. ASSUME NEW c \in Conns, Leaves(c), UNCHANGED <<number, reader, ops>>,
             answer' \in {answer, [answer EXCEPT ![handler[c].number] = NoReply]}
      PROVE  OwnNumbered'
  <2>1. \A r \in Numbers : answer'[r] \in {NoReply, answer[r]}
    BY <1>1, <1>8
  <2>2. \A d \in Conns : Waits(d)' => /\ Waits(d) /\ handler'[d].number = handler[d].number
                                      /\ handler'[d].call = handler[d].call
    BY <1>8 DEF Leaves
  <2>3. \A d \in Conns : Waits(d)' => Own(d)'
    BY <1>1, <1>6, <1>8, <2>1, <2>2
  <2> QED BY <1>4, <1>5, <1>8, <2>3
<1>9. ASSUME NEW c \in Conns, Handler(c) \/ GiveUp(c) \/ Closes(c) PROVE OwnNumbered'
  <2>1. CASE Register(c)
    <3>1. /\ number' = number + 1 /\ number + 1 \in Numbers
          /\ UNCHANGED <<answer, reader, ops>>
      BY <1>1, <2>1, BoundAssumption DEF Register, NextNumber, Numbers
    <3>2. /\ handler'[c].number = number + 1
          /\ \A d \in Conns \ {c} : handler'[d] = handler[d] /\ (Waits(d)' <=> Waits(d))
      BY <1>1, <2>1 DEF Register, NextNumber, Waits
    <3>3. \A o \in ops : o.number \in Nat /\ o.number <= number /\ o.number # number + 1
      BY <1>1, <1>4
    <3>4. answer[number + 1] = NoReply
      BY <1>1, <1>2, <3>1
    <3>5. reader.pc = "send" => reader.number # number + 1
      BY <1>1, <1>2
    <3>6. Own(c)'
      BY <3>1, <3>2, <3>3, <3>4, <3>5
    <3>7. \A d \in Conns \ {c} : Waits(d)' => Own(d)'
      BY <1>4, <3>1, <3>2
    <3>8. \A o \in ops' : o.host = 1 /\ o.number <= number'
      BY <1>1, <1>4, <3>1, <3>3
    <3> QED BY <1>5, <3>6, <3>7, <3>8
  <2>2. CASE ReadFails(c) \/ Reply(c) \/ Closes(c)
    BY <1>7, <2>2, OthersKeepWaits DEF Safe
  <2>3. CASE Post(c)
    <3> DEFINE op == [host |-> host, number |-> handler[c].number, call |-> handler[c].call]
    <3>1. /\ Waits(c) /\ SameWaits /\ ops' = ops \cup {op} /\ UNCHANGED <<number, answer, reader>>
      BY <2>3, PostWaits DEF Post, Waits, bridge, Safe
    <3>2. /\ \A d \in Conns : Waits(d)' => Waits(d) /\ handler'[d].number = handler[d].number
                                          /\ handler'[d].call = handler[d].call
      BY <3>1 DEF SameWaits
    <3>3. \A d \in Conns : Waits(d) /\ op.number = handler[d].number => op.call = handler[d].call
      BY <1>2, <3>1
    <3>4. op.host = 1 /\ op.number <= number
      BY <1>2, <1>3, <3>1
    <3> HIDE DEF op
    <3>5. ASSUME NEW d \in Conns, Waits(d)' PROVE Own(d)'
      BY <1>4, <3>1, <3>2, <3>3, <3>5
    <3> QED BY <1>4, <1>5, <3>1, <3>4, <3>5
  <2>4. CASE PostFails(c)
    <3>1. CASE Replies(c, Error)
      BY <1>8, <2>4, <3>1, ReplyLeaves DEF PostFails, Waits, Safe
    <3>2. CASE handler' = [handler EXCEPT ![c].pc = "wait"] /\ UNCHANGED pending
      BY <1>7, <2>4, <3>2, PostWaits DEF PostFails, bridge, Safe
    <3> QED BY <2>4, <3>1, <3>2 DEF PostFails
  <2>5. CASE TakeAnswer(c)
    BY <1>8, <2>5, ReplyLeaves DEF TakeAnswer, Waits, Safe
  <2>6. CASE GiveUp(c)
    BY <1>8, <2>6, ReplyLeaves DEF GiveUp, Waits, Safe
  <2> QED BY <1>9, <2>1, <2>2, <2>3, <2>4, <2>5, <2>6 DEF Handler
<1>10. CASE \E a \in Calls : Driver(a) \/ AttemptFails(a) \/ Cancel(a)
  BY <1>7, <1>10, OthersKeepWaits DEF Safe
<1>11. CASE (\E o \in ops : Deliver(o)) \/ Reader \/ StreamCloses \/ HostSignal
  <2> UNCHANGED handler
    BY <1>11 DEF Deliver, Reader, SendAnswer, failAllPending, ReaderCloses, StreamCloses, HostSignal
  <2>1. \A d \in Conns : (Waits(d)' <=> Waits(d)) /\ handler'[d] = handler[d]
    BY DEF Waits
  <2>2. ASSUME NEW o \in ops, Deliver(o) PROVE OwnNumbered'
    <3>1. /\ UNCHANGED <<number, answer>> /\ ops' = ops \ {o}
          /\ \/ reader' = reader
             \/ reader' = [pc |-> "send", number |-> o.number, result |-> o.call]
      BY <2>2 DEF Deliver
    <3>2. ASSUME NEW d \in Conns, Waits(d)' PROVE Own(d)'
      <4>1. Own(d) /\ handler'[d] = handler[d]
        BY <1>4, <2>1, <3>2
      <4>2. CASE reader' = reader
        BY <3>1, <4>1, <4>2
      <4>3. CASE reader' = [pc |-> "send", number |-> o.number, result |-> o.call]
        BY <3>1, <4>1, <4>3
      <4> QED BY <3>1, <4>2, <4>3
    <3> QED BY <1>4, <1>5, <3>1, <3>2
  <2>3. CASE SendAnswer
    <3>1. /\ reader.pc = "send" /\ answer' = [answer EXCEPT ![reader.number] = reader.result]
          /\ reader'.pc = "read" /\ UNCHANGED <<number, ops>>
      BY <2>3 DEF SendAnswer
    <3>2. ASSUME NEW d \in Conns, Waits(d)' PROVE Own(d)'
      <4>1. Own(d) /\ handler'[d] = handler[d] /\ handler[d].number \in Numbers
        BY <1>1, <1>4, <2>1, <3>2
      <4>2. answer'[handler[d].number] \in {NoReply, Error, handler[d].call}
        BY <1>1, <3>1, <4>1
      <4> QED BY <3>1, <4>1, <4>2
    <3> QED BY <1>4, <1>5, <3>1, <3>2
  <2>4. CASE failAllPending
    <3>1. /\ answer' = [r \in Numbers |-> IF r \in pending THEN Error ELSE answer[r]]
          /\ reader'.pc = "close" /\ UNCHANGED <<number, ops>>
      BY <2>4 DEF failAllPending, Safe, TypeOK, HostTypes
    <3>2. ASSUME NEW d \in Conns PROVE Waits(d)' => Own(d)'
      <4>1. handler'[d] = handler[d] /\ (Waits(d) => handler[d].number \in Numbers)
        BY <1>1, <2>1
      <4> QED BY <1>6, <2>1, <3>1, <4>1
    <3> QED BY <1>4, <1>5, <3>1, <3>2
  <2>5. CASE ReaderCloses \/ StreamCloses \/ HostSignal
    <3>1. /\ UNCHANGED <<answer, number, ops>> /\ (reader' = reader \/ reader'.pc # "send")
      BY <2>5 DEF ReaderCloses, StreamCloses, HostSignal, Safe, TypeOK, HostTypes
    <3>2. ASSUME NEW d \in Conns PROVE Waits(d)' => Own(d)'
      BY <1>6, <2>1, <3>1
    <3> QED BY <1>4, <1>5, <3>1, <3>2
  <2> QED BY <1>11, <2>2, <2>3, <2>4, <2>5 DEF Reader
<1>12. CASE UNCHANGED vars
  BY <1>7, <1>12, OthersKeepWaits DEF Safe
<1> QED BY <1>3, <1>9, <1>10, <1>11, <1>12 DEF Next

\* The results of the first host, with everything they rest on.
LEMMA ResultsInvariant == Spec => [](host = 1 => OwnAnswers /\ OwnResponse)
<1> DEFINE Results1 == host = 1 => OwnAnswers /\ OwnResponse
<1>1. Init => Results1
  BY InitInv DEF IInv
<1>2. TypeOK /\ Lines /\ Numbered /\ Results1 /\ [Next]_vars => Results1'
  <2> SUFFICES ASSUME TypeOK, Lines, Numbered, Results1, [Next]_vars, host' = 1
               PROVE  OwnAnswers' /\ OwnResponse'
    OBVIOUS
  <2>1. Safe
    BY SameHost DEF Safe
  <2>2. OwnNumbered' /\ OwnReplied' /\ OwnLines' /\ OwnResponse'
    BY <2>1, OwnNumberedKept, OwnRepliedKept, OwnLinesKept, OwnResponseKept
  <2> QED BY <2>2 DEF OwnAnswers, OwnNumbered, OwnReplied, OwnLines
<1> QED BY <1>1, <1>2, NumbersInvariant, PTL DEF Spec

\* OwnResponseOfHost in every reachable state: while one native host lives, a call
\* returns an error or the result of its own command, whatever is cancelled, late
\* or tried again (native_host.go:180-300, 376-547; background.js posts a reply
\* under the number it was asked with).
THEOREM OwnResult == Spec => []OwnResponseOfHost
BY ResultsInvariant, PTL DEF OwnResponseOfHost

=============================================================================
