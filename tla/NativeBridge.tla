---------------------------- MODULE NativeBridge ----------------------------
(***************************************************************************)
(* The way of a browser command from the daemon to the extension and back: *)
(* ExtensionDriver.call in the daemon, the bridge socket, the native host  *)
(* process with its ExtensionBridge, and the service worker that executes  *)
(* the command (packages/client/native_host.go; background.js).            *)
(*                                                                         *)
(* The driver holds its mutex for the whole call and tries at most twice.  *)
(* The native host gives every connection a goroutine that serves its      *)
(* commands one after the other; a command waits in pendingCalls, under a  *)
(* number of that host's own counter, for the reply that the reader of the *)
(* native stream matches by number.  When Chrome closes the stream the     *)
(* host ends, and the extension opens a port to a new one; commands it was *)
(* executing for the old one go on.                                        *)
(*                                                                         *)
(* The commands are told apart by the call they come from: a result is the *)
(* call it was executed for.  Time is abstracted: a deadline may pass at   *)
(* any moment after it was set.                                            *)
(***************************************************************************)
EXTENDS Integers

CONSTANTS Calls,      \* the calls of the driver
          None,       \* no call
          MaxConns,   \* bound on the connections dialled
          MaxHosts,   \* bound on the native hosts that Chrome starts
          MaxNumber,  \* bound on the commands that a host registers
          Cancels     \* TRUE: the contexts of the calls may be cancelled

ASSUME CallsAssumption == {None, "none", "error"} \cap Calls = {}
ASSUME BoundAssumption == /\ MaxConns \in Nat /\ MaxNumber \in Nat
                          /\ MaxHosts \in Nat \ {0}
ASSUME CancelsAssumption == Cancels \in BOOLEAN

Conns   == 1..MaxConns
Hosts   == 1..MaxHosts
Numbers == 1..MaxNumber

VARIABLES
  call,       \* the driver's calls: where, which attempt, result, context
  lock,       \* the call that holds ExtensionDriver.mu
  conn,       \* ExtensionDriver.conn, 0 for nil
  closers,    \* the connections that a cancelled context is about to close
  dialled,    \* the connections made so far
  wire,       \* both ends of each connection, and the lines on it
  handler,    \* handleBridgeConnection, per connection
  host,       \* the native host that runs
  number,     \* reqCounter of its bridge
  pending,    \* pendingCalls: the numbers in the map
  answer,     \* what is in the channel of each number
  reader,     \* the goroutine of StartReader
  stream,     \* Chrome's end of the native stream is open
  ended,      \* serverCtx is cancelled
  ops         \* the commands that the service worker is executing

driver   == <<call, lock, conn, closers>>
sockets  == <<dialled, wire>>
bridge   == <<host, number, pending, answer, reader, stream, ended>>
vars     == <<driver, sockets, handler, bridge, ops>>

-----------------------------------------------------------------------------

Closed  == [client |-> FALSE, server |-> FALSE, request |-> None,
            reply |-> None]
NoReply == "none"
Error   == "error"
Results == Calls \cup {NoReply, Error}
Unborn  == [pc |-> "none", number |-> 0, call |-> None, result |-> NoReply]
Reading == [Unborn EXCEPT !.pc = "read"]
Gone    == [Unborn EXCEPT !.pc = "over"]

Init ==
  /\ call = [a \in Calls |-> [pc |-> "idle", try |-> 0, result |-> NoReply,
                              cancelled |-> FALSE]]
  /\ lock = None /\ conn = 0 /\ closers = {}
  /\ dialled = 0 /\ wire = [c \in Conns |-> Closed]
  /\ handler = [c \in Conns |-> Unborn]
  /\ host = 1 /\ number = 0
  /\ pending = {} /\ answer = [r \in Numbers |-> NoReply]
  /\ reader = [pc |-> "read", number |-> 0, result |-> NoReply]
  /\ stream = TRUE /\ ended = FALSE
  /\ ops = {}

-----------------------------------------------------------------------------
(* ExtensionDriver.call.                                                   *)

\* The context may have been cancelled while the call waited for the mutex.
Lock(a) ==
  /\ call[a].pc = "idle" /\ lock = None
  /\ lock' = a
  /\ \E cancelled \in {FALSE, Cancels} :
       call' = [call EXCEPT ![a] = [pc |-> "dial", try |-> 1, result |-> NoReply,
                                    cancelled |-> cancelled]]
  /\ UNCHANGED <<conn, closers, sockets, handler, bridge, ops>>

\* What a call leaves behind is its result.
Finish(a, result) ==
  /\ call' = [call EXCEPT ![a] = [pc |-> "done", try |-> 0, result |-> result,
                                 cancelled |-> FALSE]]
  /\ lock' = None

\* The attempts of the for loop.
Attempts == 2

\* The driver's end is closed: what was written still reaches the host, but
\* nobody reads a reply.
Hangup(c) == wire' = [wire EXCEPT ![c].client = FALSE, ![c].reply = None]

\* Mutant: the loop counts one attempt too many.
RetryOnceMore(a) ==
  /\ conn' = 0
  /\ Hangup(conn)
  /\ IF call[a].try <= Attempts
       THEN /\ call' = [call EXCEPT ![a].pc = "dial", ![a].try = @ + 1]
            /\ UNCHANGED lock
       ELSE Finish(a, Error)

\* Mutant: a failed connection is kept.
RetryKeepingConn(a) ==
  /\ UNCHANGED <<conn, wire>>
  /\ Finish(a, Error)

\* A failed attempt closes the connection; after the last one the call fails.
Retry(a) ==
  /\ conn' = 0
  /\ Hangup(conn)
  /\ IF call[a].try < Attempts
       THEN /\ call' = [call EXCEPT ![a].pc = "dial", ![a].try = @ + 1]
            /\ UNCHANGED lock
       ELSE Finish(a, Error)

\* A context that was cancelled before is attached to the connection all the
\* same, and closes it.
Attach(a) == closers' = IF call[a].cancelled THEN closers \cup {conn'}
                                             ELSE closers

Reuse(a) ==
  /\ call[a].pc = "dial" /\ conn # 0
  /\ call' = [call EXCEPT ![a].pc = "write"]
  /\ conn' = conn
  /\ Attach(a)
  /\ UNCHANGED <<lock, sockets, handler, bridge, ops>>

\* The host accepts as long as its context is alive.
Dial(a) ==
  /\ call[a].pc = "dial" /\ conn = 0
  /\ ~ended /\ dialled < MaxConns
  /\ dialled' = dialled + 1
  /\ conn' = dialled + 1
  /\ wire' = [wire EXCEPT ![dialled + 1] = [client |-> TRUE, server |-> TRUE,
                                            request |-> None, reply |-> None]]
  /\ handler' = [handler EXCEPT ![dialled + 1] = Reading]
  /\ call' = [call EXCEPT ![a].pc = "write"]
  /\ Attach(a)
  /\ UNCHANGED <<lock, bridge, ops>>

DialFails(a) ==
  /\ call[a].pc = "dial" /\ conn = 0
  /\ Finish(a, Error)
  /\ UNCHANGED <<conn, closers, sockets, handler, bridge, ops>>

Write(a) ==
  /\ call[a].pc = "write"
  /\ wire[conn].client /\ wire[conn].server
  /\ wire' = [wire EXCEPT ![conn].request = a]
  /\ call' = [call EXCEPT ![a].pc = "read"]
  /\ UNCHANGED <<lock, conn, closers, dialled, handler, bridge, ops>>

\* The connection was closed at either end, or the deadline has passed.
AttemptFails(a) ==
  /\ call[a].pc \in {"write", "read"}
  /\ Retry(a)
  /\ UNCHANGED <<closers, dialled, handler, bridge, ops>>

\* The reply must carry the identifier of the request; one that does not
\* fails the call and leaves the connection open.
Read(a) ==
  /\ call[a].pc = "read"
  /\ wire[conn].client
  /\ wire[conn].reply # None
  /\ LET reply == wire[conn].reply
     IN  Finish(a, IF reply.id = a THEN reply.result ELSE Error)
  /\ wire' = [wire EXCEPT ![conn].reply = None]
  /\ UNCHANGED <<conn, closers, dialled, handler, bridge, ops>>

\* The context of the call is cancelled: a function of its own closes the
\* connection, some time later.
Cancel(a) ==
  /\ Cancels
  /\ call[a].pc \in {"dial", "write", "read"}
  /\ ~call[a].cancelled
  /\ call' = [call EXCEPT ![a].cancelled = TRUE]
  /\ closers' = IF call[a].pc \in {"write", "read"} THEN closers \cup {conn}
                                                    ELSE closers
  /\ UNCHANGED <<lock, conn, sockets, handler, bridge, ops>>

Closes(c) ==
  /\ c \in closers
  /\ closers' = closers \ {c}
  /\ Hangup(c)
  /\ UNCHANGED <<call, lock, conn, dialled, handler, bridge, ops>>

-----------------------------------------------------------------------------
(* handleBridgeConnection and ExtensionBridge.Call in the native host.     *)

Over(c) ==
  /\ handler' = [handler EXCEPT ![c] = Gone]
  /\ wire' = [wire EXCEPT ![c].server = FALSE, ![c].request = None]

\* Mutant: the counter stays where it is.
SameNumber == IF number = 0 THEN 1 ELSE number

NextNumber == number + 1

\* A command is taken under the next number and registered.
Register(c) ==
  /\ handler[c].pc = "read"
  /\ wire[c].request # None
  /\ number < MaxNumber
  /\ number' = NextNumber
  /\ pending' = pending \cup {NextNumber}
  /\ wire' = [wire EXCEPT ![c].request = None]
  /\ handler' = [handler EXCEPT ![c] = [pc |-> "post", number |-> NextNumber,
                                        call |-> wire[c].request,
                                        result |-> NoReply]]
  /\ UNCHANGED <<driver, dialled, host, answer, reader, stream, ended, ops>>

\* The driver is gone, the host ends, or the connection has been silent until its
\* deadline: then a command that comes late is dropped with it.
ReadFails(c) ==
  /\ handler[c].pc = "read"
  /\ Over(c)
  /\ UNCHANGED <<driver, dialled, bridge, ops>>

Post(c) ==
  /\ handler[c].pc = "post"
  /\ stream
  /\ ops' = ops \cup {[host |-> host, number |-> handler[c].number,
                       call |-> handler[c].call]}
  /\ handler' = [handler EXCEPT ![c].pc = "wait"]
  /\ UNCHANGED <<driver, sockets, bridge>>

Replies(c, result) ==
  handler' = [handler EXCEPT ![c] = [pc |-> "reply", number |-> 0,
                                     call |-> handler[c].call,
                                     result |-> result]]

\* The write failed, or went into a pipe that nobody reads any more.
PostFails(c) ==
  /\ handler[c].pc = "post"
  /\ ~stream
  /\ \/ pending' = pending \ {handler[c].number} /\ Replies(c, Error)
     \/ handler' = [handler EXCEPT ![c].pc = "wait"] /\ UNCHANGED pending
  /\ UNCHANGED <<driver, sockets, host, number, answer, reader, stream,
                 ended, ops>>

TakeAnswer(c) ==
  /\ handler[c].pc = "wait"
  /\ answer[handler[c].number] # NoReply
  /\ Replies(c, answer[handler[c].number])
  /\ answer' = [answer EXCEPT ![handler[c].number] = NoReply]
  /\ UNCHANGED <<driver, sockets, host, number, pending, reader, stream, ended,
                 ops>>

\* The call's own deadline, or the end of the host.
GiveUp(c) ==
  /\ handler[c].pc = "wait"
  /\ pending' = pending \ {handler[c].number}
  /\ Replies(c, Error)
  /\ UNCHANGED <<driver, sockets, host, number, answer, reader, stream,
                 ended, ops>>

\* The deadline of the read bounds the write of its reply too.
Reply(c) ==
  /\ handler[c].pc = "reply"
  /\ \/ /\ wire[c].client
        /\ wire' = [wire EXCEPT ![c].reply = [id |-> handler[c].call,
                                             result |-> handler[c].result]]
        /\ handler' = [handler EXCEPT ![c] = Reading]
     \/ Over(c)
  /\ UNCHANGED <<driver, dialled, bridge, ops>>

-----------------------------------------------------------------------------
(* StartReader, failAllPending and the end of the host.                    *)

\* Mutant: the entry is looked up, but not deleted.
LookUpOnly(r) == pending

\* What is left in the map when the reader has looked up r.
LookUp(r) == pending \ {r}

\* The service worker has executed a command and posts the reply to the port
\* it has, whichever host the command came from.
Deliver(o) ==
  /\ o \in ops
  /\ reader.pc = "read" /\ stream
  /\ ops' = ops \ {o}
  /\ IF o.number \in pending
       THEN /\ pending' = LookUp(o.number)
            /\ reader' = [pc |-> "send", number |-> o.number,
                          result |-> o.call]
       ELSE UNCHANGED <<pending, reader>>
  /\ UNCHANGED <<driver, sockets, handler, host, number, answer, stream,
                 ended>>

\* The channel holds one answer: a second one would wait for ever.
SendAnswer ==
  /\ reader.pc = "send"
  /\ answer[reader.number] = NoReply
  /\ answer' = [answer EXCEPT ![reader.number] = reader.result]
  /\ reader' = [pc |-> "read", number |-> 0, result |-> NoReply]
  /\ UNCHANGED <<driver, sockets, handler, host, number, pending,
                 stream, ended, ops>>

StreamCloses ==
  /\ stream
  /\ stream' = FALSE
  /\ UNCHANGED <<driver, sockets, handler, host, number, pending,
                 answer, reader, ended, ops>>

failAllPending ==
  /\ reader.pc = "read" /\ ~stream
  /\ \A r \in pending : answer[r] = NoReply
  /\ answer' = [r \in Numbers |-> IF r \in pending THEN Error ELSE answer[r]]
  /\ pending' = {}
  /\ reader' = [reader EXCEPT !.pc = "close"]
  /\ UNCHANGED <<driver, sockets, handler, host, number, stream, ended,
                 ops>>

\* onClose.
ReaderCloses ==
  /\ reader.pc = "close"
  /\ ended' = TRUE
  /\ reader' = [reader EXCEPT !.pc = "over"]
  /\ UNCHANGED <<driver, sockets, handler, host, number, pending,
                 answer, stream, ops>>

\* SIGTERM or SIGINT.
HostSignal ==
  /\ ~ended
  /\ ended' = TRUE
  /\ UNCHANGED <<driver, sockets, handler, host, number, pending,
                 answer, reader, stream, ops>>

\* The process is gone with all its connections, and the extension's next
\* port starts another, which counts from one again.
HostRestarts ==
  /\ ended
  /\ host < MaxHosts
  /\ host' = host + 1
  /\ number' = 0
  /\ pending' = {} /\ answer' = [r \in Numbers |-> NoReply]
  /\ reader' = [pc |-> "read", number |-> 0, result |-> NoReply]
  /\ stream' = TRUE /\ ended' = FALSE
  /\ handler' = [c \in Conns |-> IF handler[c].pc = "none" THEN Unborn
                                                           ELSE Gone]
  /\ wire' = [c \in Conns |-> [wire[c] EXCEPT !.server = FALSE,
                                             !.request = None]]
  /\ UNCHANGED <<driver, dialled, ops>>

-----------------------------------------------------------------------------

Driver(a)  == Lock(a) \/ Reuse(a) \/ Dial(a) \/ DialFails(a) \/ Write(a)
                \/ Read(a)
Handler(c) == Register(c) \/ ReadFails(c) \/ Post(c) \/ PostFails(c)
                \/ TakeAnswer(c) \/ Reply(c)
Reader     == SendAnswer \/ failAllPending \/ ReaderCloses

Next ==
  \/ \E a \in Calls : Driver(a) \/ AttemptFails(a) \/ Cancel(a)
  \/ \E c \in Conns : Handler(c) \/ GiveUp(c) \/ Closes(c)
  \/ \E o \in ops : Deliver(o)
  \/ Reader \/ StreamCloses \/ HostSignal \/ HostRestarts

Spec == Init /\ [][Next]_vars

\* The goroutines run and deadlines pass; a host whose context has ended gives
\* up its calls.  Chrome, the extension and the deadlines of a call of the
\* bridge owe nothing.
Fairness ==
  /\ \A a \in Calls : WF_vars(Driver(a))
  /\ \A a \in Calls :
       WF_vars(/\ AttemptFails(a) /\ call[a].pc \in {"write", "read"}
               /\ ~(wire[conn].client /\ wire[conn].server))
  /\ \A c \in Conns : WF_vars(Handler(c)) /\ WF_vars(ended /\ GiveUp(c))
  /\ WF_vars(Reader)

FairSpec == Spec /\ Fairness

-----------------------------------------------------------------------------
(* Properties.                                                             *)

CallStates == [pc : {"idle", "dial", "write", "read", "done"},
               try : 0..Attempts, result : Results, cancelled : BOOLEAN]

DriverTypes ==
  /\ call \in [Calls -> CallStates]
  /\ lock \in Calls \cup {None}
  /\ conn \in 0..MaxConns /\ closers \subseteq Conns

Replied == [id : Calls, result : Results \ {NoReply}]

WireStates == [client : BOOLEAN, server : BOOLEAN,
               request : Calls \cup {None}, reply : Replied \cup {None}]

WireTypes == dialled \in 0..MaxConns /\ wire \in [Conns -> WireStates]

HandlerStates == [pc : {"none", "read", "post", "wait", "reply", "over"},
                  number : Numbers \cup {0},
                  call : Calls \cup {None}, result : Results]

HandlerTypes == handler \in [Conns -> HandlerStates]

HostTypes ==
  /\ host \in Hosts /\ number \in Numbers \cup {0}
  /\ pending \subseteq Numbers /\ answer \in [Numbers -> Results]
  /\ reader \in [pc : {"read", "send", "close", "over"},
                 number : Numbers \cup {0}, result : Results]
  /\ stream \in BOOLEAN /\ ended \in BOOLEAN
  /\ ops \subseteq [host : Hosts, number : Numbers, call : Calls]

TypeOK == DriverTypes /\ WireTypes /\ HandlerTypes /\ HostTypes

\* "Call sends a command to the Chrome extension and waits for the response"
\* (native_host.go:258): the result a call returns is the one of its own
\* command, never of another call's.  False across a restart of the native host.
OwnResponse ==
  \A a \in Calls : call[a].result \in {NoReply, Error, a}

\* It holds as long as the native host is not replaced, whatever is cancelled,
\* late or tried again: the numbers of one host tell its commands apart.
OwnResponseOfHost == host = 1 => OwnResponse

\* The driver and the host stay in step on a connection: when a call writes
\* its request, no line of an earlier call is under way on it.
InStep ==
  \A a \in Calls : call[a].pc = "write" =>
    wire[conn].request = None /\ wire[conn].reply = None
      /\ (wire[conn].client => handler[conn].pc \in {"read", "over"})

\* pendingCalls holds exactly what somebody waits for, with an empty channel:
\* no entry outlives its call, and neither an answer nor failAllPending, which
\* sends under the bridge's mutex, ever blocks on a channel that holds an
\* answer already (native_host.go:227-256, 287-291).
PendingAwaited ==
  /\ \A r \in pending :
       /\ answer[r] = NoReply
       /\ \E c \in Conns : handler[c].pc \in {"post", "wait"}
                             /\ handler[c].number = r
  /\ reader.pc = "send" => answer[reader.number] = NoReply
                             /\ reader.number \notin pending

\* When Chrome closes the stream, a call under way comes to its end without
\* waiting for its deadline, even one whose command was registered after
\* failAllPending (native_host.go:189-201, 339, 378).
LossEndsCalls ==
  \A a \in Calls : ~stream /\ call[a].pc # "idle"
                     ~> call[a].pc = "done" \/ stream
=============================================================================
