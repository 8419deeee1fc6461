---------------------------- MODULE OrgCliProofs ----------------------------
(***************************************************************************)
(* What holds of one invocation for every message size, every pipe         *)
(* capacity, every kind and amount of noise the server may write unasked,  *)
(* and a signal at any moment.                                             *)
(***************************************************************************)
EXTENDS OrgCli, TransportProofs

CliStepOrSignal == CliNext \/ Signalled

(* The conversation: the messages an invocation sends, in order.           *)
Hello == Request(1, "initialize")
TheRequest == Request(2, Method(command))
Scripted(i) == IF i = 1 THEN Hello ELSE IF i = 2 THEN Initialized ELSE TheRequest

Finished == {"print", "leave", "unwind"}

(* How far the conversation has come is told by where the library is, and  *)
(* where the library is by where run() is.                                 *)
ControlInv ==
    /\ at \in {"start", "spawned", "initialize", "initialized", "ready", "call",
               "returned", "failed"}
    /\ stage \in {"run", "connect", "discard", "call", "exited"} \cup Finished
    /\ command \in Commands
    /\ at \in {"start", "spawned"} => Len(sent) = 0 /\ next_id = 1
    /\ at = "initialize" => Len(sent) = 1 /\ next_id = 2
    /\ at \in {"initialized", "ready"} => Len(sent) = 2 /\ next_id = 2
    /\ at \in {"call", "returned"} => Len(sent) = 3 /\ next_id = 3
    /\ at = "failed" => Len(sent) \in 0..2 /\ next_id \in {1, 2}
    /\ \A i \in DOMAIN sent : sent[i] = Scripted(i)
    /\ at # "start" => command \in Remote
    /\ stage = "run" => at = "start"
    /\ stage = "connect" => at \in {"spawned", "initialize", "initialized", "ready", "failed"}
    /\ stage = "discard" => at = "failed"
    /\ stage = "call" => at \in {"call", "returned"}
    /\ stage \in Finished => at \in {"start", "failed", "returned"}

(* The child is none of a transport that never was, and reaped when the    *)
(* transport is dropped; a process that exits by itself has dropped it.    *)
ReapInv ==
    /\ op = "start" => proc = "none"
    /\ op = "dropped" => proc \in {"none", "reaped"}
    /\ Exited /\ exit # SignalCode => op \in {"start", "dropped"}

(* The server carries out each message once, in order: what it has decided *)
(* and done is a matter of how many it has served.                         *)
ServedInv ==
    /\ served \in 0..Len(heard)
    /\ reply \in Seq(Json) /\ Len(reply) <= 1
    /\ served < 3 => answers \subseteq Responses(Hello) /\ applied = <<>>
    /\ served = 3 =>
        \E response \in Responses(TheRequest) :
            /\ answers \subseteq Responses(Hello) \cup {response}
            /\ applied = IF Applies(TheRequest, response) THEN <<TheRequest>> ELSE <<>>

(* Every line on its way is an answer the server decided on, or noise.     *)
LinesInv ==
    /\ reply # <<>> => reply[1] \in answers
    /\ \A i \in DOMAIN written : written[i] \in answers \cup Noise
    /\ ret.tag = "json" => ret.json \in answers \cup Noise
    /\ ret = Failed(SpawnError) => op = "dropped"

(* What the library returned is the answer to its last request, or an      *)
(* error that says nothing of the server.                                  *)
Answered(id, result) ==
    \/ \E value \in ResultValues : result = Received(value) /\ ResultOf(id, value) \in answers
    \/ \E code \in {-32603, -32000, MethodNotFound} :
           result = Failed(ToolError(code)) /\ ErrorOf(id, code) \in answers
    \/ \E why \in TransportFailures : result = Failed(TransportError(why))
    \/ \E why \in ProtocolFailures : result = Failed(ProtocolError(why))

OutcomeInv ==
    /\ Len(sent) >= 2 => ResultOf(1, "caps") \in answers
    /\ at = "returned" => Answered(2, outcome)
    /\ at = "failed" => outcome.tag = "error"
                        /\ (outcome = Failed(SpawnError) \/ Answered(1, outcome))

(* What may be printed, and why.                                           *)
Justified(env) ==
    \/ command = "schema" /\ env = Success("schema")
    \/ command \in {"schema", "usage"} /\ env = UsageError
    \/ /\ command \in Remote /\ at = "returned"
       /\ \E value \in ResultValues : env = Success(value) /\ ResultOf(2, value) \in answers
    \/ /\ command \in Remote /\ at = "returned"
       /\ \E code \in {-32603, -32000, MethodNotFound} :
              env \in {Error("tool", code, 1), ToolMissing} /\ ErrorOf(2, code) \in answers
    \/ command \in Remote /\ env = Error("transport", -1, 3)
    \/ /\ command \in Remote /\ at = "failed"
       /\ \/ env = Error("transport", -1, 4)
          \/ \E code \in {-32603, -32000, MethodNotFound} : env = Error("tool", code, 1)

EnvelopeInv ==
    /\ stage \in Finished \/ printed # <<>> => Justified(envelope)
    /\ printed \in {<<>>, <<envelope>>}
    /\ stage \notin {"leave", "exited"} => printed = <<>>
    /\ stage = "leave" => printed = <<envelope>>
    /\ Exited => \/ exit = PanicCode /\ printed = <<>>
                 \/ exit = SignalCode
                 \/ exit = envelope.exit_code /\ printed = <<envelope>>
    /\ ~Exited => exit = None
    /\ readable \in BOOLEAN
----------------------------------------------------------------------------
(* Who takes a step, and whose state it leaves alone.                      *)

(* A step is of the CLI, of its client, of the transport (after the exit   *)
(* only the kernel), of the server, of whoever reads stdout, or a signal.  *)
LEMMA Parties ==
    [CliStepOrSignal]_vars =>
        \/ CliStep /\ ~Exited
        \/ ClientStep /\ ~Exited /\ UNCHANGED <<serverVars, cliVars>>
        \/ /\ MainStep \/ ReaderStep \/ KillTakesEffect
           /\ Exited => KillTakesEffect
           /\ UNCHANGED <<clientVars, serverVars, cliVars>>
        \/ ServerActs /\ UNCHANGED <<clientVars, cliVars>>
        \/ ConsumerLeaves \/ Signalled \/ UNCHANGED vars
BY DEF CliStepOrSignal, CliNext, MainThread, ReaderThread, Kernel, Environment, Exited

----------------------------------------------------------------------------
(* Whoever takes a step of an invocation takes one of the transport, or    *)
(* leaves it alone: what was proved of Transport holds here.               *)

(* What the client may send are messages of the transport.                 *)
LEMMA MessagesSent ==
    /\ Hello \in Messages /\ Initialized \in Messages /\ TheRequest \in Messages
    /\ \A cmd : Method(cmd) \in {"tools/list", "tools/call"}
BY MessagesAreTheClients DEF ClientMessages, Hello, TheRequest, Method

(* Every step of the whole is a step of the transport or leaves it alone,  *)
(* so what TransportProofs shows carries over.                             *)
LEMMA TransportStep ==
    ControlInv /\ ServedInv /\ [CliStepOrSignal]_vars => [Next]_transportVars
<1> SUFFICES ASSUME ControlInv, ServedInv, [CliStepOrSignal]_vars, ~(UNCHANGED transportVars)
             PROVE  Next
  OBVIOUS
<1>1. CASE CliStep \/ ClientStep
  <2>1. CASE RunRemotely
    BY <2>1 DEF RunRemotely, Connect, ConnectCannotSpawn, Next, UserStep
  <2>2. CASE DiscardClient \/ ScopeEnds
    BY <2>2 DEF DiscardClient, ScopeEnds, Next, UserStep
  <2>3. CASE CallServer
    <3>1. at = "ready" /\ Send(Request(next_id, Method(command)))
      BY <2>3 DEF CallServer, Call, StartRequest
    <3>2. Send(TheRequest)
      BY <3>1 DEF ControlInv, TheRequest
    <3>. QED
      BY <3>2, MessagesSent DEF Next, UserStep
  <2>4. CASE Initialize
    <3>1. at = "spawned" /\ Send(Request(next_id, "initialize"))
      BY <2>4 DEF Initialize, StartRequest
    <3>2. Send(Hello)
      BY <3>1 DEF ControlInv, Hello
    <3>. QED
      BY <3>2, MessagesSent DEF Next, UserStep
  <2>5. CASE NotifyInitialized
    BY <2>5, MessagesSent DEF NotifyInitialized, Next, UserStep
  <2>6. CASE AwaitResponse
    BY <2>6 DEF AwaitResponse, Next, UserStep
  <2>. QED
    BY <1>1, <2>1, <2>2, <2>3, <2>4, <2>5, <2>6
       DEF CliStep, ClientStep, RunLocally, ReportConnectError, ReportResult, PrintEnvelope,
           PrintPanics, Exit, HandshakeFails, NotifyReturns, CallReturns
<1>2. CASE MainStep \/ ReaderStep \/ KillTakesEffect
  BY <1>2 DEF Next
<1>3. CASE ServerActs
  <2>1. CASE ServerHears \/ ServerFinishesLine
    BY <2>1 DEF ServerHears, ServerFinishesLine, Next, ServerStep
  <2>2. CASE ServerReplies
    <3>1. reply # <<>> /\ ServerWrites(reply[1])
      BY <2>2 DEF ServerReplies
    <3>2. reply \in Seq(Json) /\ Len(reply) \in Nat \ {0}
      BY <3>1, EmptySeq, LenProperties DEF ServedInv
    <3>3. reply[1] \in Lines
      BY <3>2, ElementOfSeq DEF Lines
    <3>. QED
      BY <3>1, <3>3 DEF Next, ServerStep
  <2>3. CASE MakeNoise
    BY <2>3, NoiseAnswersNothing DEF MakeNoise, Next, ServerStep
  <2>4. CASE ServerFails
    BY <2>4 DEF ServerFails, Next, ServerStep
  <2>. QED
    BY <1>3, <2>1, <2>2, <2>3, <2>4
       DEF ServerActs, ServerWorks, ServeRequest, ServeNotification
<1>. QED
  BY <1>1, <1>2, <1>3
     DEF CliStepOrSignal, CliNext, MainThread, ReaderThread, Kernel, Environment,
         ConsumerLeaves, Signalled, vars

----------------------------------------------------------------------------
(* The conversation.                                                       *)

(* One more message, the next of the script.                               *)
LEMMA SayNext ==
    ASSUME NEW s \in Seq(Messages), NEW n \in 0..2, Len(s) = n,
           \A i \in DOMAIN s : s[i] = Scripted(i)
    PROVE  /\ Len(Append(s, Scripted(n + 1))) = n + 1
           /\ \A i \in DOMAIN Append(s, Scripted(n + 1)) :
                  Append(s, Scripted(n + 1))[i] = Scripted(i)
<1>1. Scripted(n + 1) \in Messages
  BY MessagesSent DEF Scripted
<1>2. DOMAIN s = 1..n
  BY LenProperties
<1>. QED
  BY <1>1, <1>2, AppendProperties

(* Sending moves the conversation on by the message it should; nothing     *)
(* else is ever sent.                                                      *)
LEMMA ControlInductive ==
    TypeOK /\ ControlInv /\ [CliStepOrSignal]_vars => ControlInv'
<1> SUFFICES ASSUME TypeOK, ControlInv, [CliStepOrSignal]_vars PROVE ControlInv'
  OBVIOUS
<1>types. sent \in Seq(Messages) /\ DOMAIN sent = 1..Len(sent)
  BY LenProperties DEF TypeOK
<1>script. ASSUME command' = command, NEW i PROVE Scripted(i)' = Scripted(i)
  BY <1>script DEF Scripted, Hello, TheRequest
<1> USE DEF Finished
<1>a. CASE UNCHANGED <<at, next_id, sent, stage, command>>
  BY <1>a, <1>script DEF ControlInv
<1>b. CASE RunLocally
  BY <1>b, <1>script DEF RunLocally, ControlInv, clientVars, transportVars, Commands, Remote
<1>c. CASE RunRemotely
  <2>1. /\ at = "start" /\ at' \in {"spawned", "failed"} /\ stage' = "connect"
        /\ command \in Remote
        /\ UNCHANGED <<next_id, sent, command>>
    BY <1>c DEF RunRemotely, Connect, ConnectCannotSpawn, SpawnServer, SpawnFails, userVars
  <2>. QED
    BY <2>1, <1>script DEF ControlInv
<1>d. CASE \/ (Initialize \/ NotifyInitialized) /\ UNCHANGED cliVars
           \/ CallServer
  <2>1. \/ at = "spawned" /\ at' = "initialize" /\ next_id' = next_id + 1
           /\ stage' = stage /\ sent' = Append(sent, Request(next_id, "initialize"))
        \/ at = "initialize" /\ at' = "initialized" /\ next_id' = next_id
           /\ stage' = stage /\ sent' = Append(sent, Initialized)
        \/ at = "ready" /\ at' = "call" /\ next_id' = next_id + 1
           /\ stage = "connect" /\ stage' = "call"
           /\ sent' = Append(sent, Request(next_id, Method(command)))
    BY <1>d DEF Initialize, NotifyInitialized, CallServer, Call, StartRequest, Send, cliVars
  <2>2. command' = command
    BY <1>d DEF CallServer, cliVars
  <2>3. ASSUME NEW n \in 0..2, Len(sent) = n, sent' = Append(sent, Scripted(n + 1))
        PROVE  Len(sent') = n + 1 /\ \A i \in DOMAIN sent' : sent'[i] = Scripted(i)'
    <3>1. \A i \in DOMAIN sent : sent[i] = Scripted(i)
      BY DEF ControlInv
    <3>. QED
      BY ONLY <1>types, <1>script, <2>2, <2>3, <3>1, SayNext
  <2>4. CASE at = "spawned"
    <3>1. Len(sent) = 0 /\ sent' = Append(sent, Scripted(0 + 1))
      BY <2>1, <2>4 DEF ControlInv, Scripted, Hello
    <3>2. Len(sent') = 1 /\ \A i \in DOMAIN sent' : sent'[i] = Scripted(i)'
      BY <2>3, <3>1
    <3>. QED
      BY <2>1, <2>2, <2>4, <3>2 DEF ControlInv
  <2>5. CASE at = "initialize"
    <3>1. Len(sent) = 1 /\ sent' = Append(sent, Scripted(1 + 1))
      BY <2>1, <2>5 DEF ControlInv, Scripted
    <3>2. Len(sent') = 2 /\ \A i \in DOMAIN sent' : sent'[i] = Scripted(i)'
      BY <2>3, <3>1
    <3>. QED
      BY <2>1, <2>2, <2>5, <3>2 DEF ControlInv
  <2>6. CASE at = "ready"
    <3>1. Len(sent) = 2 /\ sent' = Append(sent, Scripted(2 + 1))
      BY <2>1, <2>6 DEF ControlInv, Scripted, TheRequest
    <3>2. Len(sent') = 3 /\ \A i \in DOMAIN sent' : sent'[i] = Scripted(i)'
      BY <2>3, <3>1
    <3>. QED
      BY <2>1, <2>2, <2>6, <3>2 DEF ControlInv
  <2>. QED
    BY <2>1, <2>4, <2>5, <2>6
<1>e. CASE (HandshakeFails \/ NotifyReturns \/ CallReturns) /\ UNCHANGED cliVars
  <2>1. /\ \/ at = "initialize" /\ at' = "failed"
           \/ at = "initialized" /\ at' \in {"ready", "failed"}
           \/ at = "call" /\ at' = "returned"
        /\ UNCHANGED <<next_id, sent, stage, command>>
    BY <1>e DEF HandshakeFails, NotifyReturns, CallReturns, transportVars, cliVars
  <2>. QED
    BY <2>1, <1>script DEF ControlInv
<1>f. CASE DiscardClient \/ ReportConnectError \/ ReportResult
  <2>1. /\ \/ stage = "connect" /\ at = "failed" /\ stage' = "discard"
           \/ stage = "discard" /\ stage' = "print"
           \/ stage = "call" /\ at = "returned" /\ stage' = "print"
        /\ UNCHANGED <<at, next_id, sent, command>>
    BY <1>f DEF DiscardClient, ReportConnectError, ReportResult, Drop, transportVars,
                clientVars, userVars
  <2>. QED
    BY <2>1, <1>script DEF ControlInv
<1>g. CASE PrintEnvelope \/ PrintPanics \/ Exit \/ Signalled
  <2>1. /\ \/ stage = "print" /\ stage' \in {"leave", "unwind"}
           \/ stage' = "exited"
        /\ UNCHANGED <<at, next_id, sent, command>>
    BY <1>g DEF PrintEnvelope, PrintPanics, Exit, Signalled, transportVars, clientVars
  <2>. QED
    BY <2>1, <1>script DEF ControlInv
<1>h. \/ UNCHANGED <<at, next_id, sent, stage, command>>
      \/ RunLocally \/ RunRemotely \/ CallServer
      \/ /\ \/ Initialize \/ NotifyInitialized
            \/ HandshakeFails \/ NotifyReturns \/ CallReturns
         /\ UNCHANGED cliVars
      \/ DiscardClient \/ ReportConnectError \/ ReportResult
      \/ PrintEnvelope \/ PrintPanics \/ Exit \/ Signalled
  <2> USE DEF procVars, inVars, outVars, readerVars, callVars, userVars, clientVars, cliVars
  <2>1. CASE /\ MainStep \/ ReaderStep \/ KillTakesEffect
             /\ UNCHANGED <<clientVars, serverVars, cliVars>>
    BY <2>1 DEF MainStep, ReaderStep, WriteChunk, WriteFails, RecvLine, RecvTimeout,
                RecvDisconnected, Kill, Wait, ReadLine, ReadEof, ChannelSend,
                KillTakesEffect, ChildGone
  <2>2. CASE ServerActs /\ UNCHANGED <<clientVars, cliVars>>
    BY <2>2 DEF ServerActs, ServerWorks, ServerHears, ServeRequest, ServeNotification,
                ServerReplies, ServerFinishesLine, MakeNoise, ServerFails,
                ServerReads, ServerWrites, ServerEndsLine, ChildExits, ChildGone,
                CloseStdin, CloseStdout, transportVars
  <2>3. CASE CliStep
    BY <2>3 DEF CliStep, ScopeEnds, Drop
  <2>4. CASE ClientStep /\ UNCHANGED <<serverVars, cliVars>>
    BY <2>4 DEF ClientStep, AwaitResponse, Recv
  <2>5. CASE ConsumerLeaves \/ Signalled \/ UNCHANGED vars
    BY <2>5 DEF ConsumerLeaves, transportVars, vars
  <2>. QED
    BY Parties, <2>1, <2>2, <2>3, <2>4, <2>5
<1>. QED
  BY <1>a, <1>b, <1>c, <1>d, <1>e, <1>f, <1>g, <1>h

----------------------------------------------------------------------------
(* The child.                                                              *)

(* The child of a dropped transport is reaped.                             *)
LEMMA ReapInductive ==
    ReapInv /\ [Next]_transportVars /\ [CliStepOrSignal]_vars => ReapInv'
<1> SUFFICES ASSUME ReapInv, [Next]_transportVars, [CliStepOrSignal]_vars PROVE ReapInv'
  OBVIOUS
<1>1. /\ op' = "start" => proc' = "none"
      /\ op' = "dropped" => proc' \in {"none", "reaped"}
  <2> USE DEF ReapInv, procVars, callVars
  <2>1. CASE MainStep \/ ReaderStep
    BY <2>1 DEF MainStep, ReaderStep, WriteChunk, WriteFails, RecvLine, RecvTimeout,
                RecvDisconnected, Kill, Wait, ReadLine, ReadEof, ChannelSend
  <2>2. CASE UserStep
    BY <2>2 DEF UserStep, SpawnServer, SpawnFails, Send, Recv, Drop
  <2>3. CASE ServerStep \/ KillTakesEffect
    BY <2>3 DEF ServerStep, ChildExits, ChildGone, CloseStdin, CloseStdout, ServerReads,
                ServerWrites, ServerEndsLine, KillTakesEffect
  <2>4. CASE UNCHANGED transportVars
    BY <2>4 DEF transportVars
  <2>. QED
    BY <2>1, <2>2, <2>3, <2>4 DEF Next
<1>2. Exited' /\ exit' # SignalCode => op' \in {"start", "dropped"}
  <2> USE DEF ReapInv, Exited, cliVars
  <2>1. CASE ~Exited /\ UNCHANGED cliVars
    BY <2>1
  <2>2. CASE /\ ServerActs \/ KillTakesEffect
             /\ UNCHANGED cliVars
    BY <2>2 DEF ServerActs, ServerWorks, ServerHears, ServeRequest, ServeNotification,
                ServerReplies, ServerFinishesLine, MakeNoise, ServerFails,
                ServerReads, ServerWrites, ServerEndsLine, ChildExits, ChildGone,
                CloseStdin, CloseStdout, KillTakesEffect, transportVars, callVars
  <2>3. CASE CliStep
    BY <2>3 DEF CliStep, RunLocally, RunRemotely, DiscardClient, ReportConnectError,
                CallServer, ReportResult, PrintEnvelope, PrintPanics, ScopeEnds, Exit,
                transportVars
  <2>4. CASE ConsumerLeaves \/ Signalled \/ UNCHANGED vars
    BY <2>4 DEF ConsumerLeaves, Signalled, vars, transportVars
  <2>. QED
    BY Parties, <2>1, <2>2, <2>3, <2>4
<1>. QED
  BY <1>1, <1>2 DEF ReapInv

----------------------------------------------------------------------------
(* The server.                                                             *)

(* What a response looks like: the id of its request, and one result or    *)
(* one error.                                                              *)
LEMMA ResponsesAre ==
    ASSUME NEW id, NEW method, NEW response \in Responses(Request(id, method))
    PROVE  \/ \E value \in Results(method) : response = ResultOf(id, value)
           \/ \E code \in Errors(method) : response = ErrorOf(id, code)
BY DEF Responses, Request

(* What the server may answer: JSON, and never to a notification.          *)
LEMMA RequestsAreAnswered ==
    /\ Responses(Hello) \subseteq Json /\ Responses(TheRequest) \subseteq Json
    /\ Responses(Initialized) = {}
    /\ Results("initialize") = {"caps", "plain"}
    /\ Results("tools/list") = {"tools", "plain"}
    /\ Results("tools/call") = {"content", "isError", "plain"}
<1>1. Hello \in ClientMessages /\ TheRequest \in ClientMessages
  BY DEF ClientMessages, Hello, TheRequest, Method
<1>2. \A m \in ClientMessages : Responses(m) \subseteq Json
  BY ResponsesAreJson
<1>3. Responses(Initialized) = {}
  BY DEF Responses, Initialized, Notification
<1>. QED
  BY <1>1, <1>2, <1>3 DEF Results

(* The server has heard at most what was said.                             *)
LEMMA HeardScript ==
    ASSUME TypeOK, ControlInv, HeardInOrder
    PROVE  /\ Len(heard) \in 0..3 /\ Len(sent) \in 0..3 /\ Len(heard) <= Len(sent)
           /\ \A i \in 1..Len(heard) : heard[i] = Scripted(i)
<1>1. /\ DOMAIN sent = 1..Len(sent) /\ DOMAIN heard = 1..Len(heard)
      /\ Len(sent) \in Nat /\ Len(heard) \in Nat
  BY LenProperties DEF TypeOK
<1>2. Len(sent) \in 0..3
  BY <1>1 DEF ControlInv
<1>. QED
  BY <1>1, <1>2 DEF HeardInOrder, ControlInv

(* The server serves the script in its order, one effect at most, and      *)
(* what it owes or has sent are its own answers.                           *)
LEMMA ServedInductive ==
    TypeOK /\ ControlInv /\ HeardInOrder /\ ServedInv
        /\ [Next]_transportVars /\ [CliStepOrSignal]_vars
            => ServedInv'
<1> SUFFICES ASSUME TypeOK, ControlInv, HeardInOrder, ServedInv,
                    [Next]_transportVars, [CliStepOrSignal]_vars
             PROVE  ServedInv'
  OBVIOUS
<1>heard. /\ Len(heard) \in 0..3
          /\ \A i \in 1..Len(heard) : heard[i] = Scripted(i)
  BY HeardScript
<1>command. command' = command /\ TheRequest' = TheRequest
  <2>1. command' = command
    BY Parties DEF CliStep, RunLocally, RunRemotely, DiscardClient, ReportConnectError,
                   CallServer, ReportResult, PrintEnvelope, PrintPanics, ScopeEnds, Exit,
                   ConsumerLeaves, Signalled, cliVars, vars
  <2>. QED
    BY <2>1 DEF TheRequest
<1>a. CASE UNCHANGED <<served, reply, answers, applied>>
  <2>1. Len(heard') \in Nat /\ Len(heard') >= Len(heard)
    <3>1. heard' = heard \/ \E m \in Messages : heard' = Append(heard, m)
      <4>1. CASE ServerReads
        <5>1. stdin \in Seq(Chunk) /\ stdin # <<>>
          BY <4>1 DEF ServerReads, TypeOK, Chunk
        <5>2. Head(stdin) \in Chunk
          BY <5>1, HeadTailProperties
        <5>. QED
          BY <4>1, <5>2 DEF ServerReads, Chunk
      <4>2. CASE UNCHANGED heard
        BY <4>2
      <4>3. ServerReads \/ UNCHANGED heard
        BY DEF Next, MainStep, ReaderStep, ServerStep, UserStep, SpawnServer, SpawnFails,
               Send, WriteChunk, WriteFails, Recv, RecvLine, RecvTimeout, RecvDisconnected,
               Drop, Kill, Wait, ReadLine, ReadEof, ChannelSend, KillTakesEffect,
               ChildExits, ChildGone, CloseStdin, CloseStdout, ServerWrites,
               ServerEndsLine, transportVars, inVars
      <4>. QED
        BY <4>1, <4>2, <4>3
    <3>2. heard \in Seq(Messages) /\ Len(heard) \in Nat
      BY LenProperties DEF TypeOK
    <3>. QED
      BY <3>1, <3>2, AppendProperties
  <2>. QED
    BY <1>a, <1>heard, <1>command, <2>1 DEF ServedInv, Applies
<1>b. CASE ServeRequest
  <2>1. PICK response \in Responses(heard[served + 1]) :
            /\ reply' = <<response>>
            /\ answers' = answers \cup {response}
            /\ applied' = IF Applies(heard[served + 1], response)
                          THEN applied \o <<heard[served + 1]>> ELSE applied
    BY <1>b DEF ServeRequest
  <2>2. /\ served < Len(heard) /\ served' = served + 1 /\ heard' = heard
        /\ served \in 0..2 /\ heard[served + 1] = Scripted(served + 1)
    <3>1. served < Len(heard) /\ served' = served + 1
      BY <1>b DEF ServeRequest
    <3>2. heard' = heard
      BY <1>b DEF ServeRequest, transportVars
    <3>3. PICK n \in 0..3 : n = Len(heard) /\ served \in 0..n
      BY <1>heard, Zenon DEF ServedInv
    <3>4. served \in 0..2 /\ served + 1 \in 1..Len(heard)
      BY ONLY <3>1, <3>3
    <3>. QED
      BY <3>1, <3>2, <3>4, <1>heard
  <2>3. served # 1
    BY <2>1, <2>2, RequestsAreAnswered DEF Scripted
  <2>4. CASE served = 0
    <3>1. heard[served + 1] = Hello /\ response \in Responses(Hello) /\ response \in Json
      BY <2>1, <2>2, <2>4, RequestsAreAnswered DEF Scripted
    <3>2. ~Applies(Hello, response)
      BY DEF Applies, Hello, Request
    <3>3. reply' \in Seq(Json) /\ Len(reply') = 1
      BY <2>1, <3>1, SingletonType
    <3>. QED
      BY <1>heard, <2>1, <2>2, <2>4, <3>1, <3>2, <3>3 DEF ServedInv
  <2>5. CASE served = 2
    <3>1. heard[served + 1] = TheRequest /\ response \in Responses(TheRequest)
          /\ response \in Json
      BY <2>1, <2>2, <2>5, RequestsAreAnswered DEF Scripted
    <3>2. reply' \in Seq(Json) /\ Len(reply') = 1
      BY <2>1, <3>1, SingletonType
    <3>3. applied = <<>> /\ answers \subseteq Responses(Hello)
      BY <2>5 DEF ServedInv
    <3>4. <<>> \o <<TheRequest>> = <<TheRequest>>
      BY MessagesSent, ConcatEmptySeq, SingletonType
    <3>5. applied' = IF Applies(TheRequest, response) THEN <<TheRequest>> ELSE <<>>
      BY <2>1, <3>1, <3>3, <3>4
    <3>6. answers' \subseteq Responses(Hello) \cup {response}
      BY <2>1, <3>3
    <3>7. served' = 3 /\ served' \in 0..Len(heard')
      BY <1>heard, <2>2, <2>5
    <3>. QED
      BY <1>command, <3>1, <3>2, <3>5, <3>6, <3>7 DEF ServedInv, Applies
  <2>. QED
    BY <2>2, <2>3, <2>4, <2>5
<1>c. CASE ServeNotification
  <2>1. /\ served < Len(heard) /\ served' = served + 1
        /\ served \in 0..2 /\ Scripted(served + 1).id = {}
        /\ UNCHANGED <<heard, reply, answers, applied>>
    BY <1>c, <1>heard DEF ServeNotification, transportVars, ServedInv
  <2>2. served = 1
    BY <2>1 DEF Scripted, Hello, TheRequest, Request
  <2>. QED
    BY <1>heard, <2>1, <2>2 DEF ServedInv
<1>d. CASE ServerReplies
  <2>1. <<>> \in Seq(Json) /\ Len(<<>>) = 0
    BY EmptySeq
  <2>2. reply' = <<>> /\ UNCHANGED <<served, answers, applied, heard>>
    BY <1>d DEF ServerReplies, ServerWrites, inVars
  <2>. QED
    BY <1>command, <2>1, <2>2 DEF ServedInv, Applies
<1>e. \/ UNCHANGED <<served, reply, answers, applied>>
      \/ ServeRequest \/ ServeNotification \/ ServerReplies
  BY Parties DEF CliStep, RunLocally, RunRemotely, DiscardClient, ReportConnectError,
                 CallServer, ReportResult, PrintEnvelope, PrintPanics, ScopeEnds, Exit,
                 ConsumerLeaves, Signalled, vars, ServerActs, ServerWorks, ServerHears,
                 ServerFinishesLine, MakeNoise, ServerFails, serverVars
<1>. QED
  BY <1>a, <1>b, <1>c, <1>d, <1>e

----------------------------------------------------------------------------
(* The answers on their way, and what becomes of them.                     *)

Codes == {-32603, -32000, MethodNotFound}

(* What the server has decided on answers the first or the second request. *)
LEMMA AnswerShape ==
    ASSUME ServedInv, Len(heard) \in 0..3, NEW answer \in answers
    PROVE  \E id \in {1, 2} :
               \/ \E value \in ResultValues : answer = ResultOf(id, value)
               \/ \E code \in Codes : answer = ErrorOf(id, code)
<1>1. answer \in Responses(Hello) \/ answer \in Responses(TheRequest)
  <2>1. CASE served < 3
    BY <2>1 DEF ServedInv
  <2>2. CASE served = 3
    <3>1. PICK response \in Responses(TheRequest) :
              answers \subseteq Responses(Hello) \cup {response}
      BY <2>2, Zenon DEF ServedInv
    <3>. QED
      BY <3>1
  <2>3. served < 3 \/ served = 3
    <3>1. PICK n \in 0..3 : served \in 0..n
      BY Zenon DEF ServedInv
    <3>. QED
      BY ONLY <3>1
  <2>. QED
    BY <2>1, <2>2, <2>3
<1>2. Results("initialize") \subseteq ResultValues /\ Results(Method(command)) \subseteq ResultValues
  BY RequestsAreAnswered, MessagesSent DEF ResultValues
<1>3. Errors("initialize") \subseteq Codes /\ Errors(Method(command)) \subseteq Codes
  BY DEF Errors, Codes
<1>. QED
  BY <1>1, <1>2, <1>3, ResponsesAre DEF Hello, TheRequest

(* Noise matches no request: it has another id, or nothing to say.         *)
LEMMA NoiseIsRefused ==
    ASSUME NEW line \in Noise \cap Json, NEW id \in {1, 2}, line.id \in {{}, {id}}
    PROVE  line.error = {} /\ line.result = {}
<1>1. line.id \cap {1, 2} = {}
  BY NoiseAnswersNothing
<1>2. line.id # {id}
  BY <1>1
<1>. QED
  BY <1>2, NoiseAnswersNothing

(* Client::request returns the answer to its own request, or an error of   *)
(* its own making.                                                         *)
LEMMA MatchedAnswer ==
    ASSUME TypeOK, ServedInv, LinesInv, Len(heard) \in 0..3, Returned,
           NEW id \in {1, 2}, next_id = id + 1, NEW result \in RequestOutcome
    PROVE  Answered(id, result)
<1>id. next_id - 1 = id
  OBVIOUS
<1>1. CASE ret.tag = "error"
  <2>1. result = ret
    BY <1>1 DEF RequestOutcome
  <2>2. \/ ret = Failed(SpawnError)
        \/ \E why \in TransportFailures : ret = Failed(TransportError(why))
    BY <1>1 DEF TypeOK, NoRet, Done, Received
  <2>. QED
    BY <2>1, <2>2 DEF LinesInv, Returned, Answered
<1>2. CASE ret.tag = "json"
  <2>1. PICK line \in Json : ret = Received(line)
    BY <1>2 DEF TypeOK, NoRet, Done, Failed
  <2>2. ret.json = line /\ ret.tag # "error"
    BY <2>1 DEF Received
  <2>3. line \in answers \/ line \in Noise
    BY <1>2, <2>2 DEF LinesInv
  <2> DEFINE errors == ResponseErrors(line, id)
  <2>4. result \in IF errors # {} THEN {Failed(e) : e \in errors}
                   ELSE {Received(value) : value \in line.result}
    BY <1>id, <2>2 DEF RequestOutcome
  <2>5. CASE line.id \notin {{}, {id}}
    <3>1. errors = {ProtocolError("id")}
      BY <2>5 DEF ResponseErrors
    <3>. QED
      BY <2>4, <3>1 DEF Answered, ProtocolFailures
  <2>6. CASE line.id \in {{}, {id}} /\ line.error = {} /\ line.result = {}
    <3>1. errors = {ProtocolError("result")}
      BY <2>6 DEF ResponseErrors
    <3>. QED
      BY <2>4, <3>1 DEF Answered, ProtocolFailures
  <2>7. CASE line.id \in {{}, {id}} /\ (line.error # {} \/ line.result # {})
    <3>1. line \in answers
      BY <2>1, <2>3, <2>7, NoiseIsRefused
    <3>2. PICK from \in {1, 2} :
              \/ \E value \in ResultValues : line = ResultOf(from, value)
              \/ \E code \in Codes : line = ErrorOf(from, code)
      BY <3>1, AnswerShape
    <3>3. from = id
      <4>1. line.id = {from}
        BY <3>2 DEF ResultOf, ErrorOf, Response
      <4>2. {from} # {}
        OBVIOUS
      <4>3. {from} = {id}
        BY <2>7, <4>1, <4>2
      <4>. QED
        BY ONLY <4>3
    <3>4. ASSUME NEW value \in ResultValues, line = ResultOf(id, value)
          PROVE  Answered(id, result)
      <4>1. line.id = {id} /\ line.error = {} /\ line.result = {value}
        BY <3>4 DEF ResultOf, Response
      <4>2. errors = {}
        BY <4>1 DEF ResponseErrors
      <4>3. result = Received(value)
        BY <2>4, <4>1, <4>2
      <4>. QED
        BY <3>1, <3>4, <4>3 DEF Answered
    <3>5. ASSUME NEW code \in Codes, line = ErrorOf(id, code)
          PROVE  Answered(id, result)
      <4>1. line.id = {id} /\ line.error = {code} /\ line.result = {}
        BY <3>5 DEF ErrorOf, Response
      <4>2. errors = {ToolError(code)}
        BY <4>1 DEF ResponseErrors
      <4>3. result = Failed(ToolError(code))
        BY <2>4, <4>2
      <4>. QED
        BY <3>1, <3>5, <4>3 DEF Answered, Codes
    <3>. QED
      BY <3>2, <3>3, <3>4, <3>5
  <2>. QED
    BY <2>5, <2>6, <2>7
<1>. QED
  BY <1>1, <1>2 DEF Returned

(* An answer once decided on stays one.                                    *)
LEMMA AnswersGrow == [CliStepOrSignal]_vars => answers \subseteq answers'
BY Parties DEF CliStep, RunLocally, RunRemotely, DiscardClient, ReportConnectError,
               CallServer, ReportResult, PrintEnvelope, PrintPanics, ScopeEnds, Exit,
               ConsumerLeaves, Signalled, vars, ServerActs, ServerWorks, ServerHears,
               ServerFinishesLine, MakeNoise, ServerFails, serverVars, ServeRequest,
               ServeNotification, ServerReplies

(* A line written is an answer or noise, and so is a line received.        *)
LEMMA LinesInductive ==
    TypeOK /\ NothingLost /\ LinesInv /\ [Next]_transportVars /\ [CliStepOrSignal]_vars
        => LinesInv'
<1> SUFFICES ASSUME TypeOK, NothingLost, LinesInv,
                    [Next]_transportVars, [CliStepOrSignal]_vars
             PROVE  LinesInv'
  OBVIOUS
<1>types. /\ written \in Seq(Lines) /\ DOMAIN written = 1..Len(written)
          /\ Len(written) \in Nat
  BY LenProperties DEF TypeOK
<1>grow. answers \subseteq answers'
  BY AnswersGrow
<1>1. reply' # <<>> => reply'[1] \in answers'
  <2>1. reply' = reply \/ ServeRequest \/ reply' = <<>>
    BY Parties DEF CliStep, RunLocally, RunRemotely, DiscardClient, ReportConnectError,
                   CallServer, ReportResult, PrintEnvelope, PrintPanics, ScopeEnds, Exit,
                   ConsumerLeaves, Signalled, vars, ServerActs, ServerWorks, ServerHears,
                   ServerFinishesLine, MakeNoise, ServerFails, serverVars,
                   ServeNotification, ServerReplies
  <2>2. CASE ServeRequest
    BY <2>2 DEF ServeRequest
  <2>. QED
    BY <1>grow, <2>1, <2>2 DEF LinesInv
<1>2. \A i \in DOMAIN written' : written'[i] \in answers' \cup Noise
  <2>1. \/ UNCHANGED written
        \/ \E line \in Lines : line \in answers \cup Noise /\ written' = Append(written, line)
    <3>1. CASE ServerReplies \/ MakeNoise
      <4>1. \E line : line \in answers \cup Noise /\ ServerWrites(line)
        BY <3>1 DEF ServerReplies, MakeNoise, LinesInv
      <4>2. written' \in Seq(Lines)
        BY TypeInductive DEF TypeOK
      <4>3. PICK line \in answers \cup Noise : written' = Append(written, line)
        BY <4>1 DEF ServerWrites
      <4>4. written'[Len(written) + 1] = line /\ Len(written') = Len(written) + 1
        BY <1>types, <4>3
      <4>5. line \in Lines
        BY <1>types, <4>2, <4>4, ElementOfSeq
      <4>. QED
        BY <4>3, <4>5
    <3>2. CASE ServerActs /\ ~(ServerReplies \/ MakeNoise)
      BY <3>2 DEF ServerActs, ServerWorks, ServerHears, ServeRequest, ServeNotification,
                  ServerFinishesLine, ServerFails, ServerReads, ServerEndsLine, ChildExits,
                  ChildGone, CloseStdin, CloseStdout, outVars, transportVars
    <3>3. CASE MainStep \/ ReaderStep \/ KillTakesEffect
      BY <3>3 DEF MainStep, ReaderStep, WriteChunk, WriteFails, RecvLine, RecvTimeout,
                  RecvDisconnected, Kill, Wait, ReadLine, ReadEof, ChannelSend,
                  KillTakesEffect, ChildGone, outVars
    <3>4. CASE CliStep \/ ClientStep
      BY <3>4 DEF CliStep, RunLocally, RunRemotely, DiscardClient, ReportConnectError,
                  CallServer, ReportResult, PrintEnvelope, PrintPanics, ScopeEnds, Exit,
                  ClientStep, Initialize, AwaitResponse, HandshakeFails, NotifyInitialized,
                  NotifyReturns, CallReturns, Connect, ConnectCannotSpawn, Call,
                  StartRequest, SpawnServer, SpawnFails, Send, Recv, Drop,
                  outVars, transportVars
    <3>. QED
      BY Parties, <3>1, <3>2, <3>3, <3>4
         DEF ConsumerLeaves, Signalled, vars, transportVars
  <2>2. CASE UNCHANGED written
    BY <1>grow, <2>2 DEF LinesInv
  <2>3. ASSUME NEW line \in Lines, line \in answers \cup Noise, written' = Append(written, line)
        PROVE  \A i \in DOMAIN written' : written'[i] \in answers' \cup Noise
    <3>1. /\ Len(written') = Len(written) + 1 /\ DOMAIN written' = 1..Len(written) + 1
          /\ \A i \in 1..Len(written) : written'[i] = written[i]
          /\ written'[Len(written) + 1] = line
      BY <1>types, <2>3, AppendProperties
    <3>2. \A i \in 1..Len(written) : written[i] \in answers' \cup Noise
      BY <1>grow, <1>types DEF LinesInv
    <3>. QED
      BY <1>grow, <1>types, <2>3, <3>1, <3>2
  <2>. QED
    BY <2>1, <2>2, <2>3
<1>3. /\ ret'.tag = "json" => ret'.json \in answers' \cup Noise
      /\ ret' = Failed(SpawnError) => op' = "dropped"
  <2>1. CASE RecvLine
    <3>1. chan # <<>> /\ op # "dropped" /\ ret' = Parse(Head(chan))
      BY <2>1 DEF RecvLine
    <3>2. Len(got) < Len(written) /\ written[Len(got) + 1] = Head(chan)
      BY <3>1, ChannelHead
    <3>3. Len(got) + 1 \in DOMAIN written
      BY <1>types, <3>2, LenProperties DEF TypeOK
    <3>4. Head(chan) \in answers \cup Noise
      BY <3>2, <3>3 DEF LinesInv
    <3>5. \/ ret' = Received(Head(chan))
          \/ \E why \in {"read", "parse"} : ret' = Failed(TransportError(why))
      BY <3>1 DEF Parse
    <3>. QED
      BY <1>grow, <3>4, <3>5 DEF Received, Failed, TransportError, SpawnError
  <2>2. CASE ret' = ret /\ (op = "dropped" => op' = "dropped")
    BY <1>grow, <2>2 DEF LinesInv
  <2>3. CASE \/ ret' = NoRet \/ ret' = Done \/ (ret' = Failed(SpawnError) /\ op' = "dropped")
             \/ \E why \in TransportFailures : ret' = Failed(TransportError(why))
    BY <2>3 DEF NoRet, Done, Failed, SpawnError, TransportError
  <2>4. \/ RecvLine
        \/ ret' = ret /\ (op = "dropped" => op' = "dropped")
        \/ ret' = NoRet \/ ret' = Done \/ (ret' = Failed(SpawnError) /\ op' = "dropped")
        \/ \E why \in TransportFailures : ret' = Failed(TransportError(why))
    <3> USE DEF callVars
    <3>0. {"write", "timeout", "eof"} \subseteq TransportFailures
      BY DEF TransportFailures
    <3>1. CASE WriteFails \/ RecvTimeout \/ RecvDisconnected
      <4>1. \E why \in {"write", "timeout", "eof"} : ret' = Failed(TransportError(why))
        BY <3>1 DEF WriteFails, RecvTimeout, RecvDisconnected
      <4>. QED
        BY <3>0, <4>1
    <3>2. CASE WriteChunk \/ Kill \/ Wait \/ ReaderStep
      <4>1. CASE WriteChunk
        BY <4>1 DEF WriteChunk
      <4>2. CASE Kill \/ Wait
        BY <4>2 DEF Kill, Wait
      <4>3. CASE ReaderStep
        BY <4>3 DEF ReaderStep, ReadLine, ReadEof, ChannelSend
      <4>. QED
        BY <3>2, <4>1, <4>2, <4>3
    <3>3. CASE UserStep
      <4>1. CASE \E seconds \in {0, 30} : SpawnServer(seconds)
        BY <4>1 DEF SpawnServer
      <4>2. CASE SpawnFails
        BY <4>2 DEF SpawnFails
      <4>3. CASE Recv \/ \E message \in Messages : Send(message)
        BY <4>3 DEF Recv, Send
      <4>4. CASE Drop
        BY <4>4 DEF Drop
      <4>. QED
        BY <3>3, <4>1, <4>2, <4>3, <4>4 DEF UserStep
    <3>4. CASE ServerStep \/ KillTakesEffect
      BY <3>4 DEF ServerStep, ChildExits, ChildGone, CloseStdin, CloseStdout, ServerReads,
                  ServerWrites, ServerEndsLine, KillTakesEffect
    <3>5. CASE UNCHANGED transportVars
      BY <3>5 DEF transportVars
    <3>. QED
      BY <3>1, <3>2, <3>3, <3>4, <3>5 DEF Next, MainStep
  <2>. QED
    BY <2>1, <2>2, <2>3, <2>4
<1>. QED
  BY <1>1, <1>2, <1>3 DEF LinesInv

(* The outcome of a library call is what its request was answered with, or *)
(* a failure on the way; the second request is made only of a server that  *)
(* said it has tools.                                                      *)
LEMMA OutcomeInductive ==
    TypeOK /\ ControlInv /\ HeardInOrder /\ ServedInv /\ LinesInv /\ OutcomeInv
        /\ [CliStepOrSignal]_vars
            => OutcomeInv'
<1> SUFFICES ASSUME TypeOK, ControlInv, HeardInOrder, ServedInv, LinesInv, OutcomeInv,
                    [CliStepOrSignal]_vars
             PROVE  OutcomeInv'
  OBVIOUS
<1>grow. answers \subseteq answers'
  BY AnswersGrow
<1>heard. Len(heard) \in 0..3
  BY HeardScript
<1>answered. ASSUME NEW id, NEW result, Answered(id, result) PROVE Answered(id, result)'
  BY <1>grow, <1>answered DEF Answered
<1>a. CASE UNCHANGED <<at, outcome, sent>>
  BY <1>a, <1>grow, <1>answered DEF OutcomeInv
<1>b. CASE RunRemotely
  <2>1. /\ at' = "spawned" \/ (at' = "failed" /\ outcome' = Failed(SpawnError))
        /\ at = "start" /\ sent' = sent
    BY <1>b DEF RunRemotely, Connect, ConnectCannotSpawn, SpawnServer, SpawnFails, userVars
  <2>. QED
    BY <1>grow, <2>1 DEF OutcomeInv, Failed
<1>c. CASE Initialize
  <2>1. Len(sent') = 1 /\ at' = "initialize"
    <3>1. sent \in Seq(Messages) /\ Len(sent) = 0 /\ next_id = 1
          /\ sent' = Append(sent, Request(next_id, "initialize")) /\ at' = "initialize"
      BY <1>c DEF Initialize, StartRequest, Send, TypeOK, ControlInv
    <3>2. Request(next_id, "initialize") \in Messages
      BY <3>1, MessagesSent DEF Hello
    <3>. QED
      BY <3>1, <3>2, AppendType
  <2>. QED
    BY <2>1 DEF OutcomeInv
<1>d. CASE HandshakeFails
  <2>1. PICK result \in RequestOutcome :
            CapabilityChecked(result).tag = "error" /\ outcome' = CapabilityChecked(result)
    BY <1>d DEF HandshakeFails
  <2>2. Answered(1, result)
    BY <1>d, <1>heard, MatchedAnswer DEF HandshakeFails, ControlInv
  <2>3. Answered(1, CapabilityChecked(result))
    BY <2>2 DEF CapabilityChecked, Answered, ProtocolFailures
  <2>. QED
    BY <1>d, <1>grow, <1>answered, <2>1, <2>3 DEF HandshakeFails, OutcomeInv, transportVars
<1>e. CASE NotifyInitialized
  <2>1. PICK result \in RequestOutcome : CapabilityChecked(result).tag = "json"
    BY <1>e DEF NotifyInitialized
  <2>2. Answered(1, result)
    BY <1>e, <1>heard, MatchedAnswer DEF NotifyInitialized, ControlInv
  <2>3. ASSUME NEW value, result = Received(value) PROVE value = "caps"
    <3>1. result.tag = "json" /\ result.json = value
      BY <2>3 DEF Received
    <3>. QED
      BY <2>1, <3>1 DEF CapabilityChecked, Failed
  <2>4. ResultOf(1, "caps") \in answers
    <3>1. ASSUME NEW error, result = Failed(error) PROVE FALSE
      BY <2>1, <3>1 DEF CapabilityChecked, Failed
    <3>. QED
      BY <2>2, <2>3, <3>1 DEF Answered
  <2>. QED
    BY <1>e, <1>grow, <2>4 DEF NotifyInitialized, OutcomeInv
<1>f. CASE NotifyReturns
  <2>1. /\ sent' = sent /\ at = "initialized"
        /\ \/ at' = "ready"
           \/ ret.tag = "error" /\ op = "idle" /\ at' = "failed" /\ outcome' = ret
    BY <1>f DEF NotifyReturns, transportVars
  <2>2. CASE at' = "ready"
    BY <1>grow, <2>1, <2>2 DEF OutcomeInv
  <2>3. CASE ret.tag = "error" /\ op = "idle" /\ at' = "failed" /\ outcome' = ret
    <3>1. \E why \in TransportFailures : ret = Failed(TransportError(why))
      BY <2>3 DEF TypeOK, LinesInv, NoRet, Done, Received
    <3>. QED
      BY <1>grow, <1>answered, <2>1, <2>3, <3>1 DEF OutcomeInv, Answered
  <2>. QED
    BY <2>1, <2>2, <2>3
<1>g. CASE CallServer
  <2>1. at' = "call" /\ at = "ready"
    BY <1>g DEF CallServer, Call
  <2>. QED
    BY <1>grow, <2>1 DEF OutcomeInv, ControlInv
<1>h. CASE CallReturns
  <2>1. PICK result \in RequestOutcome :
            outcome' = ToolsChecked(result, sent[Len(sent)].method)
    BY <1>h DEF CallReturns
  <2>2. Answered(2, result)
    BY <1>h, <1>heard, MatchedAnswer DEF CallReturns, ControlInv
  <2>3. Answered(2, outcome')
    BY <2>1, <2>2 DEF ToolsChecked, Answered, ProtocolFailures
  <2>. QED
    BY <1>h, <1>grow, <1>answered, <2>3 DEF CallReturns, OutcomeInv, transportVars
<1>i. \/ UNCHANGED <<at, outcome, sent>>
      \/ RunRemotely \/ Initialize \/ HandshakeFails \/ NotifyInitialized \/ NotifyReturns
      \/ CallServer \/ CallReturns
  <2> USE DEF clientVars, userVars
  <2>1. CASE CliStep
    BY <2>1 DEF CliStep, RunLocally, DiscardClient, ReportConnectError, ReportResult,
                PrintEnvelope, PrintPanics, ScopeEnds, Exit, Drop, transportVars
  <2>2. CASE ClientStep
    BY <2>2 DEF ClientStep, AwaitResponse, Recv
  <2>3. CASE /\ MainStep \/ ReaderStep \/ KillTakesEffect
             /\ UNCHANGED clientVars
    BY <2>3 DEF MainStep, ReaderStep, WriteChunk, WriteFails, RecvLine, RecvTimeout,
                RecvDisconnected, Kill, Wait, ReadLine, ReadEof, ChannelSend,
                KillTakesEffect, ChildGone
  <2>4. CASE ServerActs /\ UNCHANGED clientVars
    BY <2>4 DEF ServerActs, ServerWorks, ServerHears, ServeRequest, ServeNotification,
                ServerReplies, ServerFinishesLine, MakeNoise, ServerFails,
                ServerReads, ServerWrites, ServerEndsLine, ChildExits, ChildGone,
                CloseStdin, CloseStdout, transportVars
  <2>. QED
    BY Parties, <2>1, <2>2, <2>3, <2>4
       DEF ConsumerLeaves, Signalled, vars, transportVars
<1>. QED
  BY <1>a, <1>b, <1>c, <1>d, <1>e, <1>f, <1>g, <1>h, <1>i

----------------------------------------------------------------------------
(* The envelope.                                                           *)

(* What handle_mcp_error makes of each class of error.                     *)
LEMMA ErrorEnvelopes ==
    /\ McpErrorEnvelope(SpawnError) = Error("transport", -1, 4)
    /\ \A code : McpErrorEnvelope(ToolError(code)) = Error("tool", code, 1)
    /\ \A why : McpErrorEnvelope(TransportError(why)) = Error("transport", -1, 3)
    /\ \A why : McpErrorEnvelope(ProtocolError(why)) = Error("transport", -1, 3)
BY DEF McpErrorEnvelope, KindStr, RpcCode, ExitCode, SpawnError, ToolError, TransportError,
       ProtocolError

(* The fields of an outcome that brought JSON.                             *)
LEMMA ReceivedIs == \A json : Received(json).tag = "json" /\ Received(json).json = json
BY DEF Received

(* The fields of an outcome that is an error.                              *)
LEMMA FailedIs == \A error : Failed(error).tag = "error" /\ Failed(error).error = error
BY DEF Failed

(* Each way to the print stage brings an envelope that can be justified.   *)
LEMMA ReportsJustified ==
    ASSUME ControlInv, OutcomeInv
    PROVE  /\ at = "failed" => Justified(McpErrorEnvelope(outcome.error))
           /\ at = "returned" => Justified(EnvelopeFor(command, outcome))
<1>1. ASSUME at = "failed" PROVE Justified(McpErrorEnvelope(outcome.error))
  <2>1. command \in Remote
    BY <1>1 DEF ControlInv
  <2>2. CASE outcome = Failed(SpawnError)
    BY <1>1, <2>1, <2>2, FailedIs, ErrorEnvelopes DEF Justified
  <2>3. CASE \E code \in Codes : outcome = Failed(ToolError(code))
    BY <1>1, <2>1, <2>3, FailedIs, ErrorEnvelopes DEF Justified, Codes
  <2>4. CASE \E why : outcome = Failed(TransportError(why)) \/ outcome = Failed(ProtocolError(why))
    BY <2>1, <2>4, FailedIs, ErrorEnvelopes DEF Justified
  <2>. QED
    BY <1>1, <2>2, <2>3, <2>4, ReceivedIs DEF OutcomeInv, Answered, Codes
<1>2. ASSUME at = "returned" PROVE Justified(EnvelopeFor(command, outcome))
  <2>1. command \in Remote /\ Answered(2, outcome)
    BY <1>2 DEF ControlInv, OutcomeInv
  <2>2. ASSUME NEW value \in ResultValues, outcome = Received(value),
               ResultOf(2, value) \in answers
        PROVE  Justified(EnvelopeFor(command, outcome))
    <3>1. EnvelopeFor(command, outcome) = Success(value)
      BY <2>2, ReceivedIs DEF EnvelopeFor
    <3>. QED
      BY <1>2, <2>1, <2>2, <3>1 DEF Justified
  <2>3. ASSUME NEW code \in Codes, outcome = Failed(ToolError(code)),
               ErrorOf(2, code) \in answers
        PROVE  Justified(EnvelopeFor(command, outcome))
    <3>1. EnvelopeFor(command, outcome) \in {Error("tool", code, 1), ToolMissing}
      BY <2>3, FailedIs, ErrorEnvelopes DEF EnvelopeFor
    <3>. QED
      BY <1>2, <2>1, <2>3, <3>1 DEF Justified, Codes
  <2>4. ASSUME NEW why, outcome = Failed(TransportError(why)) \/ outcome = Failed(ProtocolError(why))
        PROVE  Justified(EnvelopeFor(command, outcome))
    <3>1. /\ outcome.tag = "error"
          /\ outcome.error = TransportError(why) \/ outcome.error = ProtocolError(why)
      BY <2>4, FailedIs
    <3>2. outcome.error # ToolError(MethodNotFound)
      BY <3>1 DEF TransportError, ProtocolError, ToolError
    <3>3. EnvelopeFor(command, outcome) = Error("transport", -1, 3)
      BY <3>1, <3>2, ErrorEnvelopes DEF EnvelopeFor
    <3>. QED
      BY <2>1, <3>3 DEF Justified
  <2>. QED
    BY <2>1, <2>2, <2>3, <2>4 DEF Answered, Codes
<1>. QED
  BY <1>1, <1>2

(* What justified an envelope goes on to do so.                            *)
LEMMA StillJustified ==
    ASSUME ControlInv, [CliStepOrSignal]_vars, stage \in Finished \cup {"exited"},
           NEW env, Justified(env)
    PROVE  Justified(env)'
<1>1. answers \subseteq answers'
  BY AnswersGrow
<1>2. at' = at /\ command' = command
  <2> USE DEF ControlInv, Exited, Finished
  <2>1. CASE CliStep
    BY <2>1 DEF CliStep, RunLocally, RunRemotely, DiscardClient, ReportConnectError,
                CallServer, ReportResult, PrintEnvelope, PrintPanics, ScopeEnds, Exit,
                clientVars, cliVars
  <2>2. CASE ClientStep /\ ~Exited
    BY <2>2 DEF ClientStep, Initialize, AwaitResponse, HandshakeFails, NotifyInitialized,
                NotifyReturns, CallReturns
  <2>. QED
    BY Parties, <2>1, <2>2 DEF ConsumerLeaves, Signalled, vars, clientVars, cliVars
<1>. QED
  BY <1>1, <1>2 DEF Justified

(* An envelope is justified and printed once, and the exit code is its     *)
(* own.                                                                    *)
LEMMA EnvelopeInductive ==
    ControlInv /\ OutcomeInv /\ EnvelopeInv /\ [CliStepOrSignal]_vars => EnvelopeInv'
<1> SUFFICES ASSUME ControlInv, OutcomeInv, EnvelopeInv, [CliStepOrSignal]_vars
             PROVE  EnvelopeInv'
  OBVIOUS
<1> USE DEF Exited, Finished
<1>read. readable' \in BOOLEAN
  <2>1. readable' = readable \/ readable' = FALSE
    BY Parties DEF CliStep, RunLocally, RunRemotely, DiscardClient, ReportConnectError,
                   CallServer, ReportResult, PrintEnvelope, PrintPanics, ScopeEnds, Exit,
                   ConsumerLeaves, Signalled, cliVars, vars
  <2>2. readable \in BOOLEAN
    BY Zenon DEF EnvelopeInv
  <2>. QED
    BY <2>1, <2>2, Zenon
<1>still. ASSUME stage \in Finished \cup {"exited"}, Justified(envelope), envelope' = envelope
          PROVE  Justified(envelope)'
  BY <1>still, StillJustified DEF Justified
<1>a. CASE UNCHANGED <<stage, envelope, printed, exit>>
  BY <1>a, <1>read, <1>still DEF EnvelopeInv
<1>b. CASE RunLocally
  <2>1. /\ stage = "run" /\ stage' = "print" /\ UNCHANGED <<at, command, printed, exit>>
        /\ \/ command = "schema" /\ envelope' \in {Success("schema"), UsageError}
           \/ command = "usage" /\ envelope' = UsageError
    BY <1>b DEF RunLocally, clientVars
  <2>2. Justified(envelope)'
    BY <2>1 DEF Justified
  <2>. QED
    BY <1>read, <2>1, <2>2 DEF EnvelopeInv
<1>c. CASE RunRemotely \/ DiscardClient \/ CallServer
  <2>1. /\ stage \in {"run", "connect"} /\ stage' \in {"connect", "discard", "call"}
        /\ UNCHANGED <<envelope, printed, exit>>
    BY <1>c DEF RunRemotely, DiscardClient, CallServer
  <2>. QED
    BY <1>read, <2>1 DEF EnvelopeInv
<1>d. CASE ReportConnectError \/ ReportResult
  <2>1. /\ stage \in {"discard", "call"} /\ stage' = "print"
        /\ \/ at = "failed" /\ envelope' = McpErrorEnvelope(outcome.error)
           \/ at = "returned" /\ envelope' = EnvelopeFor(command, outcome)
        /\ UNCHANGED <<at, command, answers, printed, exit>>
    BY <1>d DEF ReportConnectError, ReportResult, ControlInv, clientVars, serverVars
  <2>2. Justified(envelope)'
    BY <2>1, ReportsJustified DEF Justified
  <2>. QED
    BY <1>read, <2>1, <2>2 DEF EnvelopeInv
<1>e. CASE PrintEnvelope
  <2>1. /\ stage = "print" /\ stage' = "leave" /\ printed' = Append(printed, envelope)
        /\ UNCHANGED <<envelope, exit>>
    BY <1>e DEF PrintEnvelope
  <2>2. printed' = <<envelope>>
    BY <2>1 DEF EnvelopeInv
  <2>. QED
    BY <1>read, <1>still, <2>1, <2>2 DEF EnvelopeInv
<1>f. CASE PrintPanics
  BY <1>f, <1>read, <1>still DEF PrintPanics, EnvelopeInv
<1>g. CASE Exit
  <2>1. /\ stage \in {"leave", "unwind"} /\ stage' = "exited"
        /\ exit' = IF stage = "unwind" THEN PanicCode ELSE envelope.exit_code
        /\ UNCHANGED <<envelope, printed>>
    BY <1>g DEF Exit
  <2>. QED
    BY <1>read, <1>still, <2>1 DEF EnvelopeInv
<1>h. CASE Signalled
  <2>1. /\ stage # "exited" /\ stage' = "exited" /\ exit' = SignalCode
        /\ UNCHANGED <<envelope, printed>>
    BY <1>h DEF Signalled
  <2>2. printed # <<>> => stage = "leave"
    BY <2>1 DEF EnvelopeInv
  <2>. QED
    BY <1>read, <1>still, <2>1, <2>2 DEF EnvelopeInv
<1>i. \/ UNCHANGED <<stage, envelope, printed, exit>>
      \/ RunLocally \/ RunRemotely \/ DiscardClient \/ CallServer
      \/ ReportConnectError \/ ReportResult \/ PrintEnvelope \/ PrintPanics \/ Exit
      \/ Signalled
  BY Parties DEF CliStep, ScopeEnds, ConsumerLeaves, cliVars, vars
<1>. QED
  BY <1>a, <1>b, <1>c, <1>d, <1>e, <1>f, <1>g, <1>h, <1>i

----------------------------------------------------------------------------
(* The inductive invariant of an invocation: the transport's, and one part *)
(* for each party.                                                         *)

CliInv ==
    /\ TypeOK /\ NothingLost /\ StdinInv /\ HeardInOrder
    /\ ControlInv /\ ReapInv /\ ServedInv /\ LinesInv /\ OutcomeInv /\ EnvelopeInv

(* Every step keeps the whole inductive invariant.                         *)
LEMMA CliInvInductive == CliInv /\ [CliStepOrSignal]_vars => CliInv'
<1> SUFFICES ASSUME CliInv, [CliStepOrSignal]_vars PROVE CliInv'
  OBVIOUS
<1>1. [Next]_transportVars
  BY TransportStep DEF CliInv
<1>2. TypeOK' /\ NothingLost' /\ StdinInv' /\ HeardInOrder'
  BY <1>1, TypeInductive, PipelineInductive, HeardInductive DEF CliInv
<1>3. ControlInv' /\ ReapInv' /\ ServedInv'
  BY <1>1, ControlInductive, ReapInductive, ServedInductive DEF CliInv
<1>4. LinesInv' /\ OutcomeInv' /\ EnvelopeInv'
  BY <1>1, LinesInductive, OutcomeInductive, EnvelopeInductive DEF CliInv
<1>. QED
  BY <1>2, <1>3, <1>4 DEF CliInv

(* An invocation starts as a transport does.                               *)
LEMMA CliInvHolds == SignalledSpec => []CliInv
<1>1. CliInit => Init
  BY DEF CliInit, ClientInit
<1>2. Init => TypeOK /\ NothingLost /\ StdinInv /\ HeardInOrder
  BY InitialTypes, NoLinesYet, NoMessagesYet
<1>3. CliInit => ControlInv /\ ReapInv /\ ServedInv /\ LinesInv /\ OutcomeInv /\ EnvelopeInv
  <2> SUFFICES ASSUME CliInit
               PROVE  ControlInv /\ ReapInv /\ ServedInv /\ LinesInv /\ OutcomeInv /\ EnvelopeInv
    OBVIOUS
  <2>1. /\ at = "start" /\ stage = "run" /\ op = "start" /\ proc = "none"
        /\ command \in Commands /\ next_id = 1 /\ served = 0 /\ exit = None
        /\ answers = {} /\ ret = NoRet
        /\ sent = <<>> /\ heard = <<>> /\ written = <<>> /\ reply = <<>>
        /\ applied = <<>> /\ printed = <<>>
    BY DEF CliInit, ClientInit, ServerInit, Init
  <2>2. /\ Len(sent) = 0 /\ Len(heard) = 0 /\ Len(reply) = 0 /\ reply \in Seq(Json)
        /\ DOMAIN sent = {} /\ DOMAIN written = {}
    BY <2>1, EmptySeq
  <2>3. readable \in BOOLEAN
    BY Zenon DEF CliInit
  <2>4. ControlInv
    BY <2>1, <2>2 DEF ControlInv, Finished
  <2>5. ReapInv
    BY <2>1 DEF ReapInv, Exited
  <2>6. ServedInv
    BY <2>1, <2>2 DEF ServedInv
  <2>7. LinesInv
    BY <2>1, <2>2 DEF LinesInv, NoRet, Failed
  <2>8. OutcomeInv
    BY <2>1, <2>2 DEF OutcomeInv
  <2>9. EnvelopeInv
    BY <2>1, <2>3 DEF EnvelopeInv, Finished, Exited
  <2>. QED
    BY <2>4, <2>5, <2>6, <2>7, <2>8, <2>9
<1>. QED
  BY <1>1, <1>2, <1>3, CliInvInductive, PTL DEF SignalledSpec, CliInv, CliStepOrSignal

----------------------------------------------------------------------------
(* What follows of an invocation's reachable states.                       *)

(* What the answer to the second request says of the effect.               *)
LEMMA SecondAnswer ==
    ASSUME ServedInv, Len(heard) \in 0..3, NEW answer \in answers, answer.id = {2}
    PROVE  /\ served = 3
           /\ answer \in Responses(TheRequest)
           /\ applied = IF Applies(TheRequest, answer) THEN <<TheRequest>> ELSE <<>>
<1>1. answer \notin Responses(Hello)
  <2>1. ASSUME answer \in Responses(Hello) PROVE answer.id = {1}
    BY <2>1, ResponsesAre DEF Hello, ResultOf, ErrorOf, Response
  <2>2. {1} # {2}
    OBVIOUS
  <2>. QED
    BY <2>1, <2>2
<1>2. served = 3
  <2>1. PICK n \in 0..3 : served \in 0..n
    BY Zenon DEF ServedInv
  <2>2. ~(served < 3)
    BY <1>1 DEF ServedInv
  <2>. QED
    BY ONLY <2>1, <2>2
<1>3. PICK response \in Responses(TheRequest) :
          /\ answers \subseteq Responses(Hello) \cup {response}
          /\ applied = IF Applies(TheRequest, response) THEN <<TheRequest>> ELSE <<>>
  BY <1>2, Zenon DEF ServedInv
<1>4. answer = response
  BY <1>1, <1>3
<1>. QED
  BY <1>2, <1>3, <1>4

(* Only a tool call can have an effect, and only one that was heard.       *)
LEMMA NoEffectWithout ==
    ASSUME CliInv, Len(sent) < 3 \/ command = "list"
    PROVE  applied = <<>>
<1>1. Len(heard) \in 0..3 /\ Len(sent) \in 0..3 /\ Len(heard) <= Len(sent)
  BY HeardScript DEF CliInv
<1>2. PICK n \in 0..3 : served \in 0..n /\ n = Len(heard)
  BY <1>1, Zenon DEF CliInv, ServedInv
<1>3. CASE served < 3
  BY <1>3 DEF CliInv, ServedInv
<1>4. CASE served = 3
  <2>1. command = "list"
    BY <1>1, <1>2, <1>4
  <2>2. \A response : ~Applies(TheRequest, response)
    BY <2>1 DEF Applies, TheRequest, Request, Method
  <2>. QED
    BY <1>4, <2>2 DEF CliInv, ServedInv
<1>. QED
  BY <1>2, <1>3, <1>4

(* An error of the tool means that the call had no effect.                 *)
LEMMA NoEffectOnError ==
    ASSUME CliInv, NEW code, ErrorOf(2, code) \in answers
    PROVE  served = 3 /\ applied = <<>>
<1>1. ErrorOf(2, code).id = {2} /\ ErrorOf(2, code).result = {}
  BY DEF ErrorOf, Response
<1>2. Len(heard) \in 0..3
  BY HeardScript DEF CliInv
<1>3. ~Applies(TheRequest, ErrorOf(2, code))
  BY <1>1 DEF Applies
<1>. QED
  BY <1>1, <1>2, <1>3, SecondAnswer DEF CliInv

(* A result that is content means that it had one.                         *)
LEMMA EffectOnSuccess ==
    ASSUME CliInv, NEW value \in ResultValues, ResultOf(2, value) \in answers
    PROVE  /\ served = 3
           /\ Method(command) = "tools/call" /\ value # "isError" => applied = <<TheRequest>>
<1>1. ResultOf(2, value).id = {2} /\ ResultOf(2, value).result = {value}
      /\ ResultOf(2, value).error = {}
  BY DEF ResultOf, Response
<1>2. Len(heard) \in 0..3
  BY HeardScript DEF CliInv
<1>3. /\ served = 3 /\ ResultOf(2, value) \in Responses(TheRequest)
      /\ applied = IF Applies(TheRequest, ResultOf(2, value)) THEN <<TheRequest>> ELSE <<>>
  BY <1>1, <1>2, SecondAnswer DEF CliInv
<1>4. ASSUME Method(command) = "tools/call", value # "isError"
      PROVE  Applies(TheRequest, ResultOf(2, value))
  <2>1. value \in Results("tools/call")
    <3>1. CASE \E v \in Results(Method(command)) : ResultOf(2, value) = ResultOf(2, v)
      BY <1>1, <1>4, <3>1 DEF ResultOf, Response
    <3>2. CASE \E c \in Errors(Method(command)) : ResultOf(2, value) = ErrorOf(2, c)
      BY <1>1, <3>2 DEF ErrorOf, Response
    <3>. QED
      BY <1>3, <3>1, <3>2, ResponsesAre DEF TheRequest
  <2>2. value \in Effective
    BY <1>4, <2>1, RequestsAreAnswered DEF Effective
  <2>. QED
    BY <1>1, <1>4, <2>2 DEF Applies, TheRequest, Request
<1>. QED
  BY <1>3, <1>4

(* A history of at most one event.                                         *)
LEMMA AtMostOne ==
    ASSUME NEW s, NEW e, s = <<>> \/ s = <<e>>
    PROVE  Len(s) <= 1 /\ (s = <<>> \/ Len(s) = 1)
<1>1. CASE s = <<>>
  BY <1>1
<1>2. CASE s = <<e>>
  BY <1>2
<1>. QED
  BY <1>1, <1>2

(* The codes an envelope can carry, and whether it is a success.           *)
LEMMA EnvelopeShape ==
    ASSUME NEW env, Justified(env)
    PROVE  \/ env.exit_code = 0 /\ \E data \in ResultValues \cup {"schema"} : env = Success(data)
           \/ /\ env.exit_code \in 1..4
              /\ \E kind \in {"tool", "transport", "usage"},
                    code \in {-1, 2, -32603, -32000, MethodNotFound}, status \in 1..4 :
                     env = Error(kind, code, status)
<1>1. ASSUME NEW data \in ResultValues \cup {"schema"}, env = Success(data)
      PROVE  env.exit_code = 0 /\ \E d \in ResultValues \cup {"schema"} : env = Success(d)
  <2>1. env.exit_code = 0
    BY <1>1 DEF Success
  <2>. QED
    BY <1>1, <2>1
<1>2. ASSUME NEW kind \in {"tool", "transport", "usage"},
             NEW code \in {-1, 2, -32603, -32000, MethodNotFound},
             NEW status \in 1..4, env = Error(kind, code, status)
      PROVE  /\ env.exit_code \in 1..4
             /\ \E k \in {"tool", "transport", "usage"},
                   c \in {-1, 2, -32603, -32000, MethodNotFound}, e \in 1..4 :
                    env = Error(k, c, e)
  <2>1. env.exit_code = status
    BY <1>2 DEF Error
  <2>. QED
    BY <1>2, <2>1
<1>3. \/ \E data \in ResultValues \cup {"schema"} : env = Success(data)
      \/ \E kind \in {"tool", "transport", "usage"},
            code \in {-1, 2, -32603, -32000, MethodNotFound}, status \in 1..4 :
             env = Error(kind, code, status)
  BY DEF Justified, UsageError, ToolMissing
<1>. QED
  BY <1>1, <1>2, <1>3

(* The three ways out of the process: a panic, a signal, an envelope.      *)
LEMMA ExitStatus ==
    ASSUME EnvelopeInv, Exited
    PROVE  \/ exit = PanicCode /\ printed = <<>>
           \/ exit = SignalCode
           \/ /\ exit \in 0..4 /\ exit = envelope.exit_code
              /\ printed = <<envelope>> /\ Justified(envelope)
<1>1. CASE exit = envelope.exit_code /\ printed = <<envelope>>
  <2>1. printed # <<>>
    BY <1>1
  <2>2. Justified(envelope)
    BY <2>1 DEF EnvelopeInv
  <2>. QED
    BY <1>1, <2>2, EnvelopeShape
<1>. QED
  BY <1>1 DEF EnvelopeInv

(* One envelope for an exit code of its own, none for a panic, at most one *)
(* for a signal: the exit code and the envelope agree (main.rs:31-40).     *)
THEOREM EnvelopeMatchesExit == SignalledSpec => []OneEnvelope
<1>1. CliInv => OneEnvelope
  <2> SUFFICES ASSUME CliInv PROVE OneEnvelope
    OBVIOUS
  <2>1. Len(printed) <= 1
    <3>1. printed = <<>> \/ printed = <<envelope>>
      BY DEF CliInv, EnvelopeInv
    <3>. QED
      BY ONLY <3>1, AtMostOne
  <2>2. CASE Exited
    BY <2>1, <2>2, ExitStatus DEF OneEnvelope, CliInv, PanicCode, SignalCode
  <2>3. CASE ~Exited
    BY <2>1, <2>3 DEF OneEnvelope, CliInv, EnvelopeInv, None, PanicCode
  <2>. QED
    BY <2>2, <2>3
<1>. QED
  BY <1>1, CliInvHolds, PTL

(* Whatever way the process ends by itself, its child was reaped, or there *)
(* never was one.                                                          *)
THEOREM NoChildLeft == SignalledSpec => []ChildReaped
<1>1. CliInv => ChildReaped
  BY DEF CliInv, ReapInv, ChildReaped
<1>. QED
  BY <1>1, CliInvHolds, PTL

(* The server hears of the command's request only as its third message,    *)
(* after the handshake, and carries it out at most once.                   *)
THEOREM HandshakeComesFirst == SignalledSpec => []CallAfterHandshake
<1>1. CliInv => CallAfterHandshake
  <2> SUFFICES ASSUME CliInv PROVE CallAfterHandshake
    OBVIOUS
  <2>1. /\ Len(heard) \in 0..3 /\ Len(heard) <= Len(sent)
        /\ \A i \in 1..Len(heard) : heard[i] = Scripted(i)
        /\ DOMAIN heard = 1..Len(heard)
    BY HeardScript, LenProperties DEF CliInv, TypeOK
  <2>2. Len(applied) <= 1
    <3>1. applied \in {<<>>, <<TheRequest>>}
      <4>1. PICK n \in 0..3 : served \in 0..n
        BY <2>1, Zenon DEF CliInv, ServedInv
      <4>2. served < 3 => applied = <<>>
        BY DEF CliInv, ServedInv
      <4>3. served = 3 => applied \in {<<>>, <<TheRequest>>}
        BY DEF CliInv, ServedInv
      <4>4. served < 3 \/ served = 3
        BY ONLY <4>1
      <4>. QED
        BY <4>2, <4>3, <4>4
    <3>. QED
      BY ONLY <3>1, AtMostOne
  <2>3. ASSUME NEW i \in DOMAIN heard, heard[i].method \in {"tools/list", "tools/call"}
        PROVE  /\ i = 3
               /\ heard[1] = Request(1, "initialize")
               /\ heard[2] = Initialized
               /\ ResultOf(1, "caps") \in answers
    <3>1. i = 3
      BY <2>1, <2>3 DEF Scripted, Hello, Initialized, Request, Notification
    <3>2. Len(heard) = 3 /\ Len(sent) \in Nat
      BY <2>1, <3>1, LenProperties DEF CliInv, TypeOK
    <3>3. heard[1] = Hello /\ heard[2] = Initialized
      BY <2>1, <3>2 DEF Scripted
    <3>4. ResultOf(1, "caps") \in answers
      BY <2>1, <3>2 DEF CliInv, OutcomeInv
    <3>. QED
      BY <3>1, <3>3, <3>4 DEF Hello
  <2>. QED
    BY <2>2, <2>3 DEF CallAfterHandshake
<1>. QED
  BY <1>1, CliInvHolds, PTL

(* Exit 0 is the server's own answer to the command's request, whatever    *)
(* else the server wrote; and the effect it speaks of was had.             *)
THEOREM SuccessIsEarned == SignalledSpec => []SuccessIsTheAnswer
<1>1. CliInv => SuccessIsTheAnswer
  <2> SUFFICES ASSUME CliInv, exit = 0, command \in Remote
               PROVE  /\ ResultOf(2, printed[1].data) \in answers
                      /\ command # "list" /\ printed[1].data # "isError" =>
                            applied = <<Request(2, "tools/call")>>
    BY DEF SuccessIsTheAnswer
  <2>1. Exited
    BY DEF CliInv, EnvelopeInv, None
  <2>2. exit = envelope.exit_code /\ printed = <<envelope>> /\ Justified(envelope)
    BY <2>1, ExitStatus DEF CliInv, PanicCode, SignalCode
  <2>3. PICK value \in ResultValues : envelope = Success(value) /\ ResultOf(2, value) \in answers
    BY <2>2 DEF Justified, UsageError, ToolMissing, Error, Remote
  <2>4. printed[1].data = value
    BY <2>2, <2>3 DEF Success
  <2>5. command # "list" => Method(command) = "tools/call"
    BY DEF Method
  <2>. QED
    BY <2>3, <2>4, <2>5, EffectOnSuccess DEF TheRequest
<1>. QED
  BY <1>1, CliInvHolds, PTL

(* In every reachable state of an invocation, its transport and its server *)
(* the variables have their types.                                         *)
THEOREM CliTypeCorrect == SignalledSpec => []CliTypeOK
<1>1. CliInv => CliTypeOK
  <2> SUFFICES ASSUME CliInv PROVE CliTypeOK
    OBVIOUS
  <2>1. TypeOK /\ next_id \in 1..3
    BY DEF CliInv, ControlInv
  <2>2. /\ served \in 0..Len(heard)
        /\ reply \in Seq(Json) /\ Len(reply) <= 1
    BY DEF CliInv, ServedInv
  <2>3. applied \in Seq(ClientMessages) /\ answers \subseteq Json
    <3>1. PICK n \in 0..3 : served \in 0..n
      BY HeardScript, Zenon DEF CliInv, ServedInv
    <3>2. TheRequest \in ClientMessages
      BY MessagesSent, MessagesAreTheClients
    <3>3. <<>> \in Seq(ClientMessages) /\ <<TheRequest>> \in Seq(ClientMessages)
      BY ONLY <3>2, EmptySeq, SingletonType
    <3>4. CASE served < 3
      BY <3>3, <3>4, RequestsAreAnswered DEF CliInv, ServedInv
    <3>5. CASE served = 3
      <4>1. PICK response \in Responses(TheRequest) :
                /\ answers \subseteq Responses(Hello) \cup {response}
                /\ applied = IF Applies(TheRequest, response) THEN <<TheRequest>> ELSE <<>>
        BY <3>5, Zenon DEF CliInv, ServedInv
      <4>. QED
        BY <3>3, <4>1, RequestsAreAnswered
    <3>. QED
      BY <3>1, <3>4, <3>5
  <2>4. printed \in Seq({Success(data) : data \in ResultValues \cup {"schema"}}
                        \cup {Error(kind, code, status) :
                               kind \in {"tool", "transport", "usage"},
                               code \in {-1, 2, -32603, -32000, MethodNotFound},
                               status \in 1..4})
    <3> DEFINE Envelopes == {Success(data) : data \in ResultValues \cup {"schema"}}
                            \cup {Error(kind, code, status) :
                                   kind \in {"tool", "transport", "usage"},
                                   code \in {-1, 2, -32603, -32000, MethodNotFound},
                                   status \in 1..4}
    <3>1. Justified(envelope) => envelope \in Envelopes
      BY EnvelopeShape
    <3>2. printed # <<>> => Justified(envelope) /\ printed = <<envelope>>
      BY DEF CliInv, EnvelopeInv
    <3> HIDE DEF Envelopes
    <3>3. printed \in Seq(Envelopes)
      BY <3>1, <3>2, EmptySeq, SingletonType
    <3>. QED
      BY <3>3 DEF Envelopes
  <2>5. readable \in BOOLEAN
    BY Zenon DEF CliInv, EnvelopeInv
  <2>6. exit \in {None, PanicCode, SignalCode} \cup 0..4 /\ Exited = (exit # None)
    <3>1. CASE Exited
      BY <3>1, ExitStatus DEF CliInv, None, PanicCode, SignalCode, Exited
    <3>2. CASE ~Exited
      BY <3>2 DEF CliInv, EnvelopeInv, Exited
    <3>. QED
      BY <3>1, <3>2
  <2>7. /\ at \in {"start", "spawned", "initialize", "initialized", "ready", "call",
                   "returned", "failed"}
        /\ command \in Commands
        /\ stage \in {"run", "connect", "discard", "call", "print", "leave", "unwind",
                      "exited"}
    BY DEF CliInv, ControlInv, Finished
  <2>. QED
    BY <2>1, <2>2, <2>3, <2>4, <2>5, <2>6, <2>7 DEF CliTypeOK
<1>. QED
  BY <1>1, CliInvHolds, PTL

----------------------------------------------------------------------------
(* The invocation implements what it promises its caller.                  *)

(* What the exit code says is so.                                          *)
ToldTrue ==
    /\ Conclusion = "applied" => Len(applied) = 1
    /\ Conclusion = "unchanged" =>
          /\ Len(applied) = 0
          /\ Len(sent) < 3 \/ command = "list" \/ served = 3

(* When the exit code says which word.                                     *)
LEMMA ConclusionIs ==
    /\ ~Exited => Conclusion = "nothing"
    /\ Exited => Conclusion \in {"applied", "unchanged", "unknown"}
    /\ Conclusion = "applied" =>
          Exited /\ exit = 0 /\ command \in {"tool", "gtd"} /\ printed[1].data # "isError"
    /\ Conclusion = "unchanged" =>
          Exited /\ (exit \in {1, 2, 4} \/ (exit = 0 /\ command \notin {"tool", "gtd"}))
BY DEF Conclusion

(* Every exit code is true when the process leaves with it.                *)
LEMMA ExitCodeIsTrue == CliInv => ToldTrue
<1> SUFFICES ASSUME CliInv PROVE ToldTrue
  OBVIOUS
<1>1. ASSUME Conclusion = "applied" PROVE Len(applied) = 1
  <2>1. /\ Exited /\ exit = 0 /\ command \in {"tool", "gtd"} /\ printed[1].data # "isError"
    BY <1>1, ConclusionIs
  <2>2. exit = envelope.exit_code /\ printed = <<envelope>> /\ Justified(envelope)
    BY <2>1, ExitStatus DEF CliInv, PanicCode, SignalCode
  <2>3. PICK value \in ResultValues : envelope = Success(value) /\ ResultOf(2, value) \in answers
    BY <2>1, <2>2 DEF Justified, UsageError, ToolMissing, Error
  <2>4. printed[1].data = value /\ Method(command) = "tools/call"
    BY <2>1, <2>2, <2>3 DEF Success, Method
  <2>5. applied = <<TheRequest>>
    BY <2>1, <2>3, <2>4, EffectOnSuccess
  <2>. QED
    BY <2>5
<1>2. ASSUME Conclusion = "unchanged"
      PROVE  Len(applied) = 0 /\ (Len(sent) < 3 \/ command = "list" \/ served = 3)
  <2>1. Exited /\ (exit \in {1, 2, 4} \/ (exit = 0 /\ command \notin {"tool", "gtd"}))
    BY <1>2, ConclusionIs
  <2>2. exit = envelope.exit_code /\ Justified(envelope)
    BY <2>1, ExitStatus DEF CliInv, PanicCode, SignalCode
  <2>3. CASE Len(sent) < 3 \/ command = "list"
    BY <2>3, NoEffectWithout
  <2>4. CASE \E code : ErrorOf(2, code) \in answers
    BY <2>4, NoEffectOnError
  <2>5. Len(sent) < 3 \/ command = "list" \/ \E code : ErrorOf(2, code) \in answers
    <3>1. CASE command \notin Remote \/ at = "failed"
      BY <3>1 DEF CliInv, ControlInv
    <3>2. CASE command \in Remote /\ at # "failed" /\ exit \in {1, 2, 4}
      BY <2>2, <3>2 DEF Justified, UsageError, Remote, Success, Error
    <3>3. CASE exit = 0 /\ command \in Remote
      BY <2>1, <3>3 DEF Remote
    <3>. QED
      BY <2>1, <3>1, <3>2, <3>3
  <2>. QED
    BY <2>3, <2>4, <2>5
<1>. QED
  BY <1>1, <1>2 DEF ToldTrue

(* Once the process is gone what it told stays as it was.                  *)
LEMMA ToldStays ==
    ASSUME Exited, [CliStepOrSignal]_vars
    PROVE  Exited' /\ Conclusion' = Conclusion
<1>1. UNCHANGED <<stage, exit, command, printed>>
  BY Parties DEF Exited, ConsumerLeaves, Signalled, cliVars, vars
<1>. QED
  BY <1>1 DEF Exited, Conclusion

(* The server has its effect when it carries out the third message, and    *)
(* only if that calls a tool.                                              *)
LEMMA EffectStep ==
    ASSUME CliInv, [CliStepOrSignal]_vars, applied' # applied
    PROVE  /\ served = 2 /\ Len(sent) = 3 /\ command # "list"
           /\ Len(applied) = 0 /\ Len(applied') = 1
           /\ UNCHANGED cliVars
<1>1. ServeRequest /\ UNCHANGED cliVars
  BY Parties DEF CliStep, RunLocally, RunRemotely, DiscardClient, ReportConnectError,
                 CallServer, ReportResult, PrintEnvelope, PrintPanics, ScopeEnds, Exit,
                 ConsumerLeaves, Signalled, vars, ServerActs, ServerWorks, ServerHears,
                 ServerFinishesLine, MakeNoise, ServerFails, serverVars,
                 ServeNotification, ServerReplies
<1>2. PICK response \in Responses(heard[served + 1]) :
          /\ applied' = applied \o <<heard[served + 1]>>
          /\ Applies(heard[served + 1], response)
  BY <1>1 DEF ServeRequest
<1>3. /\ Len(heard) \in 0..3 /\ Len(sent) \in 0..3 /\ Len(heard) <= Len(sent)
      /\ \A i \in 1..Len(heard) : heard[i] = Scripted(i)
  BY HeardScript DEF CliInv
<1>4. served \in 0..2 /\ served < Len(heard)
  <2>1. PICK n \in 0..3 : n = Len(heard) /\ served \in 0..n
    BY <1>3, Zenon DEF CliInv, ServedInv
  <2>2. served < Len(heard)
    BY <1>1 DEF ServeRequest
  <2>. QED
    BY ONLY <2>1, <2>2
<1>5. heard[served + 1] = Scripted(served + 1)
  BY <1>3, <1>4
<1>6. Scripted(served + 1).method = "tools/call"
  BY <1>2, <1>5 DEF Applies
<1>7. served = 2 /\ command # "list"
  BY <1>4, <1>6 DEF Scripted, Hello, Initialized, TheRequest, Request, Notification, Method
<1>8. Len(sent) = 3 /\ applied = <<>>
  <2>1. served < Len(heard)
    BY <1>4
  <2>2. PICK n \in 0..3, m \in 0..3 : n = Len(heard) /\ m = Len(sent) /\ n <= m
    BY <1>3, Zenon
  <2>3. Len(sent) = 3
    BY ONLY <1>7, <2>1, <2>2
  <2>4. applied = <<>>
    BY <1>7 DEF CliInv, ServedInv
  <2>. QED
    BY <2>3, <2>4
<1>9. applied' = <<TheRequest>>
  <2>1. applied' = <<>> \o <<TheRequest>>
    BY <1>2, <1>5, <1>7, <1>8 DEF Scripted
  <2>2. <<TheRequest>> \in Seq(Messages)
    BY MessagesSent, SingletonType
  <2>. QED
    BY ONLY <2>1, <2>2, ConcatEmptySeq
<1>. QED
  BY <1>1, <1>7, <1>8, <1>9

(* Every step of the whole is a step of the promise or leaves it alone.    *)
LEMMA InvocationStep ==
    ASSUME CliInv, ToldTrue, ToldTrue', [CliStepOrSignal]_vars
    PROVE  [Promise!Next]_(Promise!vars)
<1> USE DEF Promise!Next, Promise!vars
<1>a. CASE applied' # applied
  <2>1. /\ served = 2 /\ Len(sent) = 3 /\ command # "list"
        /\ Len(applied) = 0 /\ Len(applied') = 1 /\ UNCHANGED cliVars
    BY <1>a, EffectStep
  <2>2. Conclusion' = Conclusion
    BY <2>1 DEF Conclusion, Exited, cliVars
  <2>3. Conclusion \in {"nothing", "unknown"}
    BY <2>1, ConclusionIs DEF ToldTrue
  <2>4. Promise!TakeEffect
    BY <2>1, <2>2, <2>3 DEF Promise!TakeEffect, Promise!MayTakeEffect
  <2>. QED
    BY <2>4
<1>b. CASE applied' = applied /\ Conclusion' # Conclusion
  <2>1. ~Exited
    BY <1>b, ToldStays
  <2>2. Conclusion = "nothing"
    BY <2>1, ConclusionIs
  <2>3. Conclusion' \in {"applied", "unchanged", "unknown"}
    <3>1. Conclusion' \in {"nothing", "applied", "unchanged", "unknown"}
      BY DEF Conclusion
    <3>. QED
      BY <1>b, <2>2, <3>1
  <2>4. Promise!MayConclude(Len(applied), Conclusion')
    BY <1>b, <2>3 DEF ToldTrue, Promise!MayConclude
  <2>5. Promise!Conclude
    BY <1>b, <2>2, <2>3, <2>4 DEF Promise!Conclude, Promise!Words
  <2>. QED
    BY <2>5
<1>c. CASE applied' = applied /\ Conclusion' = Conclusion
  BY <1>c
<1>. QED
  BY <1>a, <1>b, <1>c

(* At most one effect, and no exit code ever says more of it than is true  *)
(* and stays true: a signal at any moment, a server that outlives the      *)
(* process, any message size and any noise included (error.rs:31-38).      *)
THEOREM ImplementsInvocation == SignalledSpec => Promised
<1>1. ASSUME CliInit PROVE Promise!Init
  <2>1. applied = <<>> /\ ~Exited
    BY <1>1 DEF CliInit, ServerInit, Exited
  <2>. QED
    BY <2>1, ConclusionIs, EmptySeq DEF Promise!Init
<1>2. CliInv => ToldTrue
  BY ExitCodeIsTrue
<1>3. CliInv /\ ToldTrue /\ ToldTrue' /\ [CliStepOrSignal]_vars
      => [Promise!Next]_(Promise!vars)
  BY InvocationStep
<1>. QED
  BY <1>1, <1>2, <1>3, CliInvHolds, PTL
     DEF SignalledSpec, CliStepOrSignal, Promised, Promise!Spec
============================================================================
