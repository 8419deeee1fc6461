------------------------------- MODULE OrgCli -------------------------------
(***************************************************************************)
(* One invocation of `org` (src/main.rs, src/output.rs): what is decided   *)
(* before any server is spawned, the connection, the single request, the   *)
(* envelope on stdout, the server discarded, the exit code.  A signal may  *)
(* end the process before any of it.                                       *)
(***************************************************************************)
EXTENDS Client, Server

VARIABLES
    command,    \* what the command line asks for
    stage,      \* where run() is: "run", "connect", "discard", "call",
                \* "print", "leave", "unwind", "exited"
    envelope,   \* the envelope about to be printed
    printed,    \* history: the envelopes printed
    readable,   \* somebody still reads the CLI's own stdout
    exit        \* the exit code, None until the process is gone

cliVars == <<command, stage, envelope, printed, readable, exit>>

vars == <<transportVars, clientVars, serverVars, cliVars>>

(* What travels: the client's own messages one way, the responses to them  *)
(* and noise the other.  Noise is what a JSON-RPC server may write unasked:*)
(* a notification has neither result nor error, a response to somebody     *)
(* else has an id this client has not used; or it is no JSON at all.       *)
ASSUME MessagesAreTheClients == Messages = ClientMessages
ASSUME ResponsesAreJson == UNION {Responses(m) : m \in ClientMessages} \subseteq Json
ASSUME NoiseAnswersNothing ==
    /\ Noise \subseteq Lines
    /\ \A line \in Noise \cap Json :
        /\ line.id \cap {1, 2} = {}
        /\ line.id = {} => line.error = {} /\ line.result = {}

(* The command lines tell five ways through run() apart.                   *)
(*   "schema"  answered locally; also with an unknown path                 *)
(*   "usage"   refused locally: outline org://, --args not JSON, bare      *)
(*             `org query`, a --set without "="                            *)
(*   "list"    tools list                                                  *)
(*   "tool"    every command that calls a tool                             *)
(*   "gtd"     query inbox, next and backlog: the tool is optional         *)
Remote == {"list", "tool", "gtd"}
Commands == {"schema", "usage"} \cup Remote

Method(cmd) == IF cmd = "list" THEN "tools/list" ELSE "tools/call"

None == -1
PanicCode == 101
SignalCode == 143       \* 128 + SIGTERM; any signal without a handler

(* output.rs: the success envelope, and the error envelope.                *)
Success(data) == [ok |-> TRUE, data |-> data, exit_code |-> 0]
Error(kind, code, exit_code) ==
    [ok |-> FALSE, kind |-> kind, code |-> code, exit_code |-> exit_code]

UsageError == Error("usage", 2, 2)
ToolMissing == Error("usage", -1, 2)

(* handle_mcp_error                                                        *)
McpErrorEnvelope(error) == Error(KindStr(error), RpcCode(error), ExitCode(error))

(* What a command prints when its request returns.  A GTD command reads    *)
(* method-not-found as a usage error.                                      *)
EnvelopeFor(cmd, result) ==
    IF result.tag = "json" THEN Success(result.json)
    ELSE IF cmd = "gtd" /\ result.error = ToolError(MethodNotFound) THEN ToolMissing
    ELSE McpErrorEnvelope(result.error)

NoEnvelope == Success("nothing")

CliInit ==
    /\ ClientInit
    /\ ServerInit
    /\ command \in Commands
    /\ stage = "run"
    /\ envelope = NoEnvelope
    /\ printed = <<>>
    /\ readable = TRUE
    /\ exit = None

----------------------------------------------------------------------------
(* run: what needs no server.                                              *)

RunLocally ==
    /\ stage = "run"
    /\ \/ command = "schema" /\ envelope' \in {Success("schema"), UsageError}
       \/ command = "usage" /\ envelope' = UsageError
    /\ stage' = "print"
    /\ UNCHANGED <<transportVars, clientVars, serverVars, command, printed, readable, exit>>

(* connect: the timeout comes from --timeout or ORG_TIMEOUT, 0 disables it. *)
RunRemotely ==
    /\ stage = "run"
    /\ command \in Remote
    /\ ConnectCannotSpawn \/ \E seconds \in {0, 30} : Connect(seconds)
    /\ stage' = "connect"
    /\ UNCHANGED <<serverVars, command, envelope, printed, readable, exit>>

(* The handshake failed: connect_with_timeout drops the client before its  *)
(* caller sees the error.                                                  *)
DiscardClient ==
    /\ stage = "connect"
    /\ at = "failed"
    /\ IF op = "idle" THEN Drop ELSE UNCHANGED transportVars
    /\ stage' = "discard"
    /\ UNCHANGED <<clientVars, serverVars, command, envelope, printed, readable, exit>>

ReportConnectError ==
    /\ stage = "discard"
    /\ op = "dropped"
    /\ envelope' = McpErrorEnvelope(outcome.error)
    /\ stage' = "print"
    /\ UNCHANGED <<transportVars, clientVars, serverVars, command, printed, readable, exit>>

CallServer ==
    /\ stage = "connect"
    /\ Call(Method(command))
    /\ stage' = "call"
    /\ UNCHANGED <<serverVars, command, envelope, printed, readable, exit>>

ReportResult ==
    /\ stage = "call"
    /\ at = "returned"
    /\ envelope' = EnvelopeFor(command, outcome)
    /\ stage' = "print"
    /\ UNCHANGED <<transportVars, clientVars, serverVars, command, printed, readable, exit>>

(* println! writes the envelope, as slowly as the consumer of the CLI's    *)
(* stdout reads it, or panics when nobody reads stdout.                    *)
PrintEnvelope ==
    /\ stage = "print"
    /\ readable
    /\ printed' = Append(printed, envelope)
    /\ stage' = "leave"
    /\ UNCHANGED <<transportVars, clientVars, serverVars, command, envelope, readable, exit>>

PrintPanics ==
    /\ stage = "print"
    /\ ~readable
    /\ stage' = "unwind"
    /\ UNCHANGED <<transportVars, clientVars, serverVars, command, envelope, printed, readable, exit>>

(* The command function returns, or unwinds: its client goes out of scope. *)
ScopeEnds ==
    /\ stage \in {"leave", "unwind"}
    /\ op = "idle"
    /\ Drop
    /\ UNCHANGED <<clientVars, serverVars, cliVars>>

(* Mutants: process::exit from inside the scope of the client; the exit    *)
(* code taken from the error and not from what was printed.                *)
ExitInScope ==
    /\ stage \in {"leave", "unwind"}
    /\ exit' = IF stage = "unwind" THEN PanicCode ELSE envelope.exit_code
    /\ stage' = "exited"
    /\ UNCHANGED <<transportVars, clientVars, serverVars, command, envelope, printed, readable>>

ExitWithErrorCode ==
    /\ stage \in {"leave", "unwind"}
    /\ op \in {"start", "dropped"}
    /\ exit' = IF stage = "unwind" THEN PanicCode
               ELSE IF outcome.tag = "error" THEN ExitCode(outcome.error)
               ELSE envelope.exit_code
    /\ stage' = "exited"
    /\ UNCHANGED <<transportVars, clientVars, serverVars, command, envelope, printed, readable>>

Exit ==
    /\ stage \in {"leave", "unwind"}
    /\ op \in {"start", "dropped"}
    /\ exit' = IF stage = "unwind" THEN PanicCode ELSE envelope.exit_code
    /\ stage' = "exited"
    /\ UNCHANGED <<transportVars, clientVars, serverVars, command, envelope, printed, readable>>

(* The consumer of the CLI's stdout goes away.                             *)
ConsumerLeaves ==
    /\ stage # "exited"
    /\ readable
    /\ readable' = FALSE
    /\ UNCHANGED <<transportVars, clientVars, serverVars, command, stage, envelope, printed, exit>>

(* No signal is handled: the process is gone, no Drop runs, and the server *)
(* is left to do what it has been told and to find its pipes closed.       *)
Signalled ==
    /\ stage # "exited"
    /\ exit' = SignalCode
    /\ stage' = "exited"
    /\ UNCHANGED <<transportVars, clientVars, serverVars, command, envelope, printed, readable>>

----------------------------------------------------------------------------
CliStep ==
    \/ RunLocally \/ RunRemotely
    \/ DiscardClient \/ ReportConnectError
    \/ CallServer \/ ReportResult
    \/ PrintEnvelope \/ PrintPanics \/ ScopeEnds \/ Exit

(* Both threads end with the process.                                      *)
MainThread ==
    /\ stage # "exited"
    /\ \/ CliStep
       \/ ClientStep /\ UNCHANGED <<serverVars, cliVars>>
       \/ MainStep /\ UNCHANGED <<clientVars, serverVars, cliVars>>

ReaderThread ==
    /\ stage # "exited"
    /\ ReaderStep
    /\ UNCHANGED <<clientVars, serverVars, cliVars>>

Kernel == KillTakesEffect /\ UNCHANGED <<clientVars, serverVars, cliVars>>

Environment ==
    \/ ServerActs /\ UNCHANGED <<clientVars, cliVars>>
    \/ ConsumerLeaves

CliNext == MainThread \/ ReaderThread \/ Kernel \/ Environment

CliSpec == CliInit /\ [][CliNext]_vars

(* With signals.  The liveness runs leave them out: a signal ends the run. *)
SignalledSpec == CliInit /\ [][CliNext \/ Signalled]_vars

(* The main thread is not owed the end of a println! while its consumer,   *)
(* which is there, does not read.                                          *)
CliFairness ==
    /\ WF_vars(MainThread /\ ~(stage = "print" /\ readable))
    /\ WF_vars(ReaderThread)
    /\ WF_vars(Kernel)

(* A server that keeps reading and answering, and closes when it dies.     *)
ServerFairness ==
    /\ WF_vars(ServerWorks /\ UNCHANGED <<clientVars, cliVars>>)
    /\ WF_vars(LeavingServerCloses /\ UNCHANGED <<clientVars, cliVars>>)

(* A consumer that goes on reading until it leaves.                        *)
ConsumerReads == WF_vars(PrintEnvelope)

FairCliSpec == CliSpec /\ CliFairness

----------------------------------------------------------------------------
(* Properties.                                                             *)

Exited == stage = "exited"

CliTypeOK ==
    /\ TypeOK
    /\ at \in {"start", "spawned", "initialize", "initialized", "ready", "call",
               "returned", "failed"}
    /\ next_id \in 1..3
    /\ served \in 0..Len(heard)
    /\ reply \in Seq(Json) /\ Len(reply) <= 1
    /\ applied \in Seq(ClientMessages)
    /\ answers \subseteq Json
    /\ command \in Commands
    /\ stage \in {"run", "connect", "discard", "call", "print", "leave", "unwind",
                  "exited"}
    /\ printed \in Seq({Success(data) : data \in ResultValues \cup {"schema"}}
                       \cup {Error(kind, code, status) :
                              kind \in {"tool", "transport", "usage"},
                              code \in {-1, 2, -32603, -32000, MethodNotFound},
                              status \in 1..4})
    /\ readable \in BOOLEAN
    /\ exit \in {None, PanicCode, SignalCode} \cup 0..4
    /\ Exited = (exit # None)

(* The exit code and the envelope tell the same story: a process that      *)
(* exits by itself has printed one envelope, with that code in it, and one *)
(* that panicked has printed none (output.rs, main.rs:31-40).  One that a  *)
(* signal ended has printed at most one.                                   *)
OneEnvelope ==
    /\ Len(printed) <= 1
    /\ exit \in 0..4 => Len(printed) = 1 /\ printed[1].exit_code = exit
    /\ exit = PanicCode => printed = <<>>

(* No way out of the process leaves a child or a zombie behind: success,   *)
(* tool error, failed handshake, timeout, or a panic in println!           *)
(* (transport.rs:195-205 through the scopes of main.rs).  A signal does:   *)
(* see Promised for what is still true then.                               *)
ChildReaped == Exited /\ exit # SignalCode => proc \in {"none", "reaped"}

(* The server is asked for at most one effect and hears of it only after   *)
(* it was initialized, said it has tools, and was told so.                 *)
CallAfterHandshake ==
    /\ Len(applied) <= 1
    /\ \A i \in DOMAIN heard :
        heard[i].method \in {"tools/list", "tools/call"} =>
            /\ i = 3
            /\ heard[1] = Request(1, "initialize")
            /\ heard[2] = Initialized
            /\ ResultOf(1, "caps") \in answers

(* Exit 0 is the server's own answer to this request, not noise, not the   *)
(* answer to another request; unless the answer says isError the call took *)
(* effect (client.rs:48-90).                                               *)
SuccessIsTheAnswer ==
    exit = 0 /\ command \in Remote =>
        /\ ResultOf(2, printed[1].data) \in answers
        /\ command # "list" /\ printed[1].data # "isError" =>
            applied = <<Request(2, "tools/call")>>

(* What a caller may conclude from the exit code.  Exit 0 of a command     *)
(* that calls a tool says it took effect, unless the answer says isError;  *)
(* 1, 2 and 4 say that nothing was changed; 3, a panic and a signal say    *)
(* nothing.                                                                *)
Conclusion ==
    IF ~Exited THEN "nothing"
    ELSE IF exit = 0 /\ command \in {"tool", "gtd"} /\ printed[1].data # "isError"
    THEN "applied"
    ELSE IF exit \in {1, 2, 4} \/ (exit = 0 /\ command \notin {"tool", "gtd"})
    THEN "unchanged"
    ELSE "unknown"

Promise == INSTANCE Invocation WITH effects <- Len(applied), told <- Conclusion

(* One effect at most, and what the exit code says of it is true and stays *)
(* true, also of a server that outlives the CLI: a caller may repeat the   *)
(* command after exit 1, 2 or 4 and must look first after any other        *)
(* failure (error.rs:31-38).                                               *)
Promised == Promise!Spec

(* The table of README.md: "0 success", "1 tool error returned by org-mcp", *)
(* "2 usage", "3 transport / protocol failure", "4 server spawn failure".  *)
(* Two things break it: println! panics when nobody reads the CLI's stdout *)
(* (output.rs:69-75), and a server that refuses initialize is reported     *)
(* with exit 1 although no tool was asked (client.rs:71).                  *)
ExitCodeTable ==
    Exited =>
        /\ exit \in 0..4
        /\ exit = 1 => \E i \in DOMAIN sent : sent[i].method \in {"tools/list", "tools/call"}

(* A caller that asked for a timeout gets its exit code whatever the       *)
(* server does, unless the process stays for ever in one of the two writes *)
(* that no timeout covers: the request into the server's stdin             *)
(* (transport.rs:105-116) or the envelope into a stdout that its consumer  *)
(* keeps open and does not read (output.rs:69-75).                         *)
Terminates ==
    \/ <>(Exited \/ (proc # "none" /\ asked = 0))
    \/ <>[](op = "sending")
    \/ <>[](stage = "print" /\ readable)

(* With or without a timeout, a server that reads and answers one message  *)
(* at a time and a consumer that reads bring every invocation to its end,  *)
(* however large the request and however much the server writes unasked.   *)
ResponsiveTerminates == ServerFairness /\ ConsumerReads => <>Exited
============================================================================
