------------------------------- MODULE Server -------------------------------
(***************************************************************************)
(* The MCP server as the client uses it (org-mcp itself lives in another   *)
(* repository; tests/fixtures/mock_org_mcp shows what is expected of it):  *)
(* one loop that reads a message, carries it out and writes one line for   *)
(* each request.  It can refuse, fall silent, crash at any point, close    *)
(* its pipes, and write up to MaxNoise lines nobody asked for.             *)
(***************************************************************************)
EXTENDS Transport

CONSTANTS Noise,        \* the lines nobody asked for that it may write
          MaxNoise      \* bound: how many of them

VARIABLES
    served,     \* how many of the messages heard it has dealt with
    reply,      \* at most one response it has still to write
    noise,      \* how many lines of noise it has written
    applied,    \* history: the tool calls that took effect, in order
    answers     \* history: the responses it decided on

serverVars == <<served, reply, noise, applied, answers>>

ServerInit ==
    /\ served = 0 /\ reply = <<>> /\ noise = 0
    /\ applied = <<>> /\ answers = {}

(* A tool call that succeeds has its effect before the response is         *)
(* written; one that is refused, or fails inside the tool, has none.       *)
Effective == {"content", "plain"}

Results(method) ==
    CASE method = "initialize" -> {"caps", "plain"}
      [] method = "tools/list" -> {"tools", "plain"}
      [] method = "tools/call" -> {"content", "isError", "plain"}

Errors(method) ==
    IF method = "tools/call" THEN {-32000, MethodNotFound} ELSE {-32603}

Responses(request) ==
    UNION { {ResultOf(id, value) : value \in Results(request.method)}
                \cup {ErrorOf(id, code) : code \in Errors(request.method)}
          : id \in request.id }

Applies(request, response) ==
    /\ request.method = "tools/call"
    /\ response.result \cap Effective # {}

(* The loop is sequential: it reads on only when the last line is out.     *)
BetweenMessages == served = Len(heard) /\ reply = <<>> /\ tail = <<>>

ServerHears ==
    /\ BetweenMessages
    /\ ServerReads
    /\ UNCHANGED serverVars

ServeRequest ==
    /\ served < Len(heard)
    /\ LET request == heard[served + 1] IN
       \E response \in Responses(request) :
        /\ reply' = <<response>>
        /\ answers' = answers \cup {response}
        /\ applied' = IF Applies(request, response)
                      THEN applied \o <<request>> ELSE applied
    /\ served' = served + 1
    /\ UNCHANGED <<transportVars, noise>>

(* A notification has no response.                                         *)
ServeNotification ==
    /\ served < Len(heard)
    /\ heard[served + 1].id = {}
    /\ served' = served + 1
    /\ UNCHANGED <<transportVars, reply, noise, applied, answers>>

ServerReplies ==
    /\ reply # <<>>
    /\ ServerWrites(reply[1])
    /\ reply' = <<>>
    /\ UNCHANGED <<served, noise, applied, answers>>

ServerFinishesLine == ServerEndsLine /\ UNCHANGED serverVars

MakeNoise ==
    /\ noise < MaxNoise
    /\ \E line \in Noise : ServerWrites(line)
    /\ noise' = noise + 1
    /\ UNCHANGED <<served, reply, applied, answers>>

(* It can die, or its launcher can, and either pipe can be closed alone.   *)
ServerFails ==
    /\ ChildExits \/ CloseStdin \/ CloseStdout
    /\ UNCHANGED serverVars

ServerWorks ==
    \/ ServerHears \/ ServeRequest \/ ServeNotification
    \/ ServerReplies \/ ServerFinishesLine

ServerActs == ServerWorks \/ MakeNoise \/ ServerFails

(* One that died or stopped reading closes what it still holds open.       *)
LeavingServerCloses ==
    /\ proc \in {"dead", "reaped"} \/ ~inOpen
    /\ CloseStdin \/ CloseStdout
    /\ UNCHANGED serverVars
============================================================================
