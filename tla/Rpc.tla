-------------------------------- MODULE Rpc --------------------------------
(***************************************************************************)
(* The vocabulary the other modules share: JSON-RPC messages, the McpError *)
(* classes with the exit code each becomes, and the rule by which a        *)
(* response line is matched to the request it should answer.               *)
(*                                                                         *)
(* A JSON field that may be absent is a set with at most one element, so   *)
(* that `field = {}` reads "the key is not in the object".                 *)
(***************************************************************************)
EXTENDS Integers

----------------------------------------------------------------------------
(* What a transport call returns to its caller: nothing yet, success of a  *)
(* send or spawn, the JSON value of a line, or an error.                   *)
NoRet == [tag |-> "none"]
Done == [tag |-> "done"]
Received(json) == [tag |-> "json", json |-> json]
Failed(error) == [tag |-> "error", error |-> error]

(* McpError: the variant and what tells two errors of it apart.            *)
SpawnError == [variant |-> "Spawn"]
TransportError(why) == [variant |-> "Transport", why |-> why]
ProtocolError(why) == [variant |-> "Protocol", why |-> why]
ToolError(code) == [variant |-> "ToolError", code |-> code]

TransportFailures == {"write", "timeout", "eof", "read", "parse"}
ProtocolFailures == {"id", "result", "capability", "tools"}

(* Mutants: a spawn failure gets a code of its own; a transport failure is *)
(* reported like a tool error.                                             *)
ExitCodeFive(error) ==
    CASE error.variant = "ToolError" -> 1
      [] error.variant \in {"Transport", "Protocol"} -> 3
      [] error.variant = "Spawn" -> 5

ExitCodeOne(error) ==
    CASE error.variant \in {"ToolError", "Transport"} -> 1
      [] error.variant = "Protocol" -> 3
      [] error.variant = "Spawn" -> 4

(* McpError::exit_code, the process exit status an error turns into.       *)
ExitCode(error) ==
    CASE error.variant = "ToolError" -> 1
      [] error.variant \in {"Transport", "Protocol"} -> 3
      [] error.variant = "Spawn" -> 4

(* McpError::kind_str, the `kind` of the error envelope.                   *)
KindStr(error) == IF error.variant = "ToolError" THEN "tool" ELSE "transport"

(* McpError::rpc_code, the `code` of the error envelope.                   *)
RpcCode(error) == IF error.variant = "ToolError" THEN error.code ELSE -1

----------------------------------------------------------------------------
(* Requests and notifications from client to server.                       *)
Request(id, method) == [id |-> {id}, method |-> method]
Notification(method) == [id |-> {}, method |-> method]

(* Responses.  `error` holds the code (-1 when the error member is null or *)
(* has no integer code), `result` an abstraction of the result value:      *)
(*   "caps"     an object with capabilities.tools (answers initialize)     *)
(*   "tools"    an object with a tools array      (answers tools/list)     *)
(*   "content"  an object with a content array    (answers tools/call)     *)
(*   "isError"  a content object that also carries isError: true           *)
(*   "plain"    anything else                                              *)
ResultValues == {"caps", "tools", "content", "isError", "plain"}

Response(id, error, result) == [id |-> id, error |-> error, result |-> result]
ResultOf(id, result) == Response({id}, {}, {result})
ErrorOf(id, code) == Response({id}, {code}, {})

MethodNotFound == -32601

(* Mutant: the id of the response is not looked at.                        *)
ResponseErrorsAnyId(response, id) ==
    IF response.error # {} THEN {ToolError(code) : code \in response.error}
    ELSE IF response.result = {} THEN {ProtocolError("result")}
    ELSE {}

(* The part of Client::request after recv: a response with another id is   *)
(* refused, one without an id is let through; an `error` member wins over  *)
(* `result`; a response with neither is a protocol violation.              *)
ResponseErrors(response, id) ==
    IF response.id \notin {{}, {id}} THEN {ProtocolError("id")}
    ELSE IF response.error # {} THEN {ToolError(code) : code \in response.error}
    ELSE IF response.result = {} THEN {ProtocolError("result")}
    ELSE {}
============================================================================
