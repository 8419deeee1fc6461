------------------------------- MODULE Client -------------------------------
(***************************************************************************)
(* src/mcp/client.rs: the MCP client on top of Transport.  It numbers its  *)
(* requests, waits for one line after each, matches it by id, and performs *)
(* the initialize handshake before it lets its caller issue a request.     *)
(***************************************************************************)
EXTENDS Transport

VARIABLES
    at,         \* where the library is: "start", "spawned", "initialize",
                \* "initialized", "ready", "call", "returned", "failed"
    next_id,    \* the id of the next request
    outcome     \* what the library call returned to its caller

clientVars == <<at, next_id, outcome>>

(* The messages an invocation can send.                                    *)
Initialized == Notification("notifications/initialized")

ClientMessages ==
    {Request(1, "initialize"), Initialized}
        \cup {Request(2, method) : method \in {"tools/list", "tools/call"}}

ClientInit ==
    /\ Init
    /\ at = "start"
    /\ next_id = 1
    /\ outcome = NoRet

----------------------------------------------------------------------------
(* request: send with a fresh id, wait, match the response.                *)

StartRequest(method) ==
    /\ Send(Request(next_id, method))
    /\ next_id' = next_id + 1

AwaitResponse ==
    /\ at \in {"initialize", "call"}
    /\ ret = Done
    /\ Recv
    /\ UNCHANGED clientVars

Returned == op = "idle" /\ ret.tag \in {"json", "error"}

RequestOutcome ==
    LET errors == ResponseErrors(ret.json, next_id - 1)
    IN  IF ret.tag = "error" THEN {ret}
        ELSE IF errors # {} THEN {Failed(e) : e \in errors}
        ELSE {Received(value) : value \in ret.json.result}

----------------------------------------------------------------------------
(* connect_with_timeout: spawn, initialize, notifications/initialized.     *)

Connect(seconds) ==
    /\ at = "start"
    /\ SpawnServer(seconds)
    /\ at' = "spawned"
    /\ UNCHANGED <<next_id, outcome>>

ConnectCannotSpawn ==
    /\ at = "start"
    /\ SpawnFails
    /\ at' = "failed"
    /\ outcome' = Failed(SpawnError)
    /\ UNCHANGED next_id

Initialize ==
    /\ at = "spawned"
    /\ StartRequest("initialize")
    /\ at' = "initialize"
    /\ UNCHANGED outcome

(* Mutant: any result of initialize will do.                               *)
AnyCapability(result) == result

(* The server must advertise the tools capability.                         *)
CapabilityChecked(result) ==
    IF result.tag = "json" /\ result.json # "caps"
    THEN Failed(ProtocolError("capability"))
    ELSE result

HandshakeFails ==
    /\ at = "initialize"
    /\ Returned
    /\ \E result \in RequestOutcome :
        /\ CapabilityChecked(result).tag = "error"
        /\ outcome' = CapabilityChecked(result)
    /\ at' = "failed"
    /\ UNCHANGED <<transportVars, next_id>>

NotifyInitialized ==
    /\ at = "initialize"
    /\ Returned
    /\ \E result \in RequestOutcome : CapabilityChecked(result).tag = "json"
    /\ Send(Initialized)
    /\ at' = "initialized"
    /\ UNCHANGED <<next_id, outcome>>

NotifyReturns ==
    /\ at = "initialized"
    /\ op = "idle"
    /\ \/ ret = Done /\ at' = "ready" /\ UNCHANGED outcome
       \/ ret.tag = "error" /\ at' = "failed" /\ outcome' = ret
    /\ UNCHANGED <<transportVars, next_id>>

----------------------------------------------------------------------------
(* tools_list and tools_call.                                              *)

Call(method) ==
    /\ at = "ready"
    /\ StartRequest(method)
    /\ at' = "call"
    /\ UNCHANGED outcome

(* tools/list must return an array; a tools/call returns its content, or   *)
(* the whole result when there is none.  A result with isError is a result.*)
ToolsChecked(result, method) ==
    IF result.tag = "json" /\ method = "tools/list" /\ result.json # "tools"
    THEN Failed(ProtocolError("tools"))
    ELSE result

CallReturns ==
    /\ at = "call"
    /\ Returned
    /\ \E result \in RequestOutcome :
        outcome' = ToolsChecked(result, sent[Len(sent)].method)
    /\ at' = "returned"
    /\ UNCHANGED <<transportVars, next_id>>

ClientStep ==
    \/ Initialize \/ AwaitResponse
    \/ HandshakeFails \/ NotifyInitialized \/ NotifyReturns
    \/ CallReturns
============================================================================
