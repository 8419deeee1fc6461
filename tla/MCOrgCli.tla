----------------------------- MODULE MCOrgCli -----------------------------
(***************************************************************************)
(* OrgCli on a small instance: one invocation of any kind, a tool call of  *)
(* CallSize pipe buffers (every other message fits in one), and a server   *)
(* that may write any line of MCNoise unasked.                             *)
(***************************************************************************)
EXTENDS OrgCli

CONSTANTS CallSize

MCSize ==
    [m \in ClientMessages |-> IF m = Request(2, "tools/call") THEN CallSize ELSE 1]

(* A notification, the answer to an earlier request, a parse error with a  *)
(* null id (here -1), text that is not JSON, bytes that are not UTF-8.     *)
StrayAnswer == ResultOf(7, "content")
StrayNotification == Response({}, {}, {})
StrayParseError == ErrorOf(-1, -32700)

MCNoise == {StrayAnswer, StrayNotification, StrayParseError, Garbage, Invalid}

(* Noise that is well-formed and can be waited out only by reading it.     *)
MCChatter == {StrayNotification}

MCJson ==
    (MCNoise \ {Garbage, Invalid})
        \cup UNION {Responses(m) : m \in ClientMessages}
============================================================================
