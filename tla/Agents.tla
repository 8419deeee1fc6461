------------------------------- MODULE Agents -------------------------------
(***************************************************************************)
(* Several callers of `org` at once, each adding its mark to the body of   *)
(* the same node: read the body, then `org edit body --old <what was read> *)
(* --new <that and the mark>`, and again from the start when the edit does *)
(* not say that it was applied.  A run of `org` is what Invocation says of *)
(* it, and the request it sends is the one Arguments builds.               *)
(***************************************************************************)
EXTENDS Arguments

CONSTANTS Callers,      \* who edits; a mark is its caller
          MaxTrouble    \* bound: runs that fail for a reason of their own

ASSUME TroubleIsFinite == MaxTrouble \in Nat

VARIABLES
    body,       \* the body of the node: marks in order
    seen,       \* the body each caller has read
    at,         \* each caller: "read", "edit", "run", "done"
    request,    \* the arguments of its run
    effects,    \* how often its run took effect, as in Invocation
    late,       \* requests of runs that ended "unknown" without an effect
    trouble     \* how many runs have failed without being refused

vars == <<body, seen, at, request, effects, late, trouble>>

Run(caller) == INSTANCE Invocation
    WITH effects <- effects[caller], told <- IF at[caller] = "run" THEN "nothing" ELSE "unknown"

Init ==
    /\ body = <<>>
    /\ seen = [caller \in Callers |-> <<>>]
    /\ at = [caller \in Callers |-> "read"]
    /\ request = [caller \in Callers |-> NoArguments]
    /\ effects = [caller \in Callers |-> 0]
    /\ late = {}
    /\ trouble = 0

----------------------------------------------------------------------------
(* The caller.                                                             *)

Marked(caller, text) == caller \in ToSet(text)

(* org read: the mark may be there, left by a run that could not say so.   *)
ReadBody(caller) ==
    /\ at[caller] = "read"
    /\ seen' = [seen EXCEPT ![caller] = body]
    /\ at' = [at EXCEPT ![caller] = IF Marked(caller, body) THEN "done" ELSE "edit"]
    /\ UNCHANGED <<body, request, effects, late, trouble>>

(* org edit body <node> --old <seen> --new <seen and the mark>             *)
Options(caller) ==
    [uri |-> <<Bare("node")>>, old |-> <<seen[caller]>>,
     new |-> <<Append(seen[caller], caller)>>, append |-> <<>>]

StartEdit(caller) ==
    /\ at[caller] = "edit"
    /\ request' = [request EXCEPT ![caller] = BodyArguments(Options(caller))]
    /\ effects' = [effects EXCEPT ![caller] = 0]
    /\ at' = [at EXCEPT ![caller] = "run"]
    /\ UNCHANGED <<body, seen, late, trouble>>

(* The exit code; what it may say is what Invocation allows.               *)
Applied(caller) ==
    /\ at[caller] = "run"
    /\ Run(caller)!MayConclude(effects[caller], "applied")
    /\ at' = [at EXCEPT ![caller] = "done"]
    /\ UNCHANGED <<body, seen, request, effects, late, trouble>>

(* --old is not the body any more: a tool error.                           *)
Matches(arguments, text) ==
    "old_body" \in DOMAIN arguments => arguments["old_body"] = String(text)

Refused(caller) ==
    /\ at[caller] = "run"
    /\ ~Matches(request[caller], body)
    /\ Run(caller)!MayConclude(effects[caller], "unchanged")
    /\ at' = [at EXCEPT ![caller] = "read"]
    /\ UNCHANGED <<body, seen, request, effects, late, trouble>>

(* Anything else: no server, a timeout, a signal, a crash of the server.   *)
Troubled(caller) ==
    /\ at[caller] = "run"
    /\ trouble < MaxTrouble
    /\ trouble' = trouble + 1
    /\ at' = [at EXCEPT ![caller] = "read"]
    /\ \/ Run(caller)!MayConclude(effects[caller], "unchanged") /\ late' = late
       \/ /\ Run(caller)!MayConclude(effects[caller], "unknown")
          /\ late' = IF effects[caller] = 0 THEN late \cup {request[caller]} ELSE late
    /\ UNCHANGED <<body, seen, request, effects>>

----------------------------------------------------------------------------
(* The server, that carries out one request at a time.                     *)

Edit(arguments) ==
    /\ Matches(arguments, body)
    /\ body' = IF arguments["append"] = Bool(TRUE) THEN body \o arguments["new_body"][2]
               ELSE arguments["new_body"][2]

ServerEdits(caller) ==
    /\ at[caller] = "run"
    /\ Run(caller)!MayTakeEffect(effects[caller], "nothing")
    /\ Edit(request[caller])
    /\ effects' = [effects EXCEPT ![caller] = 1]
    /\ UNCHANGED <<seen, at, request, late, trouble>>

(* The request of a run that is over; it may also never come to this.      *)
ServerEditsLate ==
    /\ \E arguments \in late :
        /\ Edit(arguments)
        /\ late' = late \ {arguments}
    /\ UNCHANGED <<seen, at, request, effects, trouble>>

CallerActs(caller) ==
    \/ ReadBody(caller) \/ StartEdit(caller) \/ Applied(caller) \/ Refused(caller)

Next ==
    \/ \E caller \in Callers :
        CallerActs(caller) \/ Troubled(caller) \/ ServerEdits(caller)
    \/ ServerEditsLate

Spec == Init /\ [][Next]_vars

(* Callers do not give up; a server answers a run that has no trouble.     *)
FairSpec ==
    /\ Spec
    /\ \A caller \in Callers : WF_vars(CallerActs(caller)) /\ WF_vars(ServerEdits(caller))

----------------------------------------------------------------------------
(* Properties.                                                             *)

(* With --old nobody's text is overwritten: not by a caller that read      *)
(* before somebody else wrote, and not by a request that arrives when its  *)
(* caller has gone on (cli.rs:266, "optimistic concurrency guard").        *)
NoUpdateLost == [][IsPrefix(body, body')]_vars

(* A caller that repeats an edit it knows nothing of does not make it      *)
(* twice, though both requests may reach the server.                       *)
EditedOnce == IsInjective(body)

(* Whoever was told "applied" finds its mark in the body, whatever others  *)
(* have done since.                                                        *)
DoneMeansDone == \A caller \in Callers : at[caller] = "done" => Marked(caller, body)

(* When troubles end everyone gets through: a refusal means that somebody  *)
(* else did.                                                               *)
EveryoneGetsThrough == <>(\A caller \in Callers : at[caller] = "done")
=============================================================================
