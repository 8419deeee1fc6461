---------------------------- MODULE AgentsProofs ----------------------------
(***************************************************************************)
(* What holds of callers that edit the same node for any number of them,   *)
(* any number of troubles, and any moment at which a request of a run that *)
(* is over reaches the server.                                             *)
(***************************************************************************)
EXTENDS Agents, SequenceTheorems, TLAPS

(* An edit under the guard: it adds one caller's mark, which is not there, *)
(* to the text it names as the old one.                                    *)
AddsMark(caller, arguments) ==
    /\ {"old_body", "new_body", "append"} \subseteq DOMAIN arguments
    /\ arguments["old_body"][2] \in Seq(Callers)
    /\ ~Marked(caller, arguments["old_body"][2])
    /\ arguments["old_body"] = String(arguments["old_body"][2])
    /\ arguments["new_body"] = String(Append(arguments["old_body"][2], caller))
    /\ arguments["append"] = Bool(FALSE)

AgentsTypeOK ==
    /\ body \in Seq(Callers)
    /\ seen \in [Callers -> Seq(Callers)]
    /\ at \in [Callers -> {"read", "edit", "run", "done"}]
    /\ DOMAIN request = Callers /\ request = [caller \in Callers |-> request[caller]]
    /\ effects \in [Callers -> {0, 1}]

(* Every request under way or left behind is such an edit, and the mark of *)
(* a caller whose run took effect is in the body, where it stays.          *)
EditsAreGuarded ==
    /\ \A caller \in Callers :
        /\ at[caller] = "edit" => ~Marked(caller, seen[caller])
        /\ at[caller] = "run" => AddsMark(caller, request[caller])
        /\ at[caller] = "run" /\ effects[caller] = 1 => Marked(caller, body)
    /\ \A arguments \in late : \E caller \in Callers : AddsMark(caller, arguments)

AgentsInv == AgentsTypeOK /\ EditsAreGuarded /\ EditedOnce /\ DoneMeansDone

----------------------------------------------------------------------------
(* The request of `edit body` carries what was read as its guard.          *)
LEMMA RequestIsGuarded ==
    ASSUME NEW caller \in Callers, seen \in [Callers -> Seq(Callers)],
           ~Marked(caller, seen[caller])
    PROVE  AddsMark(caller, BodyArguments(Options(caller)))
<1> DEFINE g == Options(caller)
           text == seen[caller]
           arguments == BodyArguments(g)
<1>1. /\ g["old"] = <<text>> /\ g["new"] = <<Append(text, caller)>> /\ g["append"] = <<>>
  BY DEF Options
<1> HIDE DEF g
<1>2. /\ g["old"] # <<>> /\ Head(g["old"]) = text
      /\ Head(g["new"]) = Append(text, caller) /\ (g["append"] # <<>>) = FALSE
  BY <1>1
<1>3. /\ Omitted("old_body", g["old"]) = Field("old_body", String(text))
      /\ The(g["new"]) = String(Append(text, caller))
      /\ Bool(g["append"] # <<>>) = Bool(FALSE)
  BY <1>2 DEF Omitted, The
<1> DEFINE target == Target(g["uri"])
           new == String(Append(text, caller))
           old == String(text)
<1> HIDE DEF target, new, old
<1>5. arguments = Field("resource_uri", target) ++ Field("new_body", new)
                   ++ Field("append", Bool(FALSE)) ++ Field("old_body", old)
  BY <1>3 DEF BodyArguments, target, new, old
<1>6. /\ {"old_body", "new_body", "append"} \subseteq DOMAIN arguments
      /\ arguments["old_body"] = old
      /\ arguments["new_body"] = new
      /\ arguments["append"] = Bool(FALSE)
  BY <1>5 DEF Field, ++
<1>7. arguments["old_body"][2] = text
  BY <1>6 DEF String, old
<1>8. text \in Seq(Callers) /\ ~Marked(caller, text)
  OBVIOUS
<1> HIDE DEF arguments, text
<1>9. AddsMark(caller, arguments)
  BY <1>6, <1>7, <1>8 DEF AddsMark, new, old
<1>. QED
  BY <1>9 DEF arguments, g

(* A text with one more mark at its end starts as before, has the marks it *)
(* had and the new one, and none twice if that was not there.              *)
LEMMA AppendMark ==
    ASSUME NEW text \in Seq(Callers), NEW caller \in Callers
    PROVE  /\ Append(text, caller) \in Seq(Callers)
           /\ IsPrefix(text, Append(text, caller))
           /\ Marked(caller, Append(text, caller))
           /\ \A other : Marked(other, text) => Marked(other, Append(text, caller))
           /\ IsInjective(text) /\ ~Marked(caller, text) => IsInjective(Append(text, caller))
<1> DEFINE more == Append(text, caller)
<1>1. /\ more \in Seq(Callers) /\ Len(more) = Len(text) + 1
      /\ \A i \in 1..Len(text) : more[i] = text[i]
      /\ more[Len(text) + 1] = caller
      /\ DOMAIN text = 1..Len(text) /\ DOMAIN more = 1..Len(text) + 1
      /\ Len(text) \in Nat
  OBVIOUS
<1> HIDE DEF more
<1>2. IsPrefix(text, more)
  BY <1>1 DEF IsPrefix
<1>3. Marked(caller, more)
  BY <1>1 DEF Marked, ToSet
<1>4. ASSUME NEW other, Marked(other, text) PROVE Marked(other, more)
  BY <1>1, <1>4 DEF Marked, ToSet
<1>5. ASSUME IsInjective(text), ~Marked(caller, text) PROVE IsInjective(more)
  BY <1>1, <1>5 DEF IsInjective, Marked, ToSet
<1>. QED
  BY <1>1, <1>2, <1>3, <1>4, <1>5 DEF more

(* What the server does with such an edit: nothing, or it adds the mark.   *)
LEMMA EditAddsMark ==
    ASSUME AgentsTypeOK, NEW caller \in Callers, NEW arguments,
           AddsMark(caller, arguments), Edit(arguments)
    PROVE  body' = Append(body, caller) /\ ~Marked(caller, body)
<1>1. arguments["old_body"] = String(body)
  BY DEF Edit, Matches, AddsMark
<1>2. arguments["old_body"][2] = body
  BY <1>1 DEF String
<1>3. arguments["new_body"] = String(Append(body, caller)) /\ ~Marked(caller, body)
  BY <1>2 DEF AddsMark
<1>4. arguments["append"] # Bool(TRUE)
  BY DEF AddsMark, Bool
<1>5. body' = arguments["new_body"][2]
  BY <1>4 DEF Edit
<1>. QED
  BY <1>3, <1>5 DEF String

(* A server that carries out a guarded edit leaves every mark where it is  *)
(* and nobody twice in the body.                                           *)
LEMMA EditKeeps ==
    ASSUME AgentsInv, NEW caller \in Callers, NEW arguments,
           AddsMark(caller, arguments), Edit(arguments)
    PROVE  /\ body' \in Seq(Callers) /\ IsPrefix(body, body') /\ IsInjective(body')
           /\ Marked(caller, body')
           /\ \A other : Marked(other, body) => Marked(other, body')
<1>1. body' = Append(body, caller) /\ ~Marked(caller, body)
  BY EditAddsMark DEF AgentsInv
<1>2. body \in Seq(Callers) /\ IsInjective(body)
  BY DEF AgentsInv, AgentsTypeOK, EditedOnce
<1>. QED
  BY <1>1, <1>2, AppendMark

----------------------------------------------------------------------------
(* Before anybody has read, nothing is under way and nothing is marked.    *)
LEMMA AgentsInitially == Init => AgentsInv
<1> SUFFICES ASSUME Init PROVE AgentsInv
  OBVIOUS
<1>1. AgentsTypeOK
  BY EmptySeq DEF Init, AgentsTypeOK
<1>2. EditsAreGuarded /\ DoneMeansDone
  BY DEF Init, EditsAreGuarded, DoneMeansDone
<1>3. EditedOnce
  BY DEF Init, EditedOnce, IsInjective
<1>. QED
  BY <1>1, <1>2, <1>3 DEF AgentsInv

(* A caller's own step, whichever way its run ends, keeps the invariant:   *)
(* a request is guarded when it is made, and may be left behind.           *)
LEMMA CallerKeeps ==
    ASSUME AgentsInv, NEW caller \in Callers, CallerActs(caller) \/ Troubled(caller)
    PROVE  AgentsInv' /\ body' = body
<1> USE DEF AgentsInv, AgentsTypeOK, EditsAreGuarded, EditedOnce, DoneMeansDone
<1>1. CASE ReadBody(caller)
  BY <1>1 DEF ReadBody, Marked
<1>2. CASE StartEdit(caller)
  <2>1. AddsMark(caller, BodyArguments(Options(caller)))
    BY <1>2, RequestIsGuarded DEF StartEdit
  <2>2. AgentsTypeOK' /\ EditedOnce' /\ DoneMeansDone'
    BY <1>2 DEF StartEdit, Marked
  <2>3. EditsAreGuarded'
    <3>1. ASSUME NEW other \in Callers, at'[other] = "run"
          PROVE  AddsMark(other, request'[other])
      BY <1>2, <2>1, <3>1 DEF StartEdit
    <3>2. \A other \in Callers :
            /\ at'[other] = "edit" => ~Marked(other, seen'[other])
            /\ at'[other] = "run" /\ effects'[other] = 1 => Marked(other, body')
      BY <1>2 DEF StartEdit
    <3>3. \A arguments \in late' : \E other \in Callers : AddsMark(other, arguments)
      BY <1>2 DEF StartEdit
    <3>. QED
      BY <3>1, <3>2, <3>3 DEF Marked, AddsMark
  <2>. QED
    BY <1>2, <2>2, <2>3 DEF StartEdit
<1>3. CASE Applied(caller)
  BY <1>3 DEF Applied, Run!MayConclude, Marked, AddsMark
<1>4. CASE Refused(caller)
  BY <1>4 DEF Refused, Marked, AddsMark
<1>5. CASE Troubled(caller)
  <2>1. /\ UNCHANGED <<body, seen, request, effects>>
        /\ at' = [at EXCEPT ![caller] = "read"]
        /\ late' \subseteq late \cup {request[caller]}
    BY <1>5 DEF Troubled
  <2>2. AddsMark(caller, request[caller])
    BY <1>5 DEF Troubled
  <2>3. AgentsTypeOK' /\ EditedOnce' /\ DoneMeansDone'
    BY <2>1 DEF Marked
  <2>4. \A arguments \in late' : \E other \in Callers : AddsMark(other, arguments)
    BY <2>1, <2>2
  <2>5. EditsAreGuarded'
    BY <2>1, <2>4 DEF Marked, AddsMark
  <2>. QED
    BY <2>1, <2>3, <2>5
<1>. QED
  BY <1>1, <1>2, <1>3, <1>4, <1>5 DEF CallerActs

(* So does the server, in time or late.                                    *)
LEMMA ServerKeeps ==
    ASSUME AgentsInv, (\E caller \in Callers : ServerEdits(caller)) \/ ServerEditsLate
    PROVE  AgentsInv' /\ IsPrefix(body, body')
<1>1. ASSUME NEW caller \in Callers, ServerEdits(caller)
      PROVE  AgentsInv' /\ IsPrefix(body, body')
  <2>1. AddsMark(caller, request[caller]) /\ Edit(request[caller])
    BY <1>1 DEF ServerEdits, AgentsInv, EditsAreGuarded
  <2>2. /\ body' \in Seq(Callers) /\ IsPrefix(body, body') /\ IsInjective(body')
        /\ Marked(caller, body')
        /\ \A other : Marked(other, body) => Marked(other, body')
    BY <2>1, EditKeeps
  <2>3. AgentsTypeOK'
    BY <1>1, <2>2 DEF ServerEdits, AgentsInv, AgentsTypeOK
  <2>4. EditsAreGuarded' /\ DoneMeansDone'
    BY <1>1, <2>2 DEF ServerEdits, AgentsInv, AgentsTypeOK, EditsAreGuarded, DoneMeansDone,
                      Marked, AddsMark
  <2>. QED
    BY <2>2, <2>3, <2>4 DEF AgentsInv, EditedOnce
<1>2. ASSUME ServerEditsLate PROVE AgentsInv' /\ IsPrefix(body, body')
  <2>1. PICK arguments \in late : Edit(arguments) /\ late' = late \ {arguments}
    BY <1>2 DEF ServerEditsLate
  <2>2. PICK caller \in Callers : AddsMark(caller, arguments)
    BY <2>1 DEF AgentsInv, EditsAreGuarded
  <2>3. /\ body' \in Seq(Callers) /\ IsPrefix(body, body') /\ IsInjective(body')
        /\ \A other : Marked(other, body) => Marked(other, body')
    BY <2>1, <2>2, EditKeeps
  <2>4. AgentsTypeOK'
    BY <1>2, <2>3 DEF ServerEditsLate, AgentsInv, AgentsTypeOK
  <2>5. EditsAreGuarded' /\ DoneMeansDone'
    BY <1>2, <2>1, <2>3 DEF ServerEditsLate, AgentsInv, AgentsTypeOK, EditsAreGuarded,
                            DoneMeansDone, Marked, AddsMark
  <2>. QED
    BY <2>3, <2>4, <2>5 DEF AgentsInv, EditedOnce
<1>. QED
  BY <1>1, <1>2

(* A text is a prefix of itself.                                           *)
LEMMA PrefixOfItself == ASSUME NEW text \in Seq(Callers) PROVE IsPrefix(text, text)
BY DEF IsPrefix

(* Every step keeps the invariant and what is in the body.                 *)
LEMMA AgentsInvInductive == AgentsInv /\ [Next]_vars => AgentsInv' /\ IsPrefix(body, body')
<1> SUFFICES ASSUME AgentsInv, [Next]_vars PROVE AgentsInv' /\ IsPrefix(body, body')
  OBVIOUS
<1>1. body \in Seq(Callers)
  BY DEF AgentsInv, AgentsTypeOK
<1>2. ASSUME NEW caller \in Callers, CallerActs(caller) \/ Troubled(caller)
      PROVE  AgentsInv' /\ IsPrefix(body, body')
  BY <1>1, <1>2, CallerKeeps, PrefixOfItself
<1>3. CASE UNCHANGED vars
  <2>1. AgentsInv'
    BY <1>3 DEF vars, AgentsInv, AgentsTypeOK, EditsAreGuarded, EditedOnce, DoneMeansDone,
                Marked, AddsMark
  <2>. QED
    BY <1>1, <1>3, <2>1, PrefixOfItself DEF vars
<1>. QED
  BY <1>2, <1>3, ServerKeeps DEF Next

(* The invariant holds throughout.                                         *)
LEMMA AgentsInvHolds == Spec => []AgentsInv
BY AgentsInitially, AgentsInvInductive, PTL DEF Spec

----------------------------------------------------------------------------
(* Nobody's text is overwritten, however many callers there are and        *)
(* however late a request is carried out (cli.rs:266).                     *)
THEOREM NobodyOverwritten == Spec => NoUpdateLost
<1>1. AgentsInv /\ [Next]_vars => [IsPrefix(body, body')]_vars
  BY AgentsInvInductive
<1>. QED
  BY <1>1, AgentsInvHolds, PTL DEF Spec, NoUpdateLost

(* No caller makes its edit twice by repeating it, though both requests    *)
(* may be carried out (error.rs:31-38 leaves it to look first).            *)
THEOREM RepeatedIsEditedOnce == Spec => []EditedOnce
<1>1. AgentsInv => EditedOnce
  BY DEF AgentsInv
<1>. QED
  BY <1>1, AgentsInvHolds, PTL

(* The edit of a caller that was told so is in the body and stays there.   *)
THEOREM ToldIsDone == Spec => []DoneMeansDone
<1>1. AgentsInv => DoneMeansDone
  BY DEF AgentsInv
<1>. QED
  BY <1>1, AgentsInvHolds, PTL
=============================================================================
