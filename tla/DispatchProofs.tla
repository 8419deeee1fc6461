--------------------------- MODULE DispatchProofs ---------------------------
(***************************************************************************)
(* What holds of the way from a command line to its tool call for command  *)
(* lines of any length and any words.                                      *)
(***************************************************************************)
EXTENDS Dispatch, NumberLemmas, SequenceTheorems

(* What was typed for an option are words for it, in order, and what is    *)
(* sent is made of what was typed.                                         *)
Typed ==
    /\ DOMAIN given = OptionsOf(Syntax(path))
    /\ \A option \in DOMAIN given : given[option] \in Seq(WordsFor(option))
    /\ phase = "sent" => request = RequestFor(path, given)

----------------------------------------------------------------------------
(* The keys that are set.                                                  *)
KeysSet(pairs) == {pairs[i][1] : i \in DOMAIN pairs}

(* Every key that is named is there once, removed if an --unset names it.  *)
Merges(pairs, unsets) ==
    LET properties == Properties(pairs, unsets)
    IN  /\ DOMAIN properties = ToSet(unsets) \cup KeysSet(pairs)
        /\ \A key \in ToSet(unsets) : properties[key] = Null
        /\ \A i \in DOMAIN pairs :
               pairs[i][1] \notin ToSet(unsets) =>
                   properties[pairs[i][1]] = SetPairs(pairs)[pairs[i][1]]

(* The members of the merged properties.                                   *)
LEMMA MergedKeys ==
    ASSUME NEW S, NEW pairs \in Seq(S), NEW unsets
    PROVE  Merges(pairs, unsets)
<1>1. DOMAIN SetPairs(pairs) = KeysSet(pairs) /\ \A i \in DOMAIN pairs : pairs[i][1] \in KeysSet(pairs)
  BY DEF SetPairs, ToSet, KeysSet
<1>2. ASSUME NEW sets PROVE
        LET unset == [key \in ToSet(unsets) |-> Null]
        IN  /\ DOMAIN (unset ++ sets) = ToSet(unsets) \cup DOMAIN sets
            /\ \A key \in ToSet(unsets) : (unset ++ sets)[key] = Null
            /\ \A key \in DOMAIN sets \ ToSet(unsets) : (unset ++ sets)[key] = sets[key]
  BY DEF ++
<1>. QED
  BY <1>1, <1>2 DEF Merges, Properties

(* The value of a --set is the one that stays, or a later one of its key.  *)
LEMMA MergedValues ==
    ASSUME NEW S, NEW pairs \in Seq(S), NEW i \in DOMAIN pairs
    PROVE  \/ SetPairs(pairs)[pairs[i][1]] = String(pairs[i][2])
           \/ \E j \in DOMAIN pairs : j > i /\ pairs[j][1] = pairs[i][1]
<1> DEFINE I == {j \in 1..Len(pairs) : pairs[j][1] = pairs[i][1]}
           last == Max(I)
<1>1. Len(pairs) \in Nat /\ DOMAIN pairs = 1..Len(pairs)
  OBVIOUS
<1>2. i \in I /\ I \subseteq Nat /\ \A j \in I : j <= Len(pairs)
  BY <1>1
<1>3. last \in I /\ \A j \in I : j <= last
  <2> HIDE DEF I
  <2>. QED
    BY <1>1, <1>2, MaxIsGreatest
<1>4. pairs[i][1] \in {pair[1] : pair \in ToSet(pairs)}
  BY DEF ToSet
<1>5. SetPairs(pairs)[pairs[i][1]] = String(pairs[last][2])
  BY <1>2, <1>4 DEF SetPairs, SelectLastInSeq
<1> HIDE DEF last
<1>6. last \in DOMAIN pairs /\ last >= i /\ pairs[last][1] = pairs[i][1]
  BY <1>1, <1>2, <1>3
<1>. QED
  BY <1>1, <1>5, <1>6

----------------------------------------------------------------------------
(* What is typed is typed for the options of the path, and what is sent    *)
(* made of it.                                                             *)
LEMMA TypedHolds == Spec => []Typed
<1>1. Init => Typed
  BY EmptySeq DEF Init, Typed
<1>2. Typed /\ [Next]_dispatchVars => Typed'
  <2> SUFFICES ASSUME Typed, [Next]_dispatchVars PROVE Typed'
    OBVIOUS
  <2> USE DEF Typed
  <2>1. CASE Type
    <3>0. PICK option \in DOMAIN given : \E word \in WordsFor(option), joined \in BOOLEAN :
             given' = [given EXCEPT ![option] = Append(@, word)]
      BY <2>1 DEF Type
    <3>1. PICK word \in WordsFor(option) :
             given' = [given EXCEPT ![option] = Append(@, word)]
      BY <3>0
    <3>2. Append(given[option], word) \in Seq(WordsFor(option))
      BY <3>1, AppendProperties
    <3>3. UNCHANGED <<path, phase, request>> /\ phase = "typing"
      BY <2>1 DEF Type
    <3>. QED
      BY <3>1, <3>2, <3>3
  <2>2. CASE TypeExpressionFirst \/ Parse \/ Refuse \/ AnswerLocally
    BY <2>2 DEF TypeExpressionFirst, Parse, Refuse, AnswerLocally
  <2>3. CASE Send
    BY <2>3 DEF Send
  <2>4. CASE UNCHANGED dispatchVars
    BY <2>4 DEF dispatchVars
  <2>. QED
    BY <2>1, <2>2, <2>3, <2>4 DEF Next
<1>. QED
  BY <1>1, <1>2, PTL DEF Spec

----------------------------------------------------------------------------
(* A path stands for one form of command line and one entry.               *)
LEMMA OneSyntax == \A syntax \in Grammar : Syntax(syntax.path) = syntax
<1>1. /\ \A a \in ReadSyntax : a.path[1] \in {"read", "read-headline", "outline"}
      /\ \A a, b \in ReadSyntax : a.path = b.path => a = b
  BY DEF ReadSyntax, Accepts
<1>2. /\ \A a \in QuerySyntax : a.path[1] \in {"query"}
      /\ \A a, b \in QuerySyntax : a.path = b.path => a = b
  BY DEF QuerySyntax, Accepts
<1>3. /\ \A a \in TodoSyntax : a.path[1] \in {"todo"}
      /\ \A a, b \in TodoSyntax : a.path = b.path => a = b
  BY DEF TodoSyntax, Accepts
<1>4. /\ \A a \in EditSyntax : a.path[1] \in {"edit"}
      /\ \A a, b \in EditSyntax : a.path = b.path => a = b
  BY DEF EditSyntax, Accepts
<1>5. /\ \A a \in ClockSyntax : a.path[1] \in {"clock"}
      /\ \A a, b \in ClockSyntax : a.path = b.path => a = b
  BY DEF ClockSyntax, Accepts
<1>6. /\ \A a \in ConfigSyntax : a.path[1] \in {"config"}
      /\ \A a, b \in ConfigSyntax : a.path = b.path => a = b
  BY DEF ConfigSyntax, Accepts
<1>7. /\ \A a \in OtherSyntax : a.path[1] \in {"tools", "schema"}
      /\ \A a, b \in OtherSyntax : a.path = b.path => a = b
  BY DEF OtherSyntax, Accepts
<1>8. \A a, b \in Grammar : a.path = b.path => a = b
  BY <1>1, <1>2, <1>3, <1>4, <1>5, <1>6, <1>7 DEF Grammar
<1>. QED
  BY <1>8 DEF Syntax

(* The entry of a path is the only one registered for it.                  *)
LEMMA OneEntry ==
    ASSUME NEW command \in COMMANDS,
           command.path = IF path = <<"query", "run">> THEN <<"query">> ELSE path
    PROVE  Entry = command
<1>1. /\ \A a \in ReadCommands : a.path[1] \in {"read", "read-headline", "outline"}
      /\ \A a, b \in ReadCommands : a.path = b.path => a = b
  BY DEF ReadCommands, Command
<1>2. /\ \A a \in QueryCommands : a.path[1] \in {"query"}
      /\ \A a, b \in QueryCommands : a.path = b.path => a = b
  BY DEF QueryCommands, Command
<1>3. /\ \A a \in TodoCommands : a.path[1] \in {"todo"}
      /\ \A a, b \in TodoCommands : a.path = b.path => a = b
  BY DEF TodoCommands, Command
<1>4. /\ \A a \in TextCommands \cup AttributeCommands \cup DateCommands : a.path[1] \in {"edit"}
      /\ \A a, b \in TextCommands \cup AttributeCommands \cup DateCommands : a.path = b.path => a = b
  BY DEF TextCommands, AttributeCommands, DateCommands, Command
<1>5. /\ \A a \in ClockCommands \cup ClockEntryCommands : a.path[1] \in {"clock"}
      /\ \A a, b \in ClockCommands \cup ClockEntryCommands : a.path = b.path => a = b
  BY DEF ClockCommands, ClockEntryCommands, Command
<1>6. /\ \A a \in ConfigCommands : a.path[1] \in {"config"}
      /\ \A a, b \in ConfigCommands : a.path = b.path => a = b
  BY DEF ConfigCommands, Command
<1>7. /\ \A a \in InternalCommands : a.path[1] \in {"tools", "schema"}
      /\ \A a, b \in InternalCommands : a.path = b.path => a = b
  BY DEF InternalCommands, Command
<1>8. \A a, b \in COMMANDS : a.path = b.path => a = b
  BY <1>1, <1>2, <1>3, <1>4, <1>5, <1>6, <1>7 DEF COMMANDS
<1>. QED
  BY <1>8 DEF Entry

----------------------------------------------------------------------------
(* The properties that are sent are the ones the command line gives.       *)
LEMMA PropertiesSent ==
    path = <<"edit", "properties">> =>
        RequestFor(path, given).arguments["properties"][2] =
            Properties(given["set"], given["unset"])
<1> SUFFICES ASSUME path = <<"edit", "properties">>
             PROVE  RequestFor(path, given).arguments["properties"][2] =
                        Properties(given["set"], given["unset"])
  OBVIOUS
<1> DEFINE members == Properties(given["set"], given["unset"])
<1>1. RequestFor(path, given) = Call("org-set-properties", PropertiesArguments(given))
  <2>1. path[1] = "edit" /\ path[2] = "properties"
    OBVIOUS
  <2>2. RequestFor(path, given) = EditCall(path, given)
    BY <2>1 DEF RequestFor
  <2>. QED
    BY <2>1, <2>2 DEF EditCall
<1> HIDE DEF members
<1>2. PropertiesArguments(given) =
        Field("uri", Target(given["uri"])) ++ Field("properties", Object(members))
  BY DEF PropertiesArguments, members
<1>3. \A target : (Field("uri", target) ++ Field("properties", Object(members)))["properties"]
                    = Object(members)
  BY DEF Field, ++
<1>4. RequestFor(path, given).arguments = PropertiesArguments(given)
  BY <1>1 DEF Call
<1>. QED
  BY <1>2, <1>3, <1>4 DEF Object, members

(* `edit properties` tells the server one thing of every key it names: the *)
(* state property, for any number of --set and --unset                     *)
(* (cmd_edit_properties, parse_set_pairs of src/main.rs).                  *)
THEOREM EveryKeyMeansOneThing == Spec => []PropertiesMerged
<1>1. Typed => PropertiesMerged
  <2> SUFFICES ASSUME Typed, phase = "sent", path = <<"edit", "properties">>
               PROVE  PropertiesMerged
    BY DEF PropertiesMerged
  <2> DEFINE sets == given["set"]
             unsets == given["unset"]
  <2>1. request.arguments["properties"][2] = Properties(sets, unsets)
    BY PropertiesSent DEF Typed
  <2>2. Accepts(<<"edit", "properties">>, {"uri"}, {}, {"set", "unset"}) \in Grammar
    BY DEF Grammar, EditSyntax
  <2>3. Syntax(path) = Accepts(<<"edit", "properties">>, {"uri"}, {}, {"set", "unset"})
    BY <2>2, OneSyntax DEF Accepts
  <2>4. "set" \in DOMAIN given
    BY <2>3 DEF Typed, OptionsOf, Accepts
  <2>5. sets \in Seq(WordsFor("set"))
    BY <2>4 DEF Typed
  <2> HIDE DEF sets, unsets
  <2>6. Merges(sets, unsets)
    BY <2>5, MergedKeys
  <2>7. \A i \in DOMAIN sets :
             \/ SetPairs(sets)[sets[i][1]] = String(sets[i][2])
             \/ \E j \in DOMAIN sets : j > i /\ sets[j][1] = sets[i][1]
    BY <2>5, MergedValues
  <2>. QED
    BY <2>1, <2>6, <2>7 DEF PropertiesMerged, Merges, KeysSet, sets, unsets
<1>. QED
  BY <1>1, TypedHolds, PTL

----------------------------------------------------------------------------
(* What of a parameter says how often it may be given.                     *)
Is(param, name, required, repeated) ==
    /\ param.name = name
    /\ param.required = required
    /\ param.repeated = repeated

(* The options a command line is not accepted without.                     *)
Demanded(syntax) == IF syntax.path = <<"query">> THEN {"ql_expr"} ELSE syntax.one

(* The registry has the options of the command line, and says of each what *)
(* the command line holds it to.                                           *)
Agrees(syntax, params) ==
    /\ \A param \in params :
          /\ param.name \in OptionsOf(syntax)
          /\ param.required <=> param.name \in Demanded(syntax)
          /\ param.repeated <=> param.name \in syntax.many
    /\ \A option \in OptionsOf(syntax) : \E param \in params : param.name = option

(* A syntax has an entry that agrees with it.                              *)
Registers(syntax, commands) ==
    \E command \in commands :
        /\ command.path = IF syntax.path = <<"query", "run">> THEN <<"query">> ELSE syntax.path
        /\ Agrees(syntax, command.params)

(* What some entries register, more entries register.                      *)
LEMMA RegistersMore ==
    \A syntax, S, T : Registers(syntax, S) /\ S \subseteq T => Registers(syntax, T)
  BY DEF Registers

(* The registry of reading agrees with its command lines.                  *)
LEMMA ReadRegistered == \A syntax \in ReadSyntax : Registers(syntax, ReadCommands)
<1>1. /\ Is(Node, "uri", TRUE, FALSE)
      /\ Is(Required(Positional(Option("file"))), "file", TRUE, FALSE)
  BY DEF Is, Node, Required, Positional, EitherUri, Option, Param
<1>. QED
  BY <1>1 DEF ReadSyntax, ReadCommands, Accepts, Command, Registers, Agrees, Demanded, OptionsOf, Is

(* The registry of queries agrees with their command lines.                *)
LEMMA QueryRegistered == \A syntax \in QuerySyntax : Registers(syntax, QueryCommands)
<1>1. /\ Is(Required(Positional(Param("ql_expr", "query"))), "ql_expr", TRUE, FALSE)
      /\ Is(Repeated(Option("files")), "files", FALSE, TRUE)
      /\ Is(Option("tag"), "tag", FALSE, FALSE)
  BY DEF Is, Required, Positional, Repeated, Option, Param
<1>. QED
  BY <1>1 DEF QuerySyntax, QueryCommands, Accepts, Command, Registers, Agrees, Demanded, OptionsOf, Is

(* The registry of TODO states agrees with their command lines.            *)
LEMMA TodoRegistered == \A syntax \in TodoSyntax : Registers(syntax, TodoCommands)
<1>1. /\ Is(Node, "uri", TRUE, FALSE)
      /\ Is(Required(Positional(Param("new-state", "new_state"))), "new-state", TRUE, FALSE)
      /\ Is(Param("from", "current_state"), "from", FALSE, FALSE)
      /\ Is(Option("note"), "note", FALSE, FALSE)
  BY DEF Is, Node, Required, Positional, EitherUri, Option, Param
<1>2. /\ Is(Required(EitherUri(Param("parent", "parent_uri"))), "parent", TRUE, FALSE)
      /\ Is(Required(Option("title")), "title", TRUE, FALSE)
      /\ Is(Required(Param("state", "todo_state")), "state", TRUE, FALSE)
      /\ Is(Option("body"), "body", FALSE, FALSE)
      /\ Is(Repeated(Param("tag", "tags")), "tag", FALSE, TRUE)
      /\ Is(BareUri(Param("after", "after_uri")), "after", FALSE, FALSE)
  BY DEF Is, Required, Repeated, EitherUri, BareUri, Option, Param
<1>. QED
  BY <1>1, <1>2
  DEF TodoSyntax, TodoCommands, Accepts, Command, Registers, Agrees, Demanded, OptionsOf, Is

(* The registry of edits agrees with their command lines.                  *)
LEMMA EditRegistered ==
    \A syntax \in EditSyntax : Registers(syntax, TextCommands \cup AttributeCommands \cup DateCommands)
<1>1. /\ Is(Node, "uri", TRUE, FALSE)
      /\ Is([Node EXCEPT !.key = "resource_uri"], "uri", TRUE, FALSE)
      /\ Is(Required(Param("from", "current_title")), "from", TRUE, FALSE)
      /\ Is(Required(Param("to", "new_title")), "to", TRUE, FALSE)
      /\ Is(Required(Param("new", "new_body")), "new", TRUE, FALSE)
      /\ Is(Param("old", "old_body"), "old", FALSE, FALSE)
      /\ Is(Flag(Option("append")), "append", FALSE, FALSE)
  BY DEF Is, Node, Required, Positional, EitherUri, Flag, Option, Param
<1>2. /\ Is(Repeated(Param("set", "properties")), "set", FALSE, TRUE)
      /\ Is(Repeated(Param("unset", "properties")), "unset", FALSE, TRUE)
      /\ Is(Repeated(Param("tag", "tags")), "tag", FALSE, TRUE)
      /\ Is(Option("priority"), "priority", FALSE, FALSE)
      /\ Is(Param("date", "scheduled"), "date", FALSE, FALSE)
      /\ Is(Param("date", "deadline"), "date", FALSE, FALSE)
      /\ Is(Required(Option("note")), "note", TRUE, FALSE)
  BY DEF Is, Required, Repeated, Option, Param
<1> USE DEF Registers, Agrees, Demanded, OptionsOf, Is, Accepts, Command
<1>3. /\ Registers(Accepts(<<"edit", "rename">>, {"uri", "from", "to"}, {}, {}), TextCommands)
      /\ Registers(Accepts(<<"edit", "body">>, {"uri", "new"}, {"old", "append"}, {}),
                   TextCommands)
  <2>1. Agrees(Accepts(<<"edit", "rename">>, {"uri", "from", "to"}, {}, {}),
               {Node, Required(Param("from", "current_title")), Required(Param("to", "new_title"))})
    BY <1>1
  <2>2. Agrees(Accepts(<<"edit", "body">>, {"uri", "new"}, {"old", "append"}, {}),
               {[Node EXCEPT !.key = "resource_uri"], Required(Param("new", "new_body")),
                Param("old", "old_body"), Flag(Option("append"))})
    BY <1>1
  <2> HIDE DEF Agrees
  <2>. QED
    BY ONLY <2>1, <2>2 DEF TextCommands, Registers, Accepts, Command
<1>4. \A syntax \in {Accepts(<<"edit", "properties">>, {"uri"}, {}, {"set", "unset"}),
                     Accepts(<<"edit", "tags">>, {"uri"}, {}, {"tag"}),
                     Accepts(<<"edit", "priority">>, {"uri"}, {"priority"}, {})} :
        Registers(syntax, AttributeCommands)
  BY <1>1, <1>2 DEF AttributeCommands
<1>5. \A syntax \in {Accepts(<<"edit", "scheduled">>, {"uri"}, {"date"}, {}),
                     Accepts(<<"edit", "deadline">>, {"uri"}, {"date"}, {}),
                     Accepts(<<"edit", "log-note">>, {"uri", "note"}, {}, {})} :
        Registers(syntax, DateCommands)
  BY <1>1, <1>2 DEF DateCommands
<1>6. \A syntax \in EditSyntax :
        \/ Registers(syntax, TextCommands)
        \/ Registers(syntax, AttributeCommands)
        \/ Registers(syntax, DateCommands)
  BY ONLY <1>3, <1>4, <1>5 DEF EditSyntax
<1>. QED
  BY ONLY <1>6, RegistersMore

(* The registry of the clock agrees with its command lines.                *)
LEMMA ClockRegistered ==
    \A syntax \in ClockSyntax : Registers(syntax, ClockCommands \cup ClockEntryCommands)
<1>1. /\ Is(Node, "uri", TRUE, FALSE)
      /\ Is([Node EXCEPT !.required = FALSE], "uri", FALSE, FALSE)
      /\ Is(Param("at", "start_time"), "at", FALSE, FALSE)
      /\ Is(Param("at", "end_time"), "at", FALSE, FALSE)
      /\ Is(BoolAsString(Flag(Option("resolve"))), "resolve", FALSE, FALSE)
      /\ Is(Required(Option("start")), "start", TRUE, FALSE)
      /\ Is(Required(Option("end")), "end", TRUE, FALSE)
      /\ Is(Required(Param("at", "start")), "at", TRUE, FALSE)
  BY DEF Is, Node, Required, Positional, EitherUri, Flag, BoolAsString, Option, Param
<1> USE DEF Registers, Agrees, Demanded, OptionsOf, Is, Accepts, Command
<1>2. /\ Registers(Accepts(<<"clock", "status">>, {}, {}, {}), ClockCommands)
      /\ Registers(Accepts(<<"clock", "in">>, {"uri"}, {"at", "resolve"}, {}), ClockCommands)
      /\ Registers(Accepts(<<"clock", "out">>, {}, {"uri", "at"}, {}), ClockCommands)
  <2>1. Agrees(Accepts(<<"clock", "status">>, {}, {}, {}), {})
    OBVIOUS
  <2>2. Agrees(Accepts(<<"clock", "in">>, {"uri"}, {"at", "resolve"}, {}),
               {Node, Param("at", "start_time"), BoolAsString(Flag(Option("resolve")))})
    BY <1>1
  <2>3. Agrees(Accepts(<<"clock", "out">>, {}, {"uri", "at"}, {}),
               {[Node EXCEPT !.required = FALSE], Param("at", "end_time")})
    BY <1>1
  <2> HIDE DEF Agrees
  <2>. QED
    BY ONLY <2>1, <2>2, <2>3 DEF ClockCommands, Registers, Accepts, Command
<1>3. \A syntax \in {Accepts(<<"clock", "add">>, {"uri", "start", "end"}, {}, {}),
                     Accepts(<<"clock", "delete">>, {"uri", "at"}, {}, {}),
                     Accepts(<<"clock", "dangling">>, {}, {}, {})} :
        Registers(syntax, ClockEntryCommands)
  BY <1>1 DEF ClockEntryCommands
<1> HIDE DEF Registers, Accepts
<1>4. \A syntax \in ClockSyntax :
        Registers(syntax, ClockCommands) \/ Registers(syntax, ClockEntryCommands)
  BY ONLY <1>2, <1>3 DEF ClockSyntax
<1>. QED
  BY ONLY <1>4, RegistersMore

(* The registry of the configuration agrees with its command lines.        *)
LEMMA ConfigRegistered == \A syntax \in ConfigSyntax : Registers(syntax, ConfigCommands)
  BY DEF ConfigSyntax, ConfigCommands, Accepts, Command, Registers, Agrees, Demanded, OptionsOf

(* The registry of `tools` agrees with its command lines.                  *)
LEMMA OtherRegistered ==
    \A syntax \in OtherSyntax : syntax.path # <<"schema">> => Registers(syntax, InternalCommands)
<1>1. /\ Is(Required(Positional(Option("name"))), "name", TRUE, FALSE)
      /\ Is(Param("args", "arguments"), "args", FALSE, FALSE)
  BY DEF Is, Required, Positional, Option, Param
<1>. QED
  BY <1>1
  DEF OtherSyntax, InternalCommands, Accepts, Command, Registers, Agrees, Demanded, OptionsOf, Is

(* Every command line but that of `org schema` has an entry that agrees    *)
(* with it on what may be given.                                           *)
LEMMA GrammarRegistered ==
    \A syntax \in Grammar : syntax.path # <<"schema">> => Registers(syntax, COMMANDS)
<1>1. \A syntax \in Grammar : syntax.path # <<"schema">> =>
        \/ Registers(syntax, ReadCommands)
        \/ Registers(syntax, QueryCommands)
        \/ Registers(syntax, TodoCommands)
        \/ Registers(syntax, TextCommands \cup AttributeCommands \cup DateCommands)
        \/ Registers(syntax, ClockCommands \cup ClockEntryCommands)
        \/ Registers(syntax, ConfigCommands)
        \/ Registers(syntax, InternalCommands)
  BY ReadRegistered, QueryRegistered, TodoRegistered, EditRegistered, ClockRegistered,
     ConfigRegistered, OtherRegistered DEF Grammar
<1>2. /\ ReadCommands \subseteq COMMANDS
      /\ QueryCommands \subseteq COMMANDS
      /\ TodoCommands \subseteq COMMANDS
      /\ TextCommands \cup AttributeCommands \cup DateCommands \subseteq COMMANDS
      /\ ClockCommands \cup ClockEntryCommands \subseteq COMMANDS
      /\ ConfigCommands \subseteq COMMANDS
      /\ InternalCommands \subseteq COMMANDS
  BY DEF COMMANDS
<1>. QED
  BY <1>1, <1>2, RegistersMore

----------------------------------------------------------------------------
(* What became of a command line, from what was typed: nothing is refused  *)
(* or passed without a reason.                                             *)
Judged ==
    /\ path \in Paths
    /\ misread \in BOOLEAN
    /\ phase \in {"parsed", "sent"} => WellTyped(Syntax(path), given) /\ ~misread
    /\ phase = "sent" => ~UsageError
    /\ phase = "refused" =>
          \/ misread
          \/ ~WellTyped(Syntax(path), given)
          \/ WellTyped(Syntax(path), given) /\ UsageError

(* A command line is judged by what was typed.                             *)
LEMMA JudgedHolds == Spec => []Judged
<1>1. Init => Judged
  BY DEF Init, Judged
<1>2. Judged /\ [Next]_dispatchVars => Judged'
  <2> SUFFICES ASSUME Judged, [Next]_dispatchVars PROVE Judged'
    OBVIOUS
  <2> USE DEF Judged
  <2>1. CASE Type
    BY <2>1 DEF Type
  <2>7. CASE TypeExpressionFirst
    BY <2>7 DEF TypeExpressionFirst
  <2>2. CASE Parse
    BY <2>2 DEF Parse
  <2>3. CASE Refuse
    <3>1. UsageError' = UsageError
      BY <2>3 DEF Refuse, UsageError
    <3>. QED
      BY <2>3, <3>1 DEF Refuse
  <2>4. CASE AnswerLocally
    BY <2>4 DEF AnswerLocally
  <2>5. CASE Send
    <3>1. UsageError' = UsageError
      BY <2>5 DEF Send, UsageError
    <3>. QED
      BY <2>5, <3>1 DEF Send
  <2>6. CASE UNCHANGED dispatchVars
    <3>1. UsageError' = UsageError
      BY <2>6 DEF dispatchVars, UsageError
    <3>. QED
      BY <2>6, <3>1 DEF dispatchVars
  <2>. QED
    BY <2>1, <2>2, <2>3, <2>4, <2>5, <2>6, <2>7 DEF Next
<1>. QED
  BY <1>1, <1>2, PTL DEF Spec

(* The registry of a path but `schema` agrees with its syntax.             *)
LEMMA EntryAgrees ==
    ASSUME path \in Paths, path # <<"schema">>
    PROVE  /\ Syntax(path) \in Grammar
           /\ Syntax(path).path = path
           /\ Entry \in COMMANDS
           /\ Agrees(Syntax(path), Entry.params)
<1>1. PICK syntax \in Grammar : syntax.path = path
  BY DEF Paths
<1>2. Syntax(path) = syntax
  BY <1>1, OneSyntax
<1>3. PICK command \in COMMANDS :
        /\ command.path = IF path = <<"query", "run">> THEN <<"query">> ELSE path
        /\ Agrees(syntax, command.params)
  BY <1>1, GrammarRegistered DEF Registers
<1>4. Entry = command
  BY <1>3, OneEntry
<1>. QED
  BY <1>1, <1>2, <1>3, <1>4

(* An option is needed, or allowed once, or allowed many times.            *)
LEMMA OptionsDisjoint ==
    \A syntax \in Grammar :
        /\ syntax.one \cap syntax.many = {}
        /\ syntax.optional \cap syntax.many = {}
        /\ syntax.path = <<"query">> => syntax.one = {} /\ syntax.optional = {"ql_expr"}
        /\ syntax.path = <<"outline">> => "file" \in syntax.one
<1> USE DEF Accepts
<1>1. \A syntax \in ReadSyntax :
        /\ syntax.one \cap syntax.many = {}
        /\ syntax.optional \cap syntax.many = {}
        /\ syntax.path[1] # "query"
        /\ syntax.path = <<"outline">> => "file" \in syntax.one
  BY DEF ReadSyntax
<1>2. \A syntax \in QuerySyntax :
        /\ syntax.one \cap syntax.many = {}
        /\ syntax.optional \cap syntax.many = {}
        /\ syntax.path = <<"query">> => syntax.one = {} /\ syntax.optional = {"ql_expr"}
        /\ syntax.path[1] # "outline"
  BY DEF QuerySyntax
<1>3. \A syntax \in TodoSyntax \cup EditSyntax :
        /\ syntax.one \cap syntax.many = {}
        /\ syntax.optional \cap syntax.many = {}
        /\ syntax.path[1] # "query" /\ syntax.path[1] # "outline"
  BY DEF TodoSyntax, EditSyntax
<1>4. \A syntax \in ClockSyntax \cup ConfigSyntax \cup OtherSyntax :
        /\ syntax.one \cap syntax.many = {}
        /\ syntax.optional \cap syntax.many = {}
        /\ syntax.path[1] # "query" /\ syntax.path[1] # "outline"
  BY DEF ClockSyntax, ConfigSyntax, OtherSyntax
<1> HIDE DEF Accepts
<1>. QED
  BY <1>1, <1>2, <1>3, <1>4 DEF Grammar

(* A caller follows the registry if what is demanded is given, and nothing *)
(* is given twice that may not be.                                         *)
LEMMA FollowsIf ==
    ASSUME path \in Paths, path # <<"schema">>
    PROVE  FollowsRegistry <=>
             /\ \A option \in OptionsOf(Syntax(path)) \cap Demanded(Syntax(path)) :
                    given[option] # <<>>
             /\ \A option \in OptionsOf(Syntax(path)) :
                    Len(given[option]) > 1 => option \in Syntax(path).many
<1> DEFINE syntax == Syntax(path)
           params == Entry.params
<1>1. Agrees(syntax, params)
  BY EntryAgrees
<1> HIDE DEF syntax, params
<1>2. FollowsRegistry <=>
        \A param \in params :
            /\ param.required => given[param.name] # <<>>
            /\ Len(given[param.name]) > 1 => param.repeated
  BY DEF FollowsRegistry, params
<1>3. FollowsRegistry <=>
        \A option \in OptionsOf(syntax) :
            /\ option \in Demanded(syntax) => given[option] # <<>>
            /\ Len(given[option]) > 1 => option \in syntax.many
  BY ONLY <1>1, <1>2 DEF Agrees
<1>. QED
  BY <1>3 DEF syntax

(* A sequence of one word has that word.                                   *)
LEMMA OnlyWord ==
    \A S : \A words \in Seq(S) : Len(words) = 1 => ToSet(words) = {Head(words)}
  BY DEF ToSet

(* A command line is sent only if it follows the registry, has no bad      *)
(* value and no word that clap takes for something else, and is refused    *)
(* only for want of one of these: the state property, for command lines of *)
(* any length (clap and run() of src/main.rs against COMMANDS).            *)
THEOREM RegistryDecides == Spec => []AcceptedAsRegistered
<1>1. Typed /\ Judged => AcceptedAsRegistered
  <2> SUFFICES ASSUME Typed, Judged, path # <<"schema">>
               PROVE  /\ phase = "sent" => FollowsRegistry /\ ~BadValue /\ ~misread
                      /\ phase = "refused" => ~FollowsRegistry \/ BadValue \/ misread
    BY DEF AcceptedAsRegistered
  <2> DEFINE syntax == Syntax(path)
  <2>1. /\ syntax \in Grammar
        /\ syntax.path = path
        /\ path \in Paths
    BY EntryAgrees DEF Judged
  <2>2. /\ syntax.one \cap syntax.many = {}
        /\ syntax.optional \cap syntax.many = {}
        /\ path = <<"query">> => syntax.one = {} /\ syntax.optional = {"ql_expr"}
        /\ path = <<"outline">> => "file" \in syntax.one
    BY <2>1, OptionsDisjoint
  <2>3. \A option \in OptionsOf(syntax) :
          /\ Len(given[option]) \in Nat
          /\ given[option] = <<>> <=> Len(given[option]) = 0
          /\ given[option] # <<>> => Head(given[option]) \in ToSet(given[option])
    <3>. TAKE option \in OptionsOf(syntax)
    <3>1. given[option] \in Seq(WordsFor(option))
      BY DEF Typed
    <3>2. PICK S : given[option] \in Seq(S)
      BY <3>1
    <3>. QED
      BY <3>2 DEF ToSet
  <2>4. FollowsRegistry <=>
          /\ \A option \in OptionsOf(syntax) \cap Demanded(syntax) : given[option] # <<>>
          /\ \A option \in OptionsOf(syntax) : Len(given[option]) > 1 => option \in syntax.many
    BY <2>1, FollowsIf
  <2> HIDE DEF syntax
  <2>5. ASSUME phase = "sent" PROVE FollowsRegistry
    <3>1. WellTyped(syntax, given) /\ ~UsageError
      BY <2>5 DEF Judged, syntax
    <3>2. path = <<"query">> => given["ql_expr"] # <<>>
      BY <3>1 DEF UsageError
    <3>3. \A option \in OptionsOf(syntax) \cap Demanded(syntax) : given[option] # <<>>
      BY <2>1, <2>3, <3>1, <3>2 DEF Demanded, WellTyped
    <3>4. ASSUME NEW option \in OptionsOf(syntax), Len(given[option]) > 1
          PROVE  option \in syntax.many
      <4>1. \A n \in Nat : n > 1 => n # 1 /\ ~(n <= 1)
        OBVIOUS
      <4>2. Len(given[option]) # 1 /\ ~(Len(given[option]) <= 1)
        BY <2>3, <3>4, <4>1, Zenon
      <4>3. option \notin syntax.one /\ option \notin syntax.optional
        BY <3>1, <4>2, Zenon DEF WellTyped
      <4>. QED
        BY <4>3 DEF OptionsOf
    <3>. QED
      BY <2>4, <3>3, <3>4
  <2>6. ASSUME phase = "refused", ~WellTyped(syntax, given) PROVE ~FollowsRegistry
    <3>1. CASE \E option \in syntax.one : Len(given[option]) # 1
      <4>1. PICK option \in syntax.one : Len(given[option]) # 1
        BY <3>1
      <4>2. option \in OptionsOf(syntax) \cap Demanded(syntax) /\ option \notin syntax.many
        BY <2>1, <2>2 DEF OptionsOf, Demanded
      <4>3. given[option] = <<>> \/ Len(given[option]) > 1
        <5>1. \A n \in Nat : n # 1 => n = 0 \/ n > 1
          OBVIOUS
        <5>2. option \in OptionsOf(syntax)
          BY <4>2
        <5>. QED
          BY <2>3, <4>1, <5>1, <5>2, Zenon
      <4>. QED
        BY <2>4, <4>2, <4>3
    <3>2. CASE \E option \in syntax.optional : ~(Len(given[option]) <= 1)
      <4>1. PICK option \in syntax.optional : ~(Len(given[option]) <= 1)
        BY <3>2
      <4>2. option \in OptionsOf(syntax) /\ option \notin syntax.many
        BY <2>2 DEF OptionsOf
      <4>3. Len(given[option]) > 1
        <5>1. \A n \in Nat : ~(n <= 1) => n > 1
          OBVIOUS
        <5>. QED
          BY <2>3, <4>1, <4>2, <5>1, Zenon
      <4>. QED
        BY <2>4, <4>2, <4>3
    <3>. QED
      BY <2>6, <3>1, <3>2 DEF WellTyped
  <2>7. ASSUME phase = "refused", WellTyped(syntax, given), UsageError
        PROVE  ~FollowsRegistry \/ BadValue
    <3>1. CASE path = <<"outline">> /\ ~validate_outline_path(Head(given["file"]))
      <4>1. "file" \in OptionsOf(syntax) /\ Len(given["file"]) = 1
        BY <2>2, <2>7, <3>1 DEF OptionsOf, WellTyped
      <4>2. Head(given["file"]) \in ToSet(given["file"])
        BY <2>3, <4>1
      <4>. QED
        BY <3>1, <4>2 DEF BadValue, validate_outline_path
    <3>2. CASE path = <<"query">> /\ given["ql_expr"] = <<>>
      BY <2>1, <2>2, <2>4, <3>2 DEF OptionsOf, Demanded
    <3>3. CASE path = <<"edit", "properties">> /\ Malformed(given["set"])
      BY <3>3 DEF Malformed, BadValue
    <3>4. CASE path = <<"tools", "call">> /\ given["args"] # <<>> /\ ~Head(given["args"]).valid
      <4>1. Accepts(<<"tools", "call">>, {"name"}, {"args"}, {}) \in Grammar
        BY DEF Grammar, OtherSyntax
      <4>2. syntax = Accepts(<<"tools", "call">>, {"name"}, {"args"}, {})
        BY <3>4, <4>1, OneSyntax DEF Accepts, syntax
      <4>3. "args" \in OptionsOf(syntax)
        BY <4>2 DEF OptionsOf, Accepts
      <4>. QED
        BY <2>3, <3>4, <4>3 DEF BadValue
    <3>. QED
      BY <2>7, <3>1, <3>2, <3>3, <3>4 DEF UsageError
  <2>8. ASSUME phase = "sent" PROVE ~BadValue
    <3>1. WellTyped(syntax, given) /\ ~UsageError
      BY <2>8 DEF Judged, syntax
    <3>2. CASE path = <<"outline">>
      <4>1. "file" \in OptionsOf(syntax) /\ Len(given["file"]) = 1
        BY <2>2, <3>1, <3>2 DEF OptionsOf, WellTyped
      <4>2. ToSet(given["file"]) = {Head(given["file"])}
        BY <4>1, OnlyWord DEF Typed, syntax
      <4>3. validate_outline_path(Head(given["file"]))
        BY <3>1, <3>2 DEF UsageError
      <4>. QED
        BY <3>2, <4>2, <4>3 DEF BadValue, validate_outline_path
    <3>3. CASE path = <<"edit", "properties">>
      BY <3>1, <3>3 DEF UsageError, Malformed, BadValue
    <3>4. CASE path = <<"tools", "call">>
      <4>1. Accepts(<<"tools", "call">>, {"name"}, {"args"}, {}) \in Grammar
        BY DEF Grammar, OtherSyntax
      <4>2. syntax = Accepts(<<"tools", "call">>, {"name"}, {"args"}, {})
        BY <3>4, <4>1, OneSyntax DEF Accepts, syntax
      <4>3. "args" \in OptionsOf(syntax) /\ Len(given["args"]) <= 1
        BY <3>1, <4>2 DEF OptionsOf, Accepts, WellTyped
      <4>4. given["args"] \in Seq(WordsFor("args"))
        BY <4>3 DEF Typed, syntax
      <4>5. given["args"] = <<>> \/ Len(given["args"]) = 1
        <5>1. ASSUME NEW S, NEW words \in Seq(S), Len(words) <= 1
              PROVE  words = <<>> \/ Len(words) = 1
          <6>1. Len(words) \in Nat /\ (Len(words) = 0 => words = <<>>)
            OBVIOUS
          <6>2. \A n \in Nat : n <= 1 => n = 0 \/ n = 1
            OBVIOUS
          <6>. QED
            BY <5>1, <6>1, <6>2, Zenon
        <5>. QED
          BY <4>3, <4>4, <5>1
      <4>6. ToSet(<<>>) = {}
        BY DEF ToSet
      <4>7. Len(given["args"]) = 1 => ToSet(given["args"]) = {Head(given["args"])}
        BY <4>4, OnlyWord
      <4>8. \A args \in ToSet(given["args"]) : args = Head(given["args"]) /\ given["args"] # <<>>
        BY <4>5, <4>6, <4>7, Zenon
      <4>. QED
        BY <3>1, <3>4, <4>8 DEF UsageError, BadValue
    <3>. QED
      BY <3>2, <3>3, <3>4 DEF BadValue
  <2>. QED
    BY <2>5, <2>6, <2>7, <2>8 DEF Judged, syntax
<1>. QED
  BY <1>1, TypedHolds, JudgedHolds, PTL


----------------------------------------------------------------------------
(* The value under a key, or one that says that nothing was given.         *)
Holds(arguments, key, value) ==
    IF key \in DOMAIN arguments THEN arguments[key] = value ELSE value \in NotGiven

(* These arguments tell the server these members and no others.            *)
Says(arguments, members) ==
    /\ DOMAIN arguments \subseteq {member[1] : member \in members}
    /\ \A member \in members : Holds(arguments, member[1], member[2])

(* Every URI among the arguments was given for a parameter that takes one. *)
UrisGiven(arguments, params, g) ==
    \A key \in DOMAIN arguments :
        arguments[key][1] = "uri" =>
            \E param \in params :
                /\ param.uri_rule # "n/a" /\ g[param.name] # <<>>
                /\ arguments[key] = UriString(Stripped(Head(g[param.name])))

(* A call says what the registry entry lets expect; the properties, which  *)
(* have two options, are PropertiesMerged's.                               *)
Sends(call, command, g) ==
    /\ call.tool = command.target
    /\ DOMAIN call.arguments \subseteq {SentKey(param) : param \in command.params}
    /\ \A param \in command.params :
          param.key # "properties" =>
              Holds(call.arguments, SentKey(param), Expected(param, g[param.name]))
    /\ UrisGiven(call.arguments, command.params, g)

(* What is due of a parameter, and of all of an entry.                     *)
Due(param, g) == <<SentKey(param), Expected(param, g[param.name])>>

UriOrNull(words) == IF words = <<>> THEN Null ELSE UriString(Stripped(Head(words)))

Members(command, g) == {Due(param, g) : param \in command.params}

(* normalize_for_tool does what the registry lets a caller expect.         *)
LEMMA NormalizeStrips == \A uri : normalize_for_tool(uri) = Stripped(uri)
  BY DEF normalize_for_tool, Stripped, Bare, Uri

(* What one part of the arguments says.                                    *)
LEMMA SaysOne ==
    ASSUME NEW key, NEW words
    PROVE  /\ Says(Omitted(key, words), {<<key, OrNull(words)>>})
           /\ words # <<>> => Says(Field(key, The(words)), {<<key, OrNull(words)>>})
           /\ words # <<>> => Says(Field(key, Target(words)), {<<key, UriOrNull(words)>>})
           /\ Says(IF words = <<>> THEN NoArguments ELSE Field(key, Target(words)),
                      {<<key, UriOrNull(words)>>})
           /\ \A value : Says(Field(key, value), {<<key, value>>})
  BY NormalizeStrips
  DEF Says, Holds, Omitted, OrNull, The, UriOrNull, Field, NotGiven, NoArguments, Target

(* A URI is expected only of a parameter that takes one and was given.     *)
LEMMA ExpectedUri ==
    ASSUME NEW param, NEW words, Expected(param, words)[1] = "uri"
    PROVE  /\ param.uri_rule # "n/a" /\ words # <<>>
           /\ Expected(param, words) = UriString(Stripped(Head(words)))
<1>1. /\ \A text : String(text)[1] = "string"
      /\ \A flag : Bool(flag)[1] = "bool"
      /\ \A items : Array(items)[1] = "array"
      /\ Null[1] = "null"
  BY DEF String, Bool, Array, Null
<1>. QED
  BY <1>1 DEF Expected

(* A call that says its members is as registered.                          *)
LEMMA SaysSends ==
    ASSUME NEW call, NEW command, NEW g, call.tool = command.target,
           Says(call.arguments, Members(command, g))
    PROVE  Sends(call, command, g)
<1>0. /\ \A member \in Members(command, g) :
            \E param \in command.params : member[1] = SentKey(param)
      /\ \A param \in command.params :
            <<SentKey(param), Expected(param, g[param.name])>> \in Members(command, g)
  BY DEF Members, Due
<1>1. DOMAIN call.arguments \subseteq {SentKey(param) : param \in command.params}
  BY <1>0 DEF Says
<1>2. \A param \in command.params :
        Holds(call.arguments, SentKey(param), Expected(param, g[param.name]))
  BY <1>0 DEF Says
<1>3. UrisGiven(call.arguments, command.params, g)
  <2> SUFFICES ASSUME NEW key \in DOMAIN call.arguments, call.arguments[key][1] = "uri"
               PROVE  \E param \in command.params :
                        /\ param.uri_rule # "n/a" /\ g[param.name] # <<>>
                        /\ call.arguments[key] = UriString(Stripped(Head(g[param.name])))
    BY DEF UrisGiven
  <2>1. PICK param \in command.params : SentKey(param) = key
    BY <1>1
  <2>2. call.arguments[key] = Expected(param, g[param.name])
    BY <1>2, <2>1 DEF Holds
  <2>. QED
    BY <2>2, ExpectedUri
<1>. QED
  BY <1>1, <1>2, <1>3 DEF Sends

(* The node that a command is about.                                       *)
LEMMA NodeDue ==
    \A g : Due(Node, g) = <<"uri", UriOrNull(g["uri"])>>
  BY DEF Due, SentKey, Expected, UriOrNull, Node, Required, Positional, EitherUri, Option, Param

(* The node under another key, or not required.                            *)
LEMMA NodeAsDue ==
    \A g : /\ Due([Node EXCEPT !.key = "resource_uri"], g) =
                  <<"resource_uri", UriOrNull(g["uri"])>>
          /\ Due([Node EXCEPT !.required = FALSE], g) = <<"uri", UriOrNull(g["uri"])>>
  BY DEF Due, SentKey, Expected, UriOrNull, Node, Required, Positional, EitherUri, Option, Param

(* URIs other than the node.                                               *)
LEMMA UriDue ==
    ASSUME NEW name, NEW key, key # "query", NEW g
    PROVE  /\ Due(Required(EitherUri(Param(name, key))), g) = <<key, UriOrNull(g[name])>>
           /\ Due(BareUri(Param(name, key)), g) = <<key, UriOrNull(g[name])>>
  BY DEF Due, SentKey, Expected, UriOrNull, Required, EitherUri, BareUri, Param

(* Texts, needed or not.                                                   *)
LEMMA TextDue ==
    ASSUME NEW name, NEW key, key # "query", NEW g
    PROVE  /\ Due(Param(name, key), g) = <<key, OrNull(g[name])>>
           /\ Due(Required(Param(name, key)), g) = <<key, OrNull(g[name])>>
           /\ Due(Required(Positional(Param(name, key))), g) = <<key, OrNull(g[name])>>
  BY DEF Due, SentKey, Expected, OrNull, Required, Positional, Param

(* Options that may be repeated.                                           *)
LEMMA ListDue ==
    ASSUME NEW name, NEW key, key # "query", NEW g
    PROVE  Due(Repeated(Param(name, key)), g) = <<key, Array(g[name])>>
  BY DEF Due, SentKey, Expected, Repeated, Param

(* Flags, sent as such or as texts.                                        *)
LEMMA FlagDue ==
    ASSUME NEW name, NEW key, key # "query", NEW g
    PROVE  /\ Due(Flag(Param(name, key)), g) = <<key, Bool(g[name] # <<>>)>>
           /\ Due(BoolAsString(Flag(Param(name, key))), g) =
                  <<key, String(IF g[name] = <<>> THEN "false" ELSE "true")>>
  BY DEF Due, SentKey, Expected, Flag, BoolAsString, Param

(* `org query` takes its expression under another key than registered.     *)
LEMMA QueryDue ==
    \A g : Due(Required(Positional(Param("ql_expr", "query"))), g) =
               <<"ql_expr", OrNull(g["ql_expr"])>>
  BY DEF Due, SentKey, Expected, OrNull, Required, Positional, Param

(* One entry lets a call be expected.                                      *)
SendsAs(call, command_path, commands, g) ==
    \E command \in commands : command.path = command_path /\ Sends(call, command, g)

(* `read` sends what its entry lets expect.                                *)
LEMMA ReadSends ==
    ASSUME NEW g, g["uri"] # <<>>
    PROVE  SendsAs(RequestFor(<<"read">>, g), <<"read">>, ReadCommands, g)
<1> DEFINE command == Command(<<"read">>, "org-read", {Node})
           a == Field("uri", Target(g["uri"]))
<1>1. RequestFor(<<"read">>, g) = Call("org-read", a)
  BY DEF RequestFor, ReadCall
<1>2. Members(command, g) = {<<"uri", UriOrNull(g["uri"])>>}
  BY NodeDue DEF Members, Command
<1>3. Says(a, {<<"uri", UriOrNull(g["uri"])>>})
  BY SaysOne
<1> HIDE DEF a, command
<1>4. Says(a, Members(command, g))
  BY <1>2, <1>3
<1>5. Sends(RequestFor(<<"read">>, g), command, g)
  BY <1>1, <1>4, SaysSends DEF Call, Command, command
<1>. QED
  BY <1>5 DEF SendsAs, ReadCommands, Command, command

(* `read-headline` sends what its entry lets expect.                       *)
LEMMA ReadHeadlineSends ==
    ASSUME NEW g, g["uri"] # <<>>
    PROVE  SendsAs(RequestFor(<<"read-headline">>, g), <<"read-headline">>, ReadCommands, g)
<1> DEFINE command == Command(<<"read-headline">>, "org-read-headline", {Node})
           a == Field("uri", Target(g["uri"]))
<1>1. RequestFor(<<"read-headline">>, g) = Call("org-read-headline", a)
  BY DEF RequestFor, ReadCall
<1>2. Members(command, g) = {<<"uri", UriOrNull(g["uri"])>>}
  BY NodeDue DEF Members, Command
<1>3. Says(a, {<<"uri", UriOrNull(g["uri"])>>})
  BY SaysOne
<1> HIDE DEF a, command
<1>4. Says(a, Members(command, g))
  BY <1>2, <1>3
<1>5. Sends(RequestFor(<<"read-headline">>, g), command, g)
  BY <1>1, <1>4, SaysSends DEF Call, Command, command
<1>. QED
  BY <1>5 DEF SendsAs, ReadCommands, Command, command

(* `outline` sends what its entry lets expect.                             *)
LEMMA OutlineSends ==
    ASSUME NEW g, g["file"] # <<>>
    PROVE  SendsAs(RequestFor(<<"outline">>, g), <<"outline">>, ReadCommands, g)
<1> DEFINE command == Command(<<"outline">>, "org-read-outline",
                      {Required(Positional(Option("file")))})
           a == Field("file", The(g["file"]))
<1>1. RequestFor(<<"outline">>, g) = Call("org-read-outline", a)
  BY DEF RequestFor, ReadCall
<1>2. Members(command, g) = {<<"file", OrNull(g["file"])>>}
  BY TextDue DEF Members, Command, Option
<1>3. Says(a, {<<"file", OrNull(g["file"])>>})
  BY SaysOne
<1> HIDE DEF a, command
<1>4. Says(a, Members(command, g))
  BY <1>2, <1>3
<1>5. Sends(RequestFor(<<"outline">>, g), command, g)
  BY <1>1, <1>4, SaysSends DEF Call, Command, command
<1>. QED
  BY <1>5 DEF SendsAs, ReadCommands, Command, command

(* `query` sends what its entry lets expect.                               *)
LEMMA QuerySends ==
    ASSUME NEW g, g["ql_expr"] # <<>>
    PROVE  SendsAs(RequestFor(<<"query">>, g), <<"query">>, QueryCommands, g)
<1> DEFINE command == Command(<<"query">>, "org-ql-query",
                      {Required(Positional(Param("ql_expr", "query"))),
                       Repeated(Option("files"))})
           a == Field("ql_expr", The(g["ql_expr"]))
           b == Field("files", Array(g["files"]))
<1>1. RequestFor(<<"query">>, g) = Call("org-ql-query", a ++ b)
  BY DEF RequestFor, QueryCall, QueryArguments
<1>2. Members(command, g) =
        {<<"ql_expr", OrNull(g["ql_expr"])>>,
         <<"files", Array(g["files"])>>}
  BY QueryDue, ListDue DEF Members, Command, Option
<1>3. /\ Says(a, {<<"ql_expr", OrNull(g["ql_expr"])>>})
      /\ Says(b, {<<"files", Array(g["files"])>>})
  BY SaysOne
<1> HIDE DEF a, b, command
<1>4. Says(a ++ b, Members(command, g))
  BY <1>2, <1>3 DEF Says, Holds, ++
<1>5. Sends(RequestFor(<<"query">>, g), command, g)
  BY <1>1, <1>4, SaysSends DEF Call, Command, command
<1>. QED
  BY <1>5 DEF SendsAs, QueryCommands, Command, command

(* `query inbox` sends what its entry lets expect.                         *)
LEMMA QueryInboxSends ==
    ASSUME NEW g
    PROVE  SendsAs(RequestFor(<<"query", "inbox">>, g), <<"query", "inbox">>,
                   QueryCommands, g)
<1> DEFINE command == Command(<<"query", "inbox">>, "query-inbox", {})
<1>1. Says(NoArguments, Members(command, g))
  BY DEF Says, Members, NoArguments, Command
<1>2. RequestFor(<<"query", "inbox">>, g) = Call("query-inbox", NoArguments)
  BY DEF RequestFor, QueryCall
<1>. QED
  BY <1>1, <1>2, SaysSends DEF SendsAs, Call, Command, QueryCommands

(* `query next` sends what its entry lets expect.                          *)
LEMMA QueryNextSends ==
    ASSUME NEW g
    PROVE  SendsAs(RequestFor(<<"query", "next">>, g), <<"query", "next">>, QueryCommands, g)
<1> DEFINE command == Command(<<"query", "next">>, "query-next", {Option("tag")})
           a == Omitted("tag", g["tag"])
<1>1. RequestFor(<<"query", "next">>, g) = Call("query-next", a)
  BY DEF RequestFor, QueryCall, TagArguments
<1>2. Members(command, g) = {<<"tag", OrNull(g["tag"])>>}
  BY TextDue DEF Members, Command, Option
<1>3. Says(a, {<<"tag", OrNull(g["tag"])>>})
  BY SaysOne
<1> HIDE DEF a, command
<1>4. Says(a, Members(command, g))
  BY <1>2, <1>3
<1>5. Sends(RequestFor(<<"query", "next">>, g), command, g)
  BY <1>1, <1>4, SaysSends DEF Call, Command, command
<1>. QED
  BY <1>5 DEF SendsAs, QueryCommands, Command, command

(* `query backlog` sends what its entry lets expect.                       *)
LEMMA QueryBacklogSends ==
    ASSUME NEW g
    PROVE  SendsAs(RequestFor(<<"query", "backlog">>, g), <<"query", "backlog">>,
                   QueryCommands, g)
<1> DEFINE command == Command(<<"query", "backlog">>, "query-backlog", {Option("tag")})
           a == Omitted("tag", g["tag"])
<1>1. RequestFor(<<"query", "backlog">>, g) = Call("query-backlog", a)
  BY DEF RequestFor, QueryCall, TagArguments
<1>2. Members(command, g) = {<<"tag", OrNull(g["tag"])>>}
  BY TextDue DEF Members, Command, Option
<1>3. Says(a, {<<"tag", OrNull(g["tag"])>>})
  BY SaysOne
<1> HIDE DEF a, command
<1>4. Says(a, Members(command, g))
  BY <1>2, <1>3
<1>5. Sends(RequestFor(<<"query", "backlog">>, g), command, g)
  BY <1>1, <1>4, SaysSends DEF Call, Command, command
<1>. QED
  BY <1>5 DEF SendsAs, QueryCommands, Command, command

(* `todo state` sends what its entry lets expect.                          *)
LEMMA TodoStateSends ==
    ASSUME NEW g, g["uri"] # <<>>, g["new-state"] # <<>>
    PROVE  SendsAs(RequestFor(<<"todo", "state">>, g), <<"todo", "state">>, TodoCommands, g)
<1> DEFINE command == Command(<<"todo", "state">>, "org-update-todo-state",
                      {Node, Required(Positional(Param("new-state", "new_state"))),
                       Param("from", "current_state"), Option("note")})
           a == Field("uri", Target(g["uri"]))
           b == Field("new_state", The(g["new-state"]))
           c == Omitted("current_state", g["from"])
           d == Omitted("note", g["note"])
<1>1. RequestFor(<<"todo", "state">>, g) = Call("org-update-todo-state", a ++ b ++ c ++ d)
  BY DEF RequestFor, TodoCall, TodoStateArguments
<1>2. Members(command, g) =
        {<<"uri", UriOrNull(g["uri"])>>,
         <<"new_state", OrNull(g["new-state"])>>, <<"current_state", OrNull(g["from"])>>,
         <<"note", OrNull(g["note"])>>}
  <2>1. Due(Node, g) = <<"uri", UriOrNull(g["uri"])>>
    BY NodeDue
  <2>2. /\ Due(Required(Positional(Param("new-state", "new_state"))), g) =
               <<"new_state", OrNull(g["new-state"])>>
        /\ Due(Param("from", "current_state"), g) = <<"current_state", OrNull(g["from"])>>
        /\ Due(Option("note"), g) = <<"note", OrNull(g["note"])>>
    BY TextDue DEF Option
  <2>. QED
    BY <2>1, <2>2 DEF Members, Command
<1>3. /\ Says(a, {<<"uri", UriOrNull(g["uri"])>>})
      /\ Says(b, {<<"new_state", OrNull(g["new-state"])>>})
      /\ Says(c, {<<"current_state", OrNull(g["from"])>>})
      /\ Says(d, {<<"note", OrNull(g["note"])>>})
  BY SaysOne
<1> HIDE DEF a, b, c, d, command
<1>4. Says(a ++ b ++ c ++ d, Members(command, g))
  BY <1>2, <1>3 DEF Says, Holds, ++
<1>5. Sends(RequestFor(<<"todo", "state">>, g), command, g)
  BY <1>1, <1>4, SaysSends DEF Call, Command, command
<1>. QED
  BY <1>5 DEF SendsAs, TodoCommands, Command, command

(* `todo add` sends what its entry lets expect.                            *)
LEMMA TodoAddSends ==
    ASSUME NEW g, g["parent"] # <<>>, g["title"] # <<>>, g["state"] # <<>>
    PROVE  SendsAs(RequestFor(<<"todo", "add">>, g), <<"todo", "add">>, TodoCommands, g)
<1> DEFINE command == Command(<<"todo", "add">>, "org-add-todo",
                      {Required(EitherUri(Param("parent", "parent_uri"))),
                       Required(Option("title")), Required(Param("state", "todo_state")),
                       Option("body"), Repeated(Param("tag", "tags")),
                       BareUri(Param("after", "after_uri"))})
           a == Field("parent_uri", Target(g["parent"]))
           b == Field("title", The(g["title"]))
           c == Field("todo_state", The(g["state"]))
           d == Field("tags", Array(g["tag"]))
           e == Omitted("body", g["body"])
           f == IF g["after"] = <<>> THEN NoArguments ELSE Field("after_uri", Target(g["after"]))
<1>1. RequestFor(<<"todo", "add">>, g) = Call("org-add-todo", a ++ b ++ c ++ d ++ e ++ f)
  BY DEF RequestFor, TodoCall, TodoAddArguments
<1>2. Members(command, g) =
        {<<"parent_uri", UriOrNull(g["parent"])>>,
         <<"title", OrNull(g["title"])>>, <<"todo_state", OrNull(g["state"])>>,
         <<"tags", Array(g["tag"])>>, <<"body", OrNull(g["body"])>>,
         <<"after_uri", UriOrNull(g["after"])>>}
  BY UriDue, TextDue, ListDue DEF Members, Command, Option
<1>3. /\ Says(a, {<<"parent_uri", UriOrNull(g["parent"])>>})
      /\ Says(b, {<<"title", OrNull(g["title"])>>})
      /\ Says(c, {<<"todo_state", OrNull(g["state"])>>})
      /\ Says(d, {<<"tags", Array(g["tag"])>>})
      /\ Says(e, {<<"body", OrNull(g["body"])>>})
      /\ Says(f, {<<"after_uri", UriOrNull(g["after"])>>})
  BY SaysOne
<1> HIDE DEF a, b, c, d, e, f, command
<1>4. Says(a ++ b ++ c ++ d ++ e ++ f, Members(command, g))
  BY <1>2, <1>3 DEF Says, Holds, ++
<1>5. Sends(RequestFor(<<"todo", "add">>, g), command, g)
  BY <1>1, <1>4, SaysSends DEF Call, Command, command
<1>. QED
  BY <1>5 DEF SendsAs, TodoCommands, Command, command

(* `edit rename` sends what its entry lets expect.                         *)
LEMMA EditRenameSends ==
    ASSUME NEW g, g["uri"] # <<>>, g["from"] # <<>>, g["to"] # <<>>
    PROVE  SendsAs(RequestFor(<<"edit", "rename">>, g), <<"edit", "rename">>, TextCommands, g)
<1> DEFINE command == Command(<<"edit", "rename">>, "org-rename-headline",
                      {Node, Required(Param("from", "current_title")),
                       Required(Param("to", "new_title"))})
           a == Field("uri", Target(g["uri"]))
           b == Field("current_title", The(g["from"]))
           c == Field("new_title", The(g["to"]))
<1>1. RequestFor(<<"edit", "rename">>, g) = Call("org-rename-headline", a ++ b ++ c)
  BY DEF RequestFor, EditCall, RenameArguments
<1>2. Members(command, g) =
        {<<"uri", UriOrNull(g["uri"])>>,
         <<"current_title", OrNull(g["from"])>>, <<"new_title", OrNull(g["to"])>>}
  <2>1. Due(Node, g) = <<"uri", UriOrNull(g["uri"])>>
    BY NodeDue
  <2>2. /\ Due(Required(Param("from", "current_title")), g) =
               <<"current_title", OrNull(g["from"])>>
        /\ Due(Required(Param("to", "new_title")), g) = <<"new_title", OrNull(g["to"])>>
    BY TextDue
  <2>. QED
    BY <2>1, <2>2 DEF Members, Command
<1>3. /\ Says(a, {<<"uri", UriOrNull(g["uri"])>>})
      /\ Says(b, {<<"current_title", OrNull(g["from"])>>})
      /\ Says(c, {<<"new_title", OrNull(g["to"])>>})
  BY SaysOne
<1> HIDE DEF a, b, c, command
<1>4. Says(a ++ b ++ c, Members(command, g))
  BY <1>2, <1>3 DEF Says, Holds, ++
<1>5. Sends(RequestFor(<<"edit", "rename">>, g), command, g)
  BY <1>1, <1>4, SaysSends DEF Call, Command, command
<1>. QED
  BY <1>5 DEF SendsAs, TextCommands, Command, command

(* `edit body` sends what its entry lets expect.                           *)
LEMMA EditBodySends ==
    ASSUME NEW g, g["uri"] # <<>>, g["new"] # <<>>
    PROVE  SendsAs(RequestFor(<<"edit", "body">>, g), <<"edit", "body">>, TextCommands, g)
<1> DEFINE command == Command(<<"edit", "body">>, "org-edit-body",
                      {[Node EXCEPT !.key = "resource_uri"],
                       Required(Param("new", "new_body")), Param("old", "old_body"),
                       Flag(Option("append"))})
           a == Field("resource_uri", Target(g["uri"]))
           b == Field("new_body", The(g["new"]))
           c == Field("append", Bool(g["append"] # <<>>))
           d == Omitted("old_body", g["old"])
<1>1. RequestFor(<<"edit", "body">>, g) = Call("org-edit-body", a ++ b ++ c ++ d)
  BY DEF RequestFor, EditCall, BodyArguments
<1>2. Members(command, g) =
        {<<"resource_uri", UriOrNull(g["uri"])>>,
         <<"new_body", OrNull(g["new"])>>, <<"append", Bool(g["append"] # <<>>)>>,
         <<"old_body", OrNull(g["old"])>>}
  <2>1. Due([Node EXCEPT !.key = "resource_uri"], g) = <<"resource_uri", UriOrNull(g["uri"])>>
    BY NodeAsDue
  <2>2. /\ Due(Required(Param("new", "new_body")), g) = <<"new_body", OrNull(g["new"])>>
        /\ Due(Param("old", "old_body"), g) = <<"old_body", OrNull(g["old"])>>
        /\ Due(Flag(Option("append")), g) = <<"append", Bool(g["append"] # <<>>)>>
    BY TextDue, FlagDue DEF Option
  <2>. QED
    BY <2>1, <2>2 DEF Members, Command
<1>3. /\ Says(a, {<<"resource_uri", UriOrNull(g["uri"])>>})
      /\ Says(b, {<<"new_body", OrNull(g["new"])>>})
      /\ Says(c, {<<"append", Bool(g["append"] # <<>>)>>})
      /\ Says(d, {<<"old_body", OrNull(g["old"])>>})
  BY SaysOne
<1> HIDE DEF a, b, c, d, command
<1>4. Says(a ++ b ++ c ++ d, Members(command, g))
  BY <1>2, <1>3 DEF Says, Holds, ++
<1>5. Sends(RequestFor(<<"edit", "body">>, g), command, g)
  BY <1>1, <1>4, SaysSends DEF Call, Command, command
<1>. QED
  BY <1>5 DEF SendsAs, TextCommands, Command, command

(* `edit tags` sends what its entry lets expect.                           *)
LEMMA EditTagsSends ==
    ASSUME NEW g, g["uri"] # <<>>
    PROVE  SendsAs(RequestFor(<<"edit", "tags">>, g), <<"edit", "tags">>,
                   AttributeCommands, g)
<1> DEFINE command == Command(<<"edit", "tags">>, "org-set-tags",
                      {Node, Repeated(Param("tag", "tags"))})
           a == Field("uri", Target(g["uri"]))
           b == Field("tags", Array(g["tag"]))
<1>1. RequestFor(<<"edit", "tags">>, g) = Call("org-set-tags", a ++ b)
  BY DEF RequestFor, EditCall
<1>2. Members(command, g) =
        {<<"uri", UriOrNull(g["uri"])>>,
         <<"tags", Array(g["tag"])>>}
  BY NodeDue, ListDue DEF Members, Command
<1>3. /\ Says(a, {<<"uri", UriOrNull(g["uri"])>>})
      /\ Says(b, {<<"tags", Array(g["tag"])>>})
  BY SaysOne
<1> HIDE DEF a, b, command
<1>4. Says(a ++ b, Members(command, g))
  BY <1>2, <1>3 DEF Says, Holds, ++
<1>5. Sends(RequestFor(<<"edit", "tags">>, g), command, g)
  BY <1>1, <1>4, SaysSends DEF Call, Command, command
<1>. QED
  BY <1>5 DEF SendsAs, AttributeCommands, Command, command

(* `edit priority` sends what its entry lets expect.                       *)
LEMMA EditPrioritySends ==
    ASSUME NEW g, g["uri"] # <<>>
    PROVE  SendsAs(RequestFor(<<"edit", "priority">>, g), <<"edit", "priority">>,
                   AttributeCommands, g)
<1> DEFINE command == Command(<<"edit", "priority">>, "org-set-priority",
                      {Node, Option("priority")})
           a == Field("uri", Target(g["uri"]))
           b == Field("priority", OrNull(g["priority"]))
<1>1. RequestFor(<<"edit", "priority">>, g) = Call("org-set-priority", a ++ b)
  BY DEF RequestFor, EditCall, ClearableArguments
<1>2. Members(command, g) =
        {<<"uri", UriOrNull(g["uri"])>>,
         <<"priority", OrNull(g["priority"])>>}
  BY NodeDue, TextDue DEF Members, Command, Option
<1>3. /\ Says(a, {<<"uri", UriOrNull(g["uri"])>>})
      /\ Says(b, {<<"priority", OrNull(g["priority"])>>})
  BY SaysOne
<1> HIDE DEF a, b, command
<1>4. Says(a ++ b, Members(command, g))
  BY <1>2, <1>3 DEF Says, Holds, ++
<1>5. Sends(RequestFor(<<"edit", "priority">>, g), command, g)
  BY <1>1, <1>4, SaysSends DEF Call, Command, command
<1>. QED
  BY <1>5 DEF SendsAs, AttributeCommands, Command, command

(* `edit scheduled` sends what its entry lets expect.                      *)
LEMMA EditScheduledSends ==
    ASSUME NEW g, g["uri"] # <<>>
    PROVE  SendsAs(RequestFor(<<"edit", "scheduled">>, g), <<"edit", "scheduled">>,
                   DateCommands, g)
<1> DEFINE command == Command(<<"edit", "scheduled">>, "org-update-scheduled",
                      {Node, Param("date", "scheduled")})
           a == Field("uri", Target(g["uri"]))
           b == Field("scheduled", OrNull(g["date"]))
<1>1. RequestFor(<<"edit", "scheduled">>, g) = Call("org-update-scheduled", a ++ b)
  BY DEF RequestFor, EditCall, ClearableArguments
<1>2. Members(command, g) =
        {<<"uri", UriOrNull(g["uri"])>>,
         <<"scheduled", OrNull(g["date"])>>}
  BY NodeDue, TextDue DEF Members, Command
<1>3. /\ Says(a, {<<"uri", UriOrNull(g["uri"])>>})
      /\ Says(b, {<<"scheduled", OrNull(g["date"])>>})
  BY SaysOne
<1> HIDE DEF a, b, command
<1>4. Says(a ++ b, Members(command, g))
  BY <1>2, <1>3 DEF Says, Holds, ++
<1>5. Sends(RequestFor(<<"edit", "scheduled">>, g), command, g)
  BY <1>1, <1>4, SaysSends DEF Call, Command, command
<1>. QED
  BY <1>5 DEF SendsAs, DateCommands, Command, command

(* `edit deadline` sends what its entry lets expect.                       *)
LEMMA EditDeadlineSends ==
    ASSUME NEW g, g["uri"] # <<>>
    PROVE  SendsAs(RequestFor(<<"edit", "deadline">>, g), <<"edit", "deadline">>,
                   DateCommands, g)
<1> DEFINE command == Command(<<"edit", "deadline">>, "org-update-deadline",
                      {Node, Param("date", "deadline")})
           a == Field("uri", Target(g["uri"]))
           b == Field("deadline", OrNull(g["date"]))
<1>1. RequestFor(<<"edit", "deadline">>, g) = Call("org-update-deadline", a ++ b)
  BY DEF RequestFor, EditCall, ClearableArguments
<1>2. Members(command, g) =
        {<<"uri", UriOrNull(g["uri"])>>,
         <<"deadline", OrNull(g["date"])>>}
  BY NodeDue, TextDue DEF Members, Command
<1>3. /\ Says(a, {<<"uri", UriOrNull(g["uri"])>>})
      /\ Says(b, {<<"deadline", OrNull(g["date"])>>})
  BY SaysOne
<1> HIDE DEF a, b, command
<1>4. Says(a ++ b, Members(command, g))
  BY <1>2, <1>3 DEF Says, Holds, ++
<1>5. Sends(RequestFor(<<"edit", "deadline">>, g), command, g)
  BY <1>1, <1>4, SaysSends DEF Call, Command, command
<1>. QED
  BY <1>5 DEF SendsAs, DateCommands, Command, command

(* `edit log-note` sends what its entry lets expect.                       *)
LEMMA EditLogNoteSends ==
    ASSUME NEW g, g["uri"] # <<>>, g["note"] # <<>>
    PROVE  SendsAs(RequestFor(<<"edit", "log-note">>, g), <<"edit", "log-note">>,
                   DateCommands, g)
<1> DEFINE command == Command(<<"edit", "log-note">>, "org-add-logbook-note",
                      {Node, Required(Option("note"))})
           a == Field("uri", Target(g["uri"]))
           b == Field("note", The(g["note"]))
<1>1. RequestFor(<<"edit", "log-note">>, g) = Call("org-add-logbook-note", a ++ b)
  BY DEF RequestFor, EditCall
<1>2. Members(command, g) =
        {<<"uri", UriOrNull(g["uri"])>>,
         <<"note", OrNull(g["note"])>>}
  BY NodeDue, TextDue DEF Members, Command, Option
<1>3. /\ Says(a, {<<"uri", UriOrNull(g["uri"])>>})
      /\ Says(b, {<<"note", OrNull(g["note"])>>})
  BY SaysOne
<1> HIDE DEF a, b, command
<1>4. Says(a ++ b, Members(command, g))
  BY <1>2, <1>3 DEF Says, Holds, ++
<1>5. Sends(RequestFor(<<"edit", "log-note">>, g), command, g)
  BY <1>1, <1>4, SaysSends DEF Call, Command, command
<1>. QED
  BY <1>5 DEF SendsAs, DateCommands, Command, command

(* `clock status` sends what its entry lets expect.                        *)
LEMMA ClockStatusSends ==
    ASSUME NEW g
    PROVE  SendsAs(RequestFor(<<"clock", "status">>, g), <<"clock", "status">>,
                   ClockCommands, g)
<1> DEFINE command == Command(<<"clock", "status">>, "org-clock-get-active", {})
<1>1. Says(NoArguments, Members(command, g))
  BY DEF Says, Members, NoArguments, Command
<1>2. RequestFor(<<"clock", "status">>, g) = Call("org-clock-get-active", NoArguments)
  BY DEF RequestFor, ClockCall
<1>. QED
  BY <1>1, <1>2, SaysSends DEF SendsAs, Call, Command, ClockCommands

(* `clock in` sends what its entry lets expect.                            *)
LEMMA ClockInSends ==
    ASSUME NEW g, g["uri"] # <<>>
    PROVE  SendsAs(RequestFor(<<"clock", "in">>, g), <<"clock", "in">>, ClockCommands, g)
<1> DEFINE command == Command(<<"clock", "in">>, "org-clock-in",
                      {Node, Param("at", "start_time"), BoolAsString(Flag(Option("resolve")))})
           a == Field("uri", Target(g["uri"]))
           b == Field("resolve", String(IF g["resolve"] = <<>> THEN "false" ELSE "true"))
           c == Omitted("start_time", g["at"])
<1>1. RequestFor(<<"clock", "in">>, g) = Call("org-clock-in", a ++ b ++ c)
  BY DEF RequestFor, ClockCall, ClockInArguments
<1>2. Members(command, g) =
        {<<"uri", UriOrNull(g["uri"])>>,
         <<"resolve", String(IF g["resolve"] = <<>> THEN "false" ELSE "true")>>,
         <<"start_time", OrNull(g["at"])>>}
  <2>1. Due(Node, g) = <<"uri", UriOrNull(g["uri"])>>
    BY NodeDue
  <2>2. /\ Due(Param("at", "start_time"), g) = <<"start_time", OrNull(g["at"])>>
        /\ Due(BoolAsString(Flag(Option("resolve"))), g) =
               <<"resolve", String(IF g["resolve"] = <<>> THEN "false" ELSE "true")>>
    BY TextDue, FlagDue DEF Option
  <2>. QED
    BY <2>1, <2>2 DEF Members, Command
<1>3. /\ Says(a, {<<"uri", UriOrNull(g["uri"])>>})
      /\ Says(b, {<<"resolve", String(IF g["resolve"] = <<>> THEN "false" ELSE "true")>>})
      /\ Says(c, {<<"start_time", OrNull(g["at"])>>})
  BY SaysOne
<1> HIDE DEF a, b, c, command
<1>4. Says(a ++ b ++ c, Members(command, g))
  BY <1>2, <1>3 DEF Says, Holds, ++
<1>5. Sends(RequestFor(<<"clock", "in">>, g), command, g)
  BY <1>1, <1>4, SaysSends DEF Call, Command, command
<1>. QED
  BY <1>5 DEF SendsAs, ClockCommands, Command, command

(* `clock out` sends what its entry lets expect.                           *)
LEMMA ClockOutSends ==
    ASSUME NEW g
    PROVE  SendsAs(RequestFor(<<"clock", "out">>, g), <<"clock", "out">>, ClockCommands, g)
<1> DEFINE command == Command(<<"clock", "out">>, "org-clock-out",
                      {[Node EXCEPT !.required = FALSE], Param("at", "end_time")})
           a == IF g["uri"] = <<>> THEN NoArguments ELSE Field("uri", Target(g["uri"]))
           b == Omitted("end_time", g["at"])
<1>1. RequestFor(<<"clock", "out">>, g) = Call("org-clock-out", a ++ b)
  BY DEF RequestFor, ClockCall, ClockOutArguments
<1>2. Members(command, g) =
        {<<"uri", UriOrNull(g["uri"])>>,
         <<"end_time", OrNull(g["at"])>>}
  <2>1. Due([Node EXCEPT !.required = FALSE], g) = <<"uri", UriOrNull(g["uri"])>>
    BY NodeAsDue
  <2>2. Due(Param("at", "end_time"), g) = <<"end_time", OrNull(g["at"])>>
    BY TextDue
  <2>. QED
    BY <2>1, <2>2 DEF Members, Command
<1>3. /\ Says(a, {<<"uri", UriOrNull(g["uri"])>>})
      /\ Says(b, {<<"end_time", OrNull(g["at"])>>})
  BY SaysOne
<1> HIDE DEF a, b, command
<1>4. Says(a ++ b, Members(command, g))
  BY <1>2, <1>3 DEF Says, Holds, ++
<1>5. Sends(RequestFor(<<"clock", "out">>, g), command, g)
  BY <1>1, <1>4, SaysSends DEF Call, Command, command
<1>. QED
  BY <1>5 DEF SendsAs, ClockCommands, Command, command

(* `clock add` sends what its entry lets expect.                           *)
LEMMA ClockAddSends ==
    ASSUME NEW g, g["uri"] # <<>>, g["start"] # <<>>, g["end"] # <<>>
    PROVE  SendsAs(RequestFor(<<"clock", "add">>, g), <<"clock", "add">>,
                   ClockEntryCommands, g)
<1> DEFINE command == Command(<<"clock", "add">>, "org-clock-add",
                      {Node, Required(Option("start")), Required(Option("end"))})
           a == Field("uri", Target(g["uri"]))
           b == Field("start", The(g["start"]))
           c == Field("end", The(g["end"]))
<1>1. RequestFor(<<"clock", "add">>, g) = Call("org-clock-add", a ++ b ++ c)
  BY DEF RequestFor, ClockCall, ClockAddArguments
<1>2. Members(command, g) =
        {<<"uri", UriOrNull(g["uri"])>>,
         <<"start", OrNull(g["start"])>>, <<"end", OrNull(g["end"])>>}
  <2>1. Due(Node, g) = <<"uri", UriOrNull(g["uri"])>>
    BY NodeDue
  <2>2. /\ Due(Required(Option("start")), g) = <<"start", OrNull(g["start"])>>
        /\ Due(Required(Option("end")), g) = <<"end", OrNull(g["end"])>>
    BY TextDue DEF Option
  <2>. QED
    BY <2>1, <2>2 DEF Members, Command
<1>3. /\ Says(a, {<<"uri", UriOrNull(g["uri"])>>})
      /\ Says(b, {<<"start", OrNull(g["start"])>>})
      /\ Says(c, {<<"end", OrNull(g["end"])>>})
  BY SaysOne
<1> HIDE DEF a, b, c, command
<1>4. Says(a ++ b ++ c, Members(command, g))
  BY <1>2, <1>3 DEF Says, Holds, ++
<1>5. Sends(RequestFor(<<"clock", "add">>, g), command, g)
  BY <1>1, <1>4, SaysSends DEF Call, Command, command
<1>. QED
  BY <1>5 DEF SendsAs, ClockEntryCommands, Command, command

(* `clock delete` sends what its entry lets expect.                        *)
LEMMA ClockDeleteSends ==
    ASSUME NEW g, g["uri"] # <<>>, g["at"] # <<>>
    PROVE  SendsAs(RequestFor(<<"clock", "delete">>, g), <<"clock", "delete">>,
                   ClockEntryCommands, g)
<1> DEFINE command == Command(<<"clock", "delete">>, "org-clock-delete",
                      {Node, Required(Param("at", "start"))})
           a == Field("uri", Target(g["uri"]))
           b == Field("start", The(g["at"]))
<1>1. RequestFor(<<"clock", "delete">>, g) = Call("org-clock-delete", a ++ b)
  BY DEF RequestFor, ClockCall
<1>2. Members(command, g) =
        {<<"uri", UriOrNull(g["uri"])>>,
         <<"start", OrNull(g["at"])>>}
  BY NodeDue, TextDue DEF Members, Command
<1>3. /\ Says(a, {<<"uri", UriOrNull(g["uri"])>>})
      /\ Says(b, {<<"start", OrNull(g["at"])>>})
  BY SaysOne
<1> HIDE DEF a, b, command
<1>4. Says(a ++ b, Members(command, g))
  BY <1>2, <1>3 DEF Says, Holds, ++
<1>5. Sends(RequestFor(<<"clock", "delete">>, g), command, g)
  BY <1>1, <1>4, SaysSends DEF Call, Command, command
<1>. QED
  BY <1>5 DEF SendsAs, ClockEntryCommands, Command, command

(* `clock dangling` sends what its entry lets expect.                      *)
LEMMA ClockDanglingSends ==
    ASSUME NEW g
    PROVE  SendsAs(RequestFor(<<"clock", "dangling">>, g), <<"clock", "dangling">>,
                   ClockEntryCommands, g)
<1> DEFINE command == Command(<<"clock", "dangling">>, "org-clock-find-dangling", {})
<1>1. Says(NoArguments, Members(command, g))
  BY DEF Says, Members, NoArguments, Command
<1>2. RequestFor(<<"clock", "dangling">>, g) = Call("org-clock-find-dangling", NoArguments)
  BY DEF RequestFor, ClockCall
<1>. QED
  BY <1>1, <1>2, SaysSends DEF SendsAs, Call, Command, ClockEntryCommands

(* `edit properties` sends the node bare, and nothing but the node and the *)
(* properties.                                                             *)
LEMMA EditPropertiesSends ==
    ASSUME NEW g, g["uri"] # <<>>
    PROVE  SendsAs(RequestFor(<<"edit", "properties">>, g), <<"edit", "properties">>,
                   AttributeCommands, g)
<1> DEFINE set == Repeated(Param("set", "properties"))
           unset == Repeated(Param("unset", "properties"))
           command == Command(<<"edit", "properties">>, "org-set-properties", {Node, set, unset})
           target == Target(g["uri"])
           members == Object(Properties(g["set"], g["unset"]))
           arguments == Field("uri", target) ++ Field("properties", members)
           call == RequestFor(<<"edit", "properties">>, g)
<1>1. call = Call("org-set-properties", arguments)
  BY DEF RequestFor, EditCall, PropertiesArguments
<1>2. /\ members[1] = "object"
      /\ target = UriString(Stripped(Head(g["uri"]))) /\ target = UriOrNull(g["uri"])
      /\ Node.name = "uri" /\ Node.uri_rule # "n/a"
  BY NormalizeStrips
  DEF Object, Target, UriOrNull, Node, Required, Positional, EitherUri, Option, Param
<1>3. SentKey(Node) = "uri" /\ Expected(Node, g[Node.name]) = UriOrNull(g["uri"])
  BY NodeDue DEF Due
<1>4. /\ SentKey(set) = "properties" /\ set.key = "properties"
      /\ SentKey(unset) = "properties" /\ unset.key = "properties"
  BY DEF SentKey, Repeated, Param
<1> HIDE DEF set, unset, members, target, call
<1>5. /\ DOMAIN arguments = {"uri", "properties"}
      /\ arguments["uri"] = target /\ arguments["properties"] = members
  BY DEF Field, ++
<1> HIDE DEF arguments
<1>6. UrisGiven(arguments, {Node, set, unset}, g)
  BY <1>2, <1>5 DEF UrisGiven
<1>7. \A param \in {Node, set, unset} :
        param.key # "properties" =>
            Holds(arguments, SentKey(param), Expected(param, g[param.name]))
  BY <1>2, <1>3, <1>4, <1>5 DEF Holds
<1>8. DOMAIN arguments \subseteq {SentKey(param) : param \in {Node, set, unset}}
  BY <1>3, <1>4, <1>5
<1>9. Sends(call, command, g)
  BY <1>1, <1>6, <1>7, <1>8 DEF Sends, Call, Command
<1>10. command \in AttributeCommands
  BY DEF AttributeCommands, set, unset
<1>. QED
  BY <1>9, <1>10 DEF SendsAs, Command, call

(* `config` asks its tool for everything.                                  *)
LEMMA ConfigSends ==
    ASSUME NEW g, NEW syntax \in ConfigSyntax
    PROVE  SendsAs(RequestFor(syntax.path, g), syntax.path, ConfigCommands, g)
<1>1. /\ syntax.path[1] = "config"
      /\ \E command \in ConfigCommands :
            /\ command.path = syntax.path /\ command.params = {}
            /\ command.target = ConfigTool[syntax.path[2]]
  BY DEF ConfigSyntax, ConfigCommands, ConfigTool, Accepts, Command, Field, ++
<1>2. RequestFor(syntax.path, g) = Call(ConfigTool[syntax.path[2]], NoArguments)
  BY <1>1 DEF RequestFor
<1>3. \A command : command.params = {} => Says(NoArguments, Members(command, g))
  BY DEF Says, Members, NoArguments
<1> HIDE DEF ConfigTool
<1>. QED
  BY <1>1, <1>2, <1>3, SaysSends DEF SendsAs, Call

(* The path an entry is registered under.                                  *)
EntryPath(command_path) == IF command_path = <<"query", "run">> THEN <<"query">> ELSE command_path

(* The phases of a command line.                                           *)
Phases == phase \in {"typing", "parsed", "refused", "local", "sent"}

(* The calls that read are as registered.                                  *)
LEMMA ReadCalls ==
    ASSUME NEW g, NEW syntax \in ReadSyntax, \A option \in Demanded(syntax) : g[option] # <<>>
    PROVE  SendsAs(RequestFor(syntax.path, g), EntryPath(syntax.path), ReadCommands, g)
<1>1. CASE syntax.path = <<"read">>
  BY <1>1, ReadSends DEF ReadSyntax, Accepts, Demanded, EntryPath
<1>2. CASE syntax.path = <<"read-headline">>
  BY <1>2, ReadHeadlineSends DEF ReadSyntax, Accepts, Demanded, EntryPath
<1>3. CASE syntax.path = <<"outline">>
  BY <1>3, OutlineSends DEF ReadSyntax, Accepts, Demanded, EntryPath
<1>. QED
  BY <1>1, <1>2, <1>3 DEF ReadSyntax, Accepts

(* The calls of `query` are as registered.                                 *)
LEMMA QueryCalls ==
    ASSUME NEW g, NEW syntax \in QuerySyntax, \A option \in Demanded(syntax) : g[option] # <<>>
    PROVE  SendsAs(RequestFor(syntax.path, g), EntryPath(syntax.path), QueryCommands, g)
<1>1. CASE syntax.path = <<"query">>
  BY <1>1, QuerySends DEF QuerySyntax, Accepts, Demanded, EntryPath
<1>5. CASE syntax.path = <<"query", "run">>
  <2>1. RequestFor(<<"query", "run">>, g) = RequestFor(<<"query">>, g)
    BY DEF RequestFor, QueryCall
  <2>2. g["ql_expr"] # <<>>
    BY <1>5 DEF QuerySyntax, Accepts, Demanded
  <2>. QED
    BY <1>5, <2>1, <2>2, QuerySends DEF EntryPath
<1>2. CASE syntax.path = <<"query", "inbox">>
  BY <1>2, QueryInboxSends DEF QuerySyntax, Accepts, Demanded, EntryPath
<1>3. CASE syntax.path = <<"query", "next">>
  BY <1>3, QueryNextSends DEF QuerySyntax, Accepts, Demanded, EntryPath
<1>4. CASE syntax.path = <<"query", "backlog">>
  BY <1>4, QueryBacklogSends DEF QuerySyntax, Accepts, Demanded, EntryPath
<1>. QED
  BY <1>1, <1>2, <1>3, <1>4, <1>5 DEF QuerySyntax, Accepts

(* The calls of `todo` are as registered.                                  *)
LEMMA TodoCalls ==
    ASSUME NEW g, NEW syntax \in TodoSyntax, \A option \in Demanded(syntax) : g[option] # <<>>
    PROVE  SendsAs(RequestFor(syntax.path, g), EntryPath(syntax.path), TodoCommands, g)
<1>1. CASE syntax.path = <<"todo", "state">>
  BY <1>1, TodoStateSends DEF TodoSyntax, Accepts, Demanded, EntryPath
<1>2. CASE syntax.path = <<"todo", "add">>
  BY <1>2, TodoAddSends DEF TodoSyntax, Accepts, Demanded, EntryPath
<1>. QED
  BY <1>1, <1>2 DEF TodoSyntax, Accepts

(* The calls of `edit` are as registered.                                  *)
LEMMA EditCalls ==
    ASSUME NEW g, NEW syntax \in EditSyntax, \A option \in Demanded(syntax) : g[option] # <<>>
    PROVE  \/ SendsAs(RequestFor(syntax.path, g), EntryPath(syntax.path), TextCommands, g)
           \/ SendsAs(RequestFor(syntax.path, g), EntryPath(syntax.path), AttributeCommands, g)
           \/ SendsAs(RequestFor(syntax.path, g), EntryPath(syntax.path), DateCommands, g)
<1>1. CASE syntax.path = <<"edit", "rename">>
  BY <1>1, EditRenameSends DEF EditSyntax, Accepts, Demanded, EntryPath
<1>2. CASE syntax.path = <<"edit", "body">>
  BY <1>2, EditBodySends DEF EditSyntax, Accepts, Demanded, EntryPath
<1>3. CASE syntax.path = <<"edit", "properties">>
  BY <1>3, EditPropertiesSends DEF EditSyntax, Accepts, Demanded, EntryPath
<1>4. CASE syntax.path = <<"edit", "tags">>
  BY <1>4, EditTagsSends DEF EditSyntax, Accepts, Demanded, EntryPath
<1>5. CASE syntax.path = <<"edit", "priority">>
  BY <1>5, EditPrioritySends DEF EditSyntax, Accepts, Demanded, EntryPath
<1>6. CASE syntax.path = <<"edit", "scheduled">>
  BY <1>6, EditScheduledSends DEF EditSyntax, Accepts, Demanded, EntryPath
<1>7. CASE syntax.path = <<"edit", "deadline">>
  BY <1>7, EditDeadlineSends DEF EditSyntax, Accepts, Demanded, EntryPath
<1>8. CASE syntax.path = <<"edit", "log-note">>
  BY <1>8, EditLogNoteSends DEF EditSyntax, Accepts, Demanded, EntryPath
<1>. QED
  BY <1>1, <1>2, <1>3, <1>4, <1>5, <1>6, <1>7, <1>8 DEF EditSyntax, Accepts

(* The calls of `clock` are as registered.                                 *)
LEMMA ClockCalls ==
    ASSUME NEW g, NEW syntax \in ClockSyntax, \A option \in Demanded(syntax) : g[option] # <<>>
    PROVE  \/ SendsAs(RequestFor(syntax.path, g), EntryPath(syntax.path), ClockCommands, g)
           \/ SendsAs(RequestFor(syntax.path, g), EntryPath(syntax.path), ClockEntryCommands, g)
<1>1. CASE syntax.path = <<"clock", "status">>
  BY <1>1, ClockStatusSends DEF ClockSyntax, Accepts, Demanded, EntryPath
<1>2. CASE syntax.path = <<"clock", "in">>
  BY <1>2, ClockInSends DEF ClockSyntax, Accepts, Demanded, EntryPath
<1>3. CASE syntax.path = <<"clock", "out">>
  BY <1>3, ClockOutSends DEF ClockSyntax, Accepts, Demanded, EntryPath
<1>4. CASE syntax.path = <<"clock", "add">>
  BY <1>4, ClockAddSends DEF ClockSyntax, Accepts, Demanded, EntryPath
<1>5. CASE syntax.path = <<"clock", "delete">>
  BY <1>5, ClockDeleteSends DEF ClockSyntax, Accepts, Demanded, EntryPath
<1>6. CASE syntax.path = <<"clock", "dangling">>
  BY <1>6, ClockDanglingSends DEF ClockSyntax, Accepts, Demanded, EntryPath
<1>. QED
  BY <1>1, <1>2, <1>3, <1>4, <1>5, <1>6 DEF ClockSyntax, Accepts

(* More entries let as much be expected.                                   *)
LEMMA SendsMore ==
    \A call, command_path, S, T, g :
        SendsAs(call, command_path, S, g) /\ S \subseteq T => SendsAs(call, command_path, T, g)
  BY DEF SendsAs

(* Every command line that is complete and of a tool makes a call that is  *)
(* as registered.                                                          *)
LEMMA CallsAreRegistered ==
    ASSUME NEW g, NEW syntax \in Grammar, \A option \in Demanded(syntax) : g[option] # <<>>,
           syntax \notin OtherSyntax
    PROVE  SendsAs(RequestFor(syntax.path, g), EntryPath(syntax.path), COMMANDS, g)
<1>1. CASE syntax \in ReadSyntax
  <2>1. ReadCommands \subseteq COMMANDS
    BY DEF COMMANDS
  <2>. QED
    BY <1>1, <2>1, ReadCalls, SendsMore
<1>2. CASE syntax \in QuerySyntax
  <2>1. QueryCommands \subseteq COMMANDS
    BY DEF COMMANDS
  <2>. QED
    BY <1>2, <2>1, QueryCalls, SendsMore
<1>3. CASE syntax \in TodoSyntax
  <2>1. TodoCommands \subseteq COMMANDS
    BY DEF COMMANDS
  <2>. QED
    BY <1>3, <2>1, TodoCalls, SendsMore
<1>4. CASE syntax \in EditSyntax
  <2>1. /\ TextCommands \subseteq COMMANDS
        /\ AttributeCommands \subseteq COMMANDS
        /\ DateCommands \subseteq COMMANDS
    BY DEF COMMANDS
  <2>. QED
    BY <1>4, <2>1, EditCalls, SendsMore
<1>5. CASE syntax \in ClockSyntax
  <2>1. ClockCommands \subseteq COMMANDS /\ ClockEntryCommands \subseteq COMMANDS
    BY DEF COMMANDS
  <2>. QED
    BY <1>5, <2>1, ClockCalls, SendsMore
<1>6. CASE syntax \in ConfigSyntax
  <2>1. ConfigCommands \subseteq COMMANDS
    BY DEF COMMANDS
  <2>2. EntryPath(syntax.path) = syntax.path
    BY <1>6 DEF EntryPath, ConfigSyntax, Accepts
  <2>. QED
    BY <1>6, <2>1, <2>2, ConfigSends, SendsMore
<1>. QED
  BY <1>1, <1>2, <1>3, <1>4, <1>5, <1>6 DEF Grammar

(* The call of a command line that was sent is as registered.              *)
LEMMA SentAsRegistered ==
    Typed /\ Judged /\ phase = "sent" /\ IsTool => Sends(request, Entry, given)
<1> SUFFICES ASSUME Typed, Judged, phase = "sent", IsTool
             PROVE  Sends(request, Entry, given)
  OBVIOUS
<1>1. path # <<"schema">> /\ path \in Paths
  BY DEF IsTool, Judged
<1>2. PICK syntax \in Grammar : syntax = Syntax(path) /\ syntax.path = path
  BY <1>1, EntryAgrees
<1>3. \A option \in Demanded(syntax) : given[option] # <<>>
  <2>1. WellTyped(syntax, given) /\ ~UsageError
    BY <1>2 DEF Judged
  <2>2. CASE path = <<"query">>
    <3>1. given["ql_expr"] # <<>>
      BY <2>1, <2>2 DEF UsageError
    <3>. QED
      BY <1>2, <2>2, <3>1 DEF Demanded
  <2>3. CASE path # <<"query">>
    <3>1. ASSUME NEW option \in syntax.one PROVE given[option] # <<>>
      <4>1. Len(given[option]) = 1
        BY <2>1 DEF WellTyped
      <4>2. Len(<<>>) # 1
        OBVIOUS
      <4>. QED
        BY <4>1, <4>2, Zenon
    <3>. QED
      BY <1>2, <2>3, <3>1 DEF Demanded
  <2>. QED
    BY <2>2, <2>3
<1>4. syntax \notin OtherSyntax
  <2>1. ASSUME syntax \in OtherSyntax
        PROVE  \E command \in InternalCommands : command.path = path
    BY <1>1, <1>2, <2>1 DEF OtherSyntax, InternalCommands, Accepts, Command
  <2>2. \A command \in InternalCommands : command \in COMMANDS /\ command.target = Internal
    BY DEF InternalCommands, COMMANDS, Command
  <2>3. ASSUME syntax \in OtherSyntax PROVE path # <<"query", "run">>
    BY <1>2, <2>3 DEF OtherSyntax, Accepts
  <2>. QED
    BY <2>1, <2>2, <2>3, OneEntry DEF IsTool
<1>5. PICK command \in COMMANDS :
        command.path = EntryPath(path) /\ Sends(RequestFor(path, given), command, given)
  BY <1>2, <1>3, <1>4, CallsAreRegistered DEF SendsAs
<1>6. Entry = command
  BY <1>5, OneEntry DEF EntryPath
<1>. QED
  BY <1>5, <1>6 DEF Typed

(* What a command sends is what its registry entry lets a caller expect:   *)
(* the state property, for command lines of any length and any words       *)
(* (every cmd_ function of src/main.rs against COMMANDS of                 *)
(* src/contract.rs).                                                       *)
THEOREM SentIsRegistered == Spec => []RequestAsRegistered
<1>1. Typed /\ Judged => RequestAsRegistered
  BY SentAsRegistered DEF RequestAsRegistered, Sends, Holds
<1>. QED
  BY <1>1, TypedHolds, JudgedHolds, PTL

(* What goes by the rules of URIs is an option that is one.                *)
UriOption(param) == param.uri_rule # "n/a" => param.name \in UriOptions

(* Of options and of the node, whatever else the registry says of them.    *)
LEMMA UriOptionsTagged ==
    /\ \A name, key :
          /\ UriOption(Param(name, key))
          /\ UriOption(Required(Param(name, key)))
          /\ UriOption(Required(Positional(Param(name, key))))
          /\ UriOption(Repeated(Param(name, key)))
          /\ UriOption(Flag(Param(name, key)))
          /\ UriOption(BoolAsString(Flag(Param(name, key))))
    /\ UriOption(Required(EitherUri(Param("parent", "parent_uri"))))
    /\ UriOption(BareUri(Param("after", "after_uri")))
    /\ UriOption(Node)
    /\ UriOption([Node EXCEPT !.key = "resource_uri"])
    /\ UriOption([Node EXCEPT !.required = FALSE])
  BY DEF UriOption, UriOptions, Node, Required, Repeated, Positional, Flag, EitherUri, BareUri,
         BoolAsString, Option, Param

(* Every parameter that the registry takes for a URI is one.               *)
LEMMA UriParams ==
    \A command \in COMMANDS : \A param \in command.params : UriOption(param)
<1> USE UriOptionsTagged DEF Command, Option
<1>1. \A command \in ReadCommands \cup QueryCommands : \A param \in command.params : UriOption(param)
  BY DEF ReadCommands, QueryCommands
<1>2. \A command \in TodoCommands : \A param \in command.params : UriOption(param)
  BY DEF TodoCommands
<1>3. \A command \in TextCommands : \A param \in command.params : UriOption(param)
  BY DEF TextCommands
<1>4. \A command \in AttributeCommands \cup DateCommands : \A param \in command.params : UriOption(param)
  BY DEF AttributeCommands, DateCommands
<1>5. \A command \in ClockCommands : \A param \in command.params : UriOption(param)
  <2>1. \A param \in {Node, Param("at", "start_time"), BoolAsString(Flag(Option("resolve")))} :
          UriOption(param)
    OBVIOUS
  <2>2. \A param \in {[Node EXCEPT !.required = FALSE], Param("at", "end_time")} : UriOption(param)
    OBVIOUS
  <2>3. \A command \in ClockCommands :
          \/ command.params = {}
          \/ command.params = {Node, Param("at", "start_time"), BoolAsString(Flag(Option("resolve")))}
          \/ command.params = {[Node EXCEPT !.required = FALSE], Param("at", "end_time")}
    BY ONLY DEF ClockCommands, Command
  <2>. QED
    BY ONLY <2>1, <2>2, <2>3
<1>7. \A command \in ClockEntryCommands : \A param \in command.params : UriOption(param)
  BY DEF ClockEntryCommands
<1>6. \A command \in ConfigCommands \cup InternalCommands :
        \A param \in command.params : UriOption(param)
  BY DEF ConfigCommands, InternalCommands
<1>. QED
  BY ONLY <1>1, <1>2, <1>3, <1>4, <1>5, <1>6, <1>7 DEF COMMANDS

(* Such an option is given a URI.                                          *)
LEMMA UriWords == \A option : option \in UriOptions => WordsFor(option) = Uris
<1> SUFFICES ASSUME NEW option, option \in UriOptions PROVE WordsFor(option) = Uris
  OBVIOUS
<1>1. /\ option \notin Flags /\ option # "set" /\ option # "unset"
      /\ option # "args" /\ option # "path"
  BY DEF UriOptions, Flags
<1>. QED
  BY <1>1 DEF WordsFor

(* What is left of a URI without its first prefix is a URI.                *)
LEMMA StrippedIsUri == \A uri \in Uris : Stripped(uri) \in Uris
<1> SUFFICES ASSUME NEW prefixes \in 0..MaxPrefixes, NEW id \in Ids
             PROVE  Stripped(Uri(prefixes, id)) \in Uris
  BY DEF Uris
<1>1. \E n \in 0..MaxPrefixes : Stripped(Uri(prefixes, id)) = Uri(n, id)
  BY PrefixesAreCounted DEF Stripped, Uri, Bare
<1>. QED
  BY <1>1 DEF Uris

(* The types of the state: with any bound on the prefixes, what a tool is  *)
(* given for a URI is one, the tag that says so never on anything else     *)
(* (normalize_for_tool of src/uri.rs and every cmd_ function of            *)
(* src/main.rs).                                                           *)
THEOREM DispatchTypeCorrect == Spec => []DispatchTypeOK
<1>1. Spec => []Phases
  <2>1. Init => Phases
    BY DEF Init, Phases
  <2>2. Phases /\ [Next]_dispatchVars => Phases'
    BY DEF Phases, Next, Type, TypeExpressionFirst, Parse, Refuse, AnswerLocally, Send, dispatchVars
  <2>. QED
    BY <2>1, <2>2, PTL DEF Spec
<1>2. Typed /\ Judged /\ Phases => DispatchTypeOK
  <2> SUFFICES ASSUME Typed, Judged, Phases PROVE DispatchTypeOK
    OBVIOUS
  <2>1. ASSUME NEW option \in OptionsOf(Syntax(path))
        PROVE  ToSet(given[option]) \subseteq WordsFor(option)
    <3>1. given[option] \in Seq(WordsFor(option))
      BY DEF Typed
    <3>2. \A S, words : words \in Seq(S) => ToSet(words) \subseteq S
      BY DEF ToSet
    <3>. QED
      BY <3>1, <3>2
  <2>2. ASSUME phase = "sent", IsTool, NEW key \in DOMAIN request.arguments,
               request.arguments[key][1] = "uri"
        PROVE  request.arguments[key][2] \in Uris
    <3>1. PICK param \in Entry.params :
            /\ param.uri_rule # "n/a" /\ given[param.name] # <<>>
            /\ request.arguments[key] = UriString(Stripped(Head(given[param.name])))
      BY <2>2, SentAsRegistered DEF Sends, UrisGiven
    <3>2. path # <<"schema">> /\ path \in Paths
      BY <2>2 DEF IsTool, Judged
    <3>3. param.name \in OptionsOf(Syntax(path)) /\ Entry \in COMMANDS
      BY <3>2, EntryAgrees DEF Agrees
    <3>4. param.name \in UriOptions
      BY <3>1, <3>3, UriParams DEF UriOption
    <3>5. WordsFor(param.name) = Uris
      BY <3>4, UriWords
    <3>6. given[param.name] \in Seq(Uris)
      BY <3>3, <3>5 DEF Typed
    <3>7. Head(given[param.name]) \in Uris
      BY <3>1, <3>6
    <3>8. request.arguments[key][2] = Stripped(Head(given[param.name]))
      BY <3>1 DEF UriString
    <3>. QED
      BY <3>7, <3>8, StrippedIsUri
  <2>. QED
    BY <2>1, <2>2 DEF DispatchTypeOK, Judged, Phases
<1>. QED
  BY <1>1, <1>2, TypedHolds, JudgedHolds, PTL

=============================================================================
