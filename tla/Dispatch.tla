------------------------------ MODULE Dispatch ------------------------------
(***************************************************************************)
(* From a command line to the tool call it stands for: what clap accepts   *)
(* (src/cli.rs), what run() refuses before any server is spawned, and the  *)
(* tool and the arguments each command sends (src/main.rs, src/uri.rs).    *)
(* The registry of Contract is the reference it is held against.           *)
(***************************************************************************)
EXTENDS Contract, Arguments

CONSTANTS
    Ids,        \* what a node or a file is called
    Texts,      \* titles, bodies, states, tags, dates, expressions
    Keys,       \* property keys
    Segments,   \* the words of the paths asked of `org schema`
    Dashed,     \* the ids, texts and keys that begin with a dash, as "- item"
    MaxPrefixes,\* bound on the org:// in front of an id
    MaxWords    \* bound on the options of a command line

ASSUME PrefixesAreCounted == MaxPrefixes \in Nat

VARIABLES
    path,       \* the subcommands of the command line
    given,      \* what its caller means for each option, in order
    misread,    \* clap takes a word of it for something else
    phase,      \* "typing", "parsed", "refused", "local", "sent"
    request     \* the tool call that is sent

dispatchVars == <<path, given, misread, phase, request>>

----------------------------------------------------------------------------
(* The words of a command line.                                            *)

(* --set k=v, and a --set that has no "=".                                 *)
Pair(key, value) == <<key, value>>
NoPair(key) == <<key>>

(* The text after --args: JSON, or not.                                    *)
Json(text) == [valid |-> TRUE, text |-> text]
NotJson(text) == [valid |-> FALSE, text |-> text]

UriOptions == {"uri", "file", "parent", "after", "files"}
Flags == {"append", "resolve"}
Positionals == {"uri", "file", "ql_expr", "new-state", "name", "path"}

Uris == {Uri(prefixes, id) : prefixes \in 0..MaxPrefixes, id \in Ids}

WordsFor(option) ==
    CASE option \in UriOptions -> Uris
      [] option \in Flags -> {TRUE}
      [] option = "set" -> {Pair(k, v) : k \in Keys, v \in Texts} \cup {NoPair(k) : k \in Keys}
      [] option = "unset" -> Keys
      [] option = "args" -> {Json(t) : t \in Texts} \cup {NotJson(t) : t \in Texts}
      [] option = "path" -> Segments
      [] OTHER -> Texts

(* A word that begins with a dash.  Only --server-arg may have one for its *)
(* value (allow_hyphen_values), unless it is joined on, --new="- item".    *)
LedByDash(option, word) ==
    \/ option \in UriOptions /\ word.prefixes = 0 /\ word.id \in Dashed
    \/ option = "set" /\ word[1] \in Dashed
    \/ option = "args" /\ word.text \in Dashed
    \/ option \notin UriOptions \cup Flags \cup {"set", "args"} /\ word \in Dashed

(* The options of a subcommand: each needed once, at most once, any number *)
(* of times.                                                               *)
Accepts(subcommand, one, optional, many) ==
    [path |-> subcommand, one |-> one, optional |-> optional, many |-> many]

ReadSyntax ==
    {Accepts(<<"read">>, {"uri"}, {}, {}),
     Accepts(<<"read-headline">>, {"uri"}, {}, {}),
     Accepts(<<"outline">>, {"file"}, {}, {})}

QuerySyntax ==
    {Accepts(<<"query">>, {}, {"ql_expr"}, {"files"}),
     Accepts(<<"query", "run">>, {"ql_expr"}, {}, {"files"}),
     Accepts(<<"query", "inbox">>, {}, {}, {}),
     Accepts(<<"query", "next">>, {}, {"tag"}, {}),
     Accepts(<<"query", "backlog">>, {}, {"tag"}, {})}

(* Mutant: one --tag only.                                                 *)
TodoSyntaxOneTag ==
    {Accepts(<<"todo", "state">>, {"uri", "new-state"}, {"from", "note"}, {}),
     Accepts(<<"todo", "add">>, {"parent", "title", "state"}, {"body", "after", "tag"}, {})}

TodoSyntax ==
    {Accepts(<<"todo", "state">>, {"uri", "new-state"}, {"from", "note"}, {}),
     Accepts(<<"todo", "add">>, {"parent", "title", "state"}, {"body", "after"}, {"tag"})}

EditSyntax ==
    {Accepts(<<"edit", "rename">>, {"uri", "from", "to"}, {}, {}),
     Accepts(<<"edit", "body">>, {"uri", "new"}, {"old", "append"}, {}),
     Accepts(<<"edit", "properties">>, {"uri"}, {}, {"set", "unset"}),
     Accepts(<<"edit", "tags">>, {"uri"}, {}, {"tag"}),
     Accepts(<<"edit", "priority">>, {"uri"}, {"priority"}, {}),
     Accepts(<<"edit", "scheduled">>, {"uri"}, {"date"}, {}),
     Accepts(<<"edit", "deadline">>, {"uri"}, {"date"}, {}),
     Accepts(<<"edit", "log-note">>, {"uri", "note"}, {}, {})}

ClockSyntax ==
    {Accepts(<<"clock", "status">>, {}, {}, {}),
     Accepts(<<"clock", "in">>, {"uri"}, {"at", "resolve"}, {}),
     Accepts(<<"clock", "out">>, {}, {"uri", "at"}, {}),
     Accepts(<<"clock", "add">>, {"uri", "start", "end"}, {}, {}),
     Accepts(<<"clock", "delete">>, {"uri", "at"}, {}, {}),
     Accepts(<<"clock", "dangling">>, {}, {}, {})}

ConfigSyntax ==
    {Accepts(<<"config", "todo">>, {}, {}, {}),
     Accepts(<<"config", "tags">>, {}, {}, {}),
     Accepts(<<"config", "tag-candidates">>, {}, {}, {}),
     Accepts(<<"config", "priority">>, {}, {}, {}),
     Accepts(<<"config", "files">>, {}, {}, {}),
     Accepts(<<"config", "clock">>, {}, {}, {})}

OtherSyntax ==
    {Accepts(<<"tools", "list">>, {}, {}, {}),
     Accepts(<<"tools", "call">>, {"name"}, {"args"}, {}),
     Accepts(<<"schema">>, {}, {}, {"path"})}

Grammar ==
    UNION {ReadSyntax, QuerySyntax, TodoSyntax, EditSyntax, ClockSyntax, ConfigSyntax, OtherSyntax}

Paths == {syntax.path : syntax \in Grammar}
Syntax(subcommand) == CHOOSE syntax \in Grammar : syntax.path = subcommand
OptionsOf(syntax) == syntax.one \cup syntax.optional \cup syntax.many

----------------------------------------------------------------------------
(* The command line is typed, parsed, and run.                             *)

Init ==
    /\ path \in Paths
    /\ given = [option \in OptionsOf(Syntax(path)) |-> <<>>]
    /\ misread = FALSE
    /\ phase = "typing"
    /\ request = Call(Internal, NoArguments)

Words == FoldFunction(LAMBDA words, n : Len(words) + n, 0, given)

(* A word, after its option or joined to it; nothing after one that clap   *)
(* misreads matters.                                                       *)
Type ==
    /\ phase = "typing"
    /\ ~misread
    /\ Words < MaxWords
    /\ \E option \in DOMAIN given : \E word \in WordsFor(option), joined \in BOOLEAN :
           /\ joined => option \notin Positionals \cup Flags
           /\ given' = [given EXCEPT ![option] = Append(@, word)]
           /\ misread' = (LedByDash(option, word) /\ ~joined)
    /\ UNCHANGED <<path, phase, request>>

(* An expression before the subcommand of `query`: the subcommand is taken *)
(* for one more argument (args_conflicts_with_subcommands).                *)
TypeExpressionFirst ==
    /\ phase = "typing"
    /\ ~misread
    /\ path # <<"query">> /\ Head(path) = "query"
    /\ misread' = TRUE
    /\ UNCHANGED <<path, given, phase, request>>

(* Cli::parse_from: clap refuses a missing or a repeated option, exit 2.   *)
WellTyped(syntax, g) ==
    /\ \A option \in syntax.one : Len(g[option]) = 1
    /\ \A option \in syntax.optional : Len(g[option]) <= 1

Parse ==
    /\ phase = "typing"
    /\ phase' = IF WellTyped(Syntax(path), given) /\ ~misread THEN "parsed" ELSE "refused"
    /\ UNCHANGED <<path, given, misread, request>>

validate_outline_path(file) == file.prefixes = 0

(* What run() reports as a usage error without a server.                   *)
UsageError ==
    \/ path = <<"outline">> /\ ~validate_outline_path(Head(given["file"]))
    \/ path = <<"query">> /\ given["ql_expr"] = <<>>
    \/ path = <<"edit", "properties">> /\ Malformed(given["set"])
    \/ path = <<"tools", "call">> /\ given["args"] # <<>> /\ ~Head(given["args"]).valid
    \/ path = <<"schema">> /\ given["path"] # <<>> /\ Registered(given["path"]) = {}

Refuse ==
    /\ phase = "parsed"
    /\ UsageError
    /\ phase' = "refused"
    /\ UNCHANGED <<path, given, misread, request>>

AnswerLocally ==
    /\ phase = "parsed"
    /\ path = <<"schema">>
    /\ ~UsageError
    /\ phase' = "local"
    /\ UNCHANGED <<path, given, misread, request>>

Send ==
    /\ phase = "parsed"
    /\ path # <<"schema">>
    /\ ~UsageError
    /\ request' = RequestFor(path, given)
    /\ phase' = "sent"
    /\ UNCHANGED <<path, given, misread>>

Next == Type \/ TypeExpressionFirst \/ Parse \/ Refuse \/ AnswerLocally \/ Send

Spec == Init /\ [][Next]_dispatchVars

----------------------------------------------------------------------------

(* The registry entry a command line falls under; `query run` is `query`.  *)
Entry ==
    CHOOSE command \in COMMANDS :
        command.path = IF path = <<"query", "run">> THEN <<"query">> ELSE path

IsTool == path # <<"schema">> /\ Entry.target # Internal

(* The types of the state: a URI that a tool is given is one of the URIs,  *)
(* with as many prefixes as one can have (normalize_for_tool of            *)
(* src/uri.rs cuts only what is there).                                    *)
DispatchTypeOK ==
    /\ path \in Paths
    /\ \A option \in OptionsOf(Syntax(path)) : ToSet(given[option]) \subseteq WordsFor(option)
    /\ misread \in BOOLEAN
    /\ phase \in {"typing", "parsed", "refused", "local", "sent"}
    /\ phase = "sent" /\ IsTool =>
           \A key \in DOMAIN request.arguments :
               request.arguments[key][1] = "uri" => request.arguments[key][2] \in Uris

(* What the registry lets a caller expect of one parameter: a given one    *)
(* goes out under its key, without the first org:// if it is a URI; one    *)
(* not given carries no value, whether its key is sent or not.  --set and  *)
(* --unset share a key.                                                    *)
Stripped(uri) ==
    IF uri.prefixes \in {0, 1} THEN Bare(uri.id) ELSE Uri(uri.prefixes - 1, uri.id)

Expected(param, words) ==
    IF param.kind = "flag"
    THEN IF param.server_value = "bool_as_string"
         THEN String(IF words = <<>> THEN "false" ELSE "true")
         ELSE Bool(words # <<>>)
    ELSE IF param.repeated THEN Array(words)
    ELSE IF words = <<>> THEN Null
    ELSE IF param.uri_rule # "n/a" THEN UriString(Stripped(Head(words)))
    ELSE String(Head(words))

NotGiven == {Null, Array(<<>>)}

(* `org query` is the one command whose key is not the registered one.     *)
SentKey(param) == IF param.key = "query" THEN "ql_expr" ELSE param.key

(* Every command that calls a tool sends what its registry entry says: the *)
(* tool, no key of another tool, and for every option its value under its  *)
(* key (src/contract.rs COMMANDS against every cmd_ function of            *)
(* src/main.rs), but for the key of `org query`: see RegistryIsExact.  A   *)
(* URI that was typed bare or with one org:// goes out bare; one of two    *)
(* org:// keeps one: see ToolInputsAreBare.                                *)
RequestAsRegistered ==
    phase = "sent" /\ IsTool =>
        LET sent == request.arguments
        IN  /\ request.tool = Entry.target
            /\ DOMAIN sent \subseteq {SentKey(param) : param \in Entry.params}
            /\ \A param \in Entry.params \ {p \in Entry.params : p.key = "properties"} :
                   LET value == Expected(param, given[param.name])
                   IN  IF SentKey(param) \in DOMAIN sent
                       THEN sent[SentKey(param)] = value
                       ELSE value \in NotGiven

(* `edit properties` tells the server, of every key it names, one thing:   *)
(* to remove it if any --unset names it, else the value of its last --set  *)
(* (cmd_edit_properties, parse_set_pairs).                                 *)
PropertiesMerged ==
    phase = "sent" /\ path = <<"edit", "properties">> =>
        LET properties == request.arguments["properties"][2]
            sets == given["set"]
            unset == ToSet(given["unset"])
        IN  /\ DOMAIN properties = unset \cup {sets[i][1] : i \in DOMAIN sets}
            /\ \A key \in unset : properties[key] = Null
            /\ \A i \in DOMAIN sets :
                   sets[i][1] \in unset
                       \/ properties[sets[i][1]] = String(sets[i][2])
                       \/ \E j \in DOMAIN sets : j > i /\ sets[j][1] = sets[i][1]

(* What the caller means is what the registry asks for.                    *)
FollowsRegistry ==
    \A param \in Entry.params :
        /\ param.required => given[param.name] # <<>>
        /\ Len(given[param.name]) > 1 => param.repeated

BadValue ==
    \/ path = <<"outline">> /\ \E file \in ToSet(given["file"]) : file.prefixes # 0
    \/ path = <<"edit", "properties">> /\ \E pair \in ToSet(given["set"]) : Len(pair) = 1
    \/ path = <<"tools", "call">> /\ \E args \in ToSet(given["args"]) : ~args.valid

(* A command line reaches a server only if it gives all that the registry  *)
(* requires, repeats only what it lets be repeated, and has neither a bad  *)
(* value nor a word that clap takes for something else; and it is refused  *)
(* only for one of these (src/cli.rs, run() of src/main.rs and             *)
(* src/contract.rs agree on them).  What clap may take for something else, *)
(* a value led by a dash, the registry does not tell.                      *)
AcceptedAsRegistered ==
    path # <<"schema">> =>
        /\ phase = "sent" => FollowsRegistry /\ ~BadValue /\ ~misread
        /\ phase = "refused" => ~FollowsRegistry \/ BadValue \/ misread

(* The four things a caller may take from a registry that is one "of every *)
(* CLI command exposed by the CLI" whose entries record "the exact tool    *)
(* target, parameter shapes" (src/contract.rs:3-5).  Each of them fails.   *)

(* "The exact key used in the tool's JSON arguments" (src/contract.rs:104).*)
KeysAsRegistered ==
    phase = "sent" /\ IsTool =>
        DOMAIN request.arguments \subseteq {param.key : param \in Entry.params}

(* "Only bare identifiers accepted" (src/contract.rs:60): a command line   *)
(* that breaks the rule is refused.  `todo add --after` takes org:// too.  *)
UriRulesHold ==
    phase = "sent" /\ IsTool =>
        \A param \in Entry.params :
            param.uri_rule = "bare_only" => \A uri \in ToSet(given[param.name]) : uri.prefixes = 0

(* `org schema` knows every command the CLI parses.  Not `query run`.      *)
CommandsRegistered ==
    phase = "refused" /\ path = <<"schema">> => given["path"] \notin Paths

(* Internal is "handled entirely by the CLI without server IO"             *)
(* (src/contract.rs:20).  `tools list` and `tools call` go out.            *)
InternalStaysLocal == phase = "sent" => Entry.target # Internal

RegistryIsExact ==
    KeysAsRegistered /\ UriRulesHold /\ CommandsRegistered /\ InternalStaysLocal

(* "Tool inputs must be bare (...); the org:// prefix is reserved for the  *)
(* MCP resource layer" (src/uri.rs:3-4), by a normalization "applied       *)
(* before every tool call" (src/uri.rs:16).  It takes off one prefix, and  *)
(* is not applied to --files.                                              *)
ToolInputsAreBare ==
    phase = "sent" /\ IsTool =>
        \A key \in DOMAIN request.arguments :
            LET value == request.arguments[key]
                prefixed == {uri \in Uris : uri.prefixes > 0}
            IN  /\ value[1] = "uri" => value[2] \notin prefixed
                /\ value[1] = "array" => ToSet(value[2]) \cap prefixed = {}

(* What the repository says of its dispatch, all of which something        *)
(* breaks: the registry records every command exactly (src/contract.rs),   *)
(* and tools are given bare identifiers (src/uri.rs).                      *)
DispatchAsDocumented == RegistryIsExact /\ ToolInputsAreBare

=============================================================================
