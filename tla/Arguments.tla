----------------------------- MODULE Arguments -----------------------------
(***************************************************************************)
(* The arguments object of the tool call behind each command (the cmd_     *)
(* functions of src/main.rs, normalize_for_tool of src/uri.rs), from g,    *)
(* the words given for each option.                                        *)
(***************************************************************************)
EXTENDS Integers, SequencesExt, Values

(* A node or file as it is typed: what is left of it once the org:// at    *)
(* its front are taken off, and how many of them there are.                *)
Uri(prefixes, id) == [prefixes |-> prefixes, id |-> id]
Bare(id) == Uri(0, id)

NoArguments == <<>>

(* A key that is left out, or sent as null, when its option is not given.  *)
Omitted(key, words) ==
    IF words = <<>> THEN NoArguments ELSE Field(key, String(Head(words)))
OrNull(words) == IF words = <<>> THEN Null ELSE String(Head(words))

The(words) == String(Head(words))

(* Mutant: a prefix is cut off where there is none.                        *)
StripBlindly(input) == Uri(input.prefixes - 1, input.id)

(* normalize_for_tool strips one org://, if there is one.                  *)
normalize_for_tool(input) ==
    Uri(IF input.prefixes = 0 THEN 0 ELSE input.prefixes - 1, input.id)

Target(words) == UriString(normalize_for_tool(Head(words)))

(* parse_set_pairs: the last value of a key stays; then --unset.           *)
Malformed(pairs) == \E pair \in ToSet(pairs) : Len(pair) = 1

SetPairs(pairs) ==
    [key \in {pair[1] : pair \in ToSet(pairs)} |->
        String(pairs[SelectLastInSeq(pairs, LAMBDA pair : pair[1] = key)][2])]

(* Mutant: --set wins over --unset.                                        *)
SetsWin(sets, unsets) == SetPairs(sets) ++ [key \in ToSet(unsets) |-> Null]

Properties(sets, unsets) == [key \in ToSet(unsets) |-> Null] ++ SetPairs(sets)

----------------------------------------------------------------------------
(* The arguments, one operator per group of cmd_ functions.                *)

QueryArguments(g) == Field("ql_expr", The(g["ql_expr"])) ++ Field("files", Array(g["files"]))

TagArguments(g) == Omitted("tag", g["tag"])

TodoStateArguments(g) ==
    Field("uri", Target(g["uri"])) ++ Field("new_state", The(g["new-state"]))
    ++ Omitted("current_state", g["from"]) ++ Omitted("note", g["note"])

TodoAddArguments(g) ==
    Field("parent_uri", Target(g["parent"])) ++ Field("title", The(g["title"]))
    ++ Field("todo_state", The(g["state"])) ++ Field("tags", Array(g["tag"]))
    ++ Omitted("body", g["body"])
    ++ (IF g["after"] = <<>> THEN NoArguments ELSE Field("after_uri", Target(g["after"])))

RenameArguments(g) ==
    Field("uri", Target(g["uri"])) ++ Field("current_title", The(g["from"]))
    ++ Field("new_title", The(g["to"]))

(* Mutants of `edit body`: it always appends; the two texts change places; *)
(* the guard goes out under the name of its option.                        *)
BodyArgumentsAppend(g) ==
    Field("resource_uri", Target(g["uri"])) ++ Field("new_body", The(g["new"]))
    ++ Field("append", Bool(TRUE)) ++ Omitted("old_body", g["old"])

BodyArgumentsSwapped(g) ==
    Field("resource_uri", Target(g["uri"])) ++ Field("old_body", The(g["new"]))
    ++ Field("append", Bool(g["append"] # <<>>)) ++ Omitted("new_body", g["old"])

BodyArgumentsOld(g) ==
    Field("resource_uri", Target(g["uri"])) ++ Field("new_body", The(g["new"]))
    ++ Field("append", Bool(g["append"] # <<>>)) ++ Omitted("old", g["old"])

BodyArguments(g) ==
    Field("resource_uri", Target(g["uri"])) ++ Field("new_body", The(g["new"]))
    ++ Field("append", Bool(g["append"] # <<>>)) ++ Omitted("old_body", g["old"])

PropertiesArguments(g) ==
    Field("uri", Target(g["uri"])) ++ Field("properties", Object(Properties(g["set"], g["unset"])))

ClearableArguments(g, key, words) == Field("uri", Target(g["uri"])) ++ Field(key, OrNull(words))

ClockInArguments(g) ==
    Field("uri", Target(g["uri"]))
    ++ Field("resolve", String(IF g["resolve"] = <<>> THEN "false" ELSE "true"))
    ++ Omitted("start_time", g["at"])

ClockOutArguments(g) ==
    (IF g["uri"] = <<>> THEN NoArguments ELSE Field("uri", Target(g["uri"])))
    ++ Omitted("end_time", g["at"])

ClockAddArguments(g) ==
    Field("uri", Target(g["uri"])) ++ Field("start", The(g["start"])) ++ Field("end", The(g["end"]))

Call(tool, arguments) == [tool |-> tool, arguments |-> arguments]

ReadCall(subcommand, g) ==
    CASE subcommand = <<"read">> -> Call("org-read", Field("uri", Target(g["uri"])))
      [] subcommand = <<"read-headline">> ->
            Call("org-read-headline", Field("uri", Target(g["uri"])))
      [] OTHER -> Call("org-read-outline", Field("file", The(g["file"])))

QueryCall(subcommand, g) ==
    CASE subcommand = <<"query", "inbox">> -> Call("query-inbox", NoArguments)
      [] subcommand = <<"query", "next">> -> Call("query-next", TagArguments(g))
      [] subcommand = <<"query", "backlog">> -> Call("query-backlog", TagArguments(g))
      [] OTHER -> Call("org-ql-query", QueryArguments(g))

TodoCall(subcommand, g) ==
    IF subcommand = <<"todo", "state">>
    THEN Call("org-update-todo-state", TodoStateArguments(g))
    ELSE Call("org-add-todo", TodoAddArguments(g))

EditCall(subcommand, g) ==
    CASE subcommand[2] = "rename" -> Call("org-rename-headline", RenameArguments(g))
      [] subcommand[2] = "body" -> Call("org-edit-body", BodyArguments(g))
      [] subcommand[2] = "properties" -> Call("org-set-properties", PropertiesArguments(g))
      [] subcommand[2] = "tags" ->
            Call("org-set-tags", Field("uri", Target(g["uri"])) ++ Field("tags", Array(g["tag"])))
      [] subcommand[2] = "priority" ->
            Call("org-set-priority", ClearableArguments(g, "priority", g["priority"]))
      [] subcommand[2] = "scheduled" ->
            Call("org-update-scheduled", ClearableArguments(g, "scheduled", g["date"]))
      [] subcommand[2] = "deadline" ->
            Call("org-update-deadline", ClearableArguments(g, "deadline", g["date"]))
      [] OTHER ->
            Call("org-add-logbook-note",
                 Field("uri", Target(g["uri"])) ++ Field("note", The(g["note"])))

ClockCall(subcommand, g) ==
    CASE subcommand[2] = "status" -> Call("org-clock-get-active", NoArguments)
      [] subcommand[2] = "in" -> Call("org-clock-in", ClockInArguments(g))
      [] subcommand[2] = "out" -> Call("org-clock-out", ClockOutArguments(g))
      [] subcommand[2] = "add" -> Call("org-clock-add", ClockAddArguments(g))
      [] subcommand[2] = "delete" ->
            Call("org-clock-delete", Field("uri", Target(g["uri"])) ++ Field("start", The(g["at"])))
      [] OTHER -> Call("org-clock-find-dangling", NoArguments)

ConfigTool ==
    [todo |-> "org-get-todo-config", tags |-> "org-get-tag-config",
     priority |-> "org-get-priority-config", files |-> "org-get-allowed-files",
     clock |-> "org-get-clock-config"] ++ Field("tag-candidates", "org-get-tag-candidates")

ToolCall(g) ==
    Call(Head(g["name"]),
         IF g["args"] = <<>> THEN NoArguments ELSE Verbatim(Head(g["args"])))

RequestFor(subcommand, g) ==
    CASE subcommand[1] = "query" -> QueryCall(subcommand, g)
      [] subcommand[1] = "todo" -> TodoCall(subcommand, g)
      [] subcommand[1] = "edit" -> EditCall(subcommand, g)
      [] subcommand[1] = "clock" -> ClockCall(subcommand, g)
      [] subcommand[1] = "config" -> Call(ConfigTool[subcommand[2]], NoArguments)
      [] subcommand = <<"tools", "list">> -> Call("tools/list", NoArguments)
      [] subcommand = <<"tools", "call">> -> ToolCall(g)
      [] OTHER -> ReadCall(subcommand, g)

=============================================================================
