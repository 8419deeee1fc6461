------------------------------ MODULE Contract ------------------------------
(***************************************************************************)
(* The command registry (src/contract.rs): for every command its tool and, *)
(* for every parameter, the key it is sent under and what may be given.    *)
(* It is what `org schema` tells callers.  Summaries, descriptions, value  *)
(* types and output shapes are left out.                                   *)
(***************************************************************************)

(* A key-value option sent under key, optional, not repeatable.            *)
Param(name, key) ==
    [name |-> name, key |-> key, required |-> FALSE, repeated |-> FALSE,
     kind |-> "key_value", uri_rule |-> "n/a", server_value |-> "native"]

Option(name) == Param(name, name)
Required(param) == [param EXCEPT !.required = TRUE]
Repeated(param) == [param EXCEPT !.repeated = TRUE]
Positional(param) == [param EXCEPT !.kind = "positional"]
Flag(param) == [param EXCEPT !.kind = "flag"]
EitherUri(param) == [param EXCEPT !.uri_rule = "either"]
BareUri(param) == [param EXCEPT !.uri_rule = "bare_only"]
BoolAsString(param) == [param EXCEPT !.server_value = "bool_as_string"]

Node == Required(Positional(EitherUri(Option("uri"))))

Command(path, target, params) == [path |-> path, target |-> target, params |-> params]

(* The commands the CLI answers itself or forwards raw have no tool.       *)
Internal == ""

(* What is sent under no key: the parameter of a command answered locally. *)
NoKey == ""

ReadCommands ==
    {Command(<<"read">>, "org-read", {Node}),
     Command(<<"read-headline">>, "org-read-headline", {Node}),
     Command(<<"outline">>, "org-read-outline", {Required(Positional(Option("file")))})}

QueryCommands ==
    {Command(<<"query">>, "org-ql-query",
             {Required(Positional(Param("ql_expr", "query"))), Repeated(Option("files"))}),
     Command(<<"query", "inbox">>, "query-inbox", {}),
     Command(<<"query", "next">>, "query-next", {Option("tag")}),
     Command(<<"query", "backlog">>, "query-backlog", {Option("tag")})}

TodoCommands ==
    {Command(<<"todo", "state">>, "org-update-todo-state",
             {Node, Required(Positional(Param("new-state", "new_state"))),
              Param("from", "current_state"), Option("note")}),
     Command(<<"todo", "add">>, "org-add-todo",
             {Required(EitherUri(Param("parent", "parent_uri"))), Required(Option("title")),
              Required(Param("state", "todo_state")), Option("body"),
              Repeated(Param("tag", "tags")), BareUri(Param("after", "after_uri"))})}

TextCommands ==
    {Command(<<"edit", "rename">>, "org-rename-headline",
             {Node, Required(Param("from", "current_title")), Required(Param("to", "new_title"))}),
     Command(<<"edit", "body">>, "org-edit-body",
             {[Node EXCEPT !.key = "resource_uri"], Required(Param("new", "new_body")),
              Param("old", "old_body"), Flag(Option("append"))})}

AttributeCommands ==
    {Command(<<"edit", "properties">>, "org-set-properties",
             {Node, Repeated(Param("set", "properties")), Repeated(Param("unset", "properties"))}),
     Command(<<"edit", "tags">>, "org-set-tags", {Node, Repeated(Param("tag", "tags"))}),
     Command(<<"edit", "priority">>, "org-set-priority", {Node, Option("priority")})}

DateCommands ==
    {Command(<<"edit", "scheduled">>, "org-update-scheduled", {Node, Param("date", "scheduled")}),
     Command(<<"edit", "deadline">>, "org-update-deadline", {Node, Param("date", "deadline")}),
     Command(<<"edit", "log-note">>, "org-add-logbook-note", {Node, Required(Option("note"))})}

ClockCommands ==
    {Command(<<"clock", "status">>, "org-clock-get-active", {}),
     Command(<<"clock", "in">>, "org-clock-in",
             {Node, Param("at", "start_time"), BoolAsString(Flag(Option("resolve")))}),
     Command(<<"clock", "out">>, "org-clock-out",
             {[Node EXCEPT !.required = FALSE], Param("at", "end_time")})}

ClockEntryCommands ==
    {Command(<<"clock", "add">>, "org-clock-add",
             {Node, Required(Option("start")), Required(Option("end"))}),
     Command(<<"clock", "delete">>, "org-clock-delete", {Node, Required(Param("at", "start"))}),
     Command(<<"clock", "dangling">>, "org-clock-find-dangling", {})}

ConfigCommands ==
    {Command(<<"config", "todo">>, "org-get-todo-config", {}),
     Command(<<"config", "tags">>, "org-get-tag-config", {}),
     Command(<<"config", "tag-candidates">>, "org-get-tag-candidates", {}),
     Command(<<"config", "priority">>, "org-get-priority-config", {}),
     Command(<<"config", "files">>, "org-get-allowed-files", {}),
     Command(<<"config", "clock">>, "org-get-clock-config", {})}

InternalCommands ==
    {Command(<<"tools", "list">>, Internal, {}),
     Command(<<"tools", "call">>, Internal,
             {Required(Positional(Option("name"))), Param("args", "arguments")}),
     Command(<<"schema">>, Internal, {}),
     Command(<<"schema", "<path>">>, Internal, {Required(Positional(Param("path", NoKey)))})}

COMMANDS == UNION {ReadCommands, QueryCommands, TodoCommands, TextCommands, AttributeCommands,
                   DateCommands, ClockCommands, ClockEntryCommands, ConfigCommands, InternalCommands}

(* serialize_one: the command at a path, if there is one.                  *)
Registered(path) == {command \in COMMANDS : command.path = path}

=============================================================================
