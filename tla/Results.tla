------------------------------- MODULE Results -------------------------------
(***************************************************************************)
(* From the result of a tools/call to the `data` of the envelope:          *)
(* Client::tools_call takes the content out of the result, extract_result  *)
(* (src/main.rs) makes one value of it.  Every command but `schema` and    *)
(* `tools list` prints what this module computes.                          *)
(***************************************************************************)
EXTENDS Naturals, Sequences, Values

CONSTANTS
    Items,      \* the content items a server may send: JSON values
    JsonOf,     \* the values of the texts that are JSON: a function on them
    MaxItems    \* bound on the items of an answer

ASSUME ItemsMayCome == MaxItems \in Nat /\ DOMAIN JsonOf # {}

VARIABLES
    items,      \* what the server puts into its answer
    result,     \* the result it answers with
    data        \* the data printed, {} before it is

vars == <<items, result, data>>

----------------------------------------------------------------------------
(* One item.                                                               *)

(* get(key).and_then(as_str).unwrap_or("")                                 *)
StringOrEmpty(value, key) == String(OnlyOr(TextAt(value, key), ""))

Raw(type, item) == Object([type |-> type, raw |-> item])

Interpreted(text) ==
    IF text \in DOMAIN JsonOf THEN JsonOf[text] ELSE Object([text |-> String(text)])

FromText(item) ==
    OnlyOr({Interpreted(text) : text \in TextAt(item, "text")}, Raw(String("text"), item))

FromImage(item) ==
    Object([type |-> String("image"),
            mime_type |-> StringOrEmpty(item, "mimeType"),
            data |-> StringOrEmpty(item, "data")])

(* Mutant: the text of an embedded resource is not copied.                 *)
FromResourceHead(item) ==
    LET resource == OnlyOr(Member(item, "resource"), Null)
    IN  Object([type |-> String("resource"),
                uri |-> StringOrEmpty(resource, "uri"),
                mime_type |-> StringOrEmpty(resource, "mimeType")])

FromResource(item) ==
    LET resource == OnlyOr(Member(item, "resource"), Null)
        head == [type |-> String("resource"),
                 uri |-> StringOrEmpty(resource, "uri"),
                 mime_type |-> StringOrEmpty(resource, "mimeType")]
    IN  Object(head ++ [key \in {"text" : text \in TextAt(resource, "text")} |->
                            StringOrEmpty(resource, key)])

FromLink(item) ==
    Object([type |-> String("resource_link"),
            uri |-> StringOrEmpty(item, "uri"),
            name |-> StringOrEmpty(item, "name"),
            mime_type |-> StringOrEmpty(item, "mimeType"),
            description |-> StringOrEmpty(item, "description")])

map_content_item(item) ==
    LET type == StringOrEmpty(item, "type")
    IN  CASE type = String("text") -> FromText(item)
          [] type = String("image") -> FromImage(item)
          [] type \in {String("resource"), String("embedded_resource")} -> FromResource(item)
          [] type = String("resource_link") -> FromLink(item)
          [] OTHER -> Raw(type, item)

----------------------------------------------------------------------------
(* The whole answer.                                                       *)

(* The content, or all of the result when there is none.                   *)
tools_call(answer) == OnlyOr(Member(answer, "content"), answer)

(* Mutant: the first item is the answer.                                   *)
ExtractFirst(content) ==
    IF content[1] # "array" THEN content
    ELSE IF content[2] = <<>> THEN Null
    ELSE map_content_item(content[2][1])

extract_result(content) ==
    IF content[1] # "array" THEN content
    ELSE IF content[2] = <<>> THEN Null
    ELSE LET mapped == [i \in DOMAIN content[2] |-> map_content_item(content[2][i])]
         IN  IF Len(mapped) = 1 THEN mapped[1] ELSE Array(mapped)

Init ==
    /\ items = <<>>
    /\ result = Null
    /\ data = {}

(* The server: an array of items as content, or as the whole result; a     *)
(* content that is no array; no content at all.                            *)
AddItem ==
    /\ data = {}
    /\ Len(items) < MaxItems
    /\ \E item \in Items : items' = Append(items, item)
    /\ UNCHANGED <<result, data>>

Answers ==
    {Object([content |-> Array(items)]), Array(items)}
        \cup (IF items # <<>> THEN {}
              ELSE {Object([content |-> Null]), Object([isError |-> Bool(TRUE)]), Null})

(* The command prints what became of the answer.                           *)
Extract ==
    /\ data = {}
    /\ \E answer \in Answers :
        /\ result' = answer
        /\ data' = {extract_result(tools_call(answer))}
    /\ UNCHANGED items

Next == AddItem \/ Extract

Spec == Init /\ [][Next]_vars

----------------------------------------------------------------------------
(* The live tests that change a node look for its children in what         *)
(* tools_call returned for org-read: read_result["children"].as_array()    *)
(* .and_then(first).  Without one they skip.                               *)
FirstChild(read_result) ==
    {children[2][1] : children \in {value \in Member(read_result, "children") :
                                     value[1] = "array" /\ value[2] # <<>>}}

----------------------------------------------------------------------------
(* Properties.                                                             *)

(* Every item of an answer comes out, in its place, as it would alone: a   *)
(* script may index data by the position of the item, and has to look for  *)
(* an array only when there are several (main.rs:850-867).                 *)
ItemsInPlace ==
    \A value \in data :
        /\ Len(items) >= 2 =>
            /\ value[1] = "array"
            /\ Len(value[2]) = Len(items)
            /\ \A i \in DOMAIN items : {value[2][i]} = {extract_result(Array(<<items[i]>>))}
        /\ Len(items) = 1 => value = map_content_item(items[1])

(* What an item says to a caller: the type and the texts of the members    *)
(* that the comment on extract_result lists for it (main.rs:839-845), or   *)
(* all of it where nothing is listed.  MCP has more of them: the blob of   *)
(* an embedded resource, the title and the size of a link, annotations,    *)
(* _meta.  They are not in here, and the code drops them.  A missing text  *)
(* reads as an empty one everywhere but in `text`.                         *)
Said(value, keys) == [key \in keys |-> StringOrEmpty(value, key)]

Says(item) ==
    LET type == StringOrEmpty(item, "type")
    IN  CASE type = String("text") /\ TextAt(item, "text") # {} -> <<"text", TextAt(item, "text")>>
          [] type = String("image") -> <<"image", Said(item, {"mimeType", "data"})>>
          [] type \in {String("resource"), String("embedded_resource")} ->
                <<"resource", {<<Said(resource, {"uri", "mimeType"}), TextAt(resource, "text")>> :
                                 resource \in Member(item, "resource")}>>
          [] type = String("resource_link") ->
                <<"link", Said(item, {"uri", "name", "mimeType", "description"})>>
          [] OTHER -> <<"other", item>>

JsonText(item) == TextAt(item, "text") \cap DOMAIN JsonOf # {}

(* Two items of an answer come out alike if they say the same, and only    *)
(* then: of the members that are listed none is lost or taken for          *)
(* another's, and of the others none makes a difference, so that two       *)
(* resources with different blobs are one to a caller (main.rs:869-925).   *)
(* An item with a JSON text is left out, it may come out as anything, and  *)
(* so is a resource item without a resource.                               *)
Whole(item) == ~JsonText(item) /\ Says(item) # <<"resource", {}>>

ToldApart ==
    data # {} =>
        \A i, j \in DOMAIN items :
            Whole(items[i]) /\ Whole(items[j]) =>
                (map_content_item(items[i]) = map_content_item(items[j])
                    <=> Says(items[i]) = Says(items[j]))

(* tests/live_org_mcp.rs:50: "All mutating tests use a read-then-write-    *)
(* then-revert pattern."  They write when they find a child where `org     *)
(* read` would show one.  They do not: tools_call returns the content      *)
(* array, the children are in the JSON text of its first item.             *)
MutatingTestsFindAChild ==
    \A value \in data : FirstChild(value) # {} => FirstChild(tools_call(result)) # {}

=============================================================================
