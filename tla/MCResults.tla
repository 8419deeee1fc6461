------------------------------ MODULE MCResults ------------------------------
(***************************************************************************)
(* Results for TLC: items of every content type, each member missing, or   *)
(* one of two texts; members of MCP that the code does not look at, there  *)
(* or not, as a blob; three texts that are JSON, one of them what org-read  *)
(* says of a file with a heading.                                          *)
(***************************************************************************)
EXTENDS Results

CONSTANTS Plain     \* texts that are not JSON

MCJsonOf ==
    [null |-> Null,
     pair |-> Array(<<Null, Null>>),
     file |-> Object([children |-> Array(<<Object([uri |-> String("first")])>>)])]

(* The objects with any of the keys, and one of the texts under each.      *)
ObjectsOver(keys, texts) ==
    {Object([key \in present |-> String(text[key])]) :
        <<present, text>> \in (SUBSET keys) \X [keys -> texts]}

Typed(type, members) == {Object(object[2] ++ [type |-> String(type)]) : object \in members}

(* The objects as they are, and with one more member.                      *)
OrWith(objects, key, value) ==
    objects \cup {Object(object[2] ++ Field(key, value)) : object \in objects}

Annotations == Object([audience |-> Array(<<String("user")>>)])

Resources ==
    OrWith(ObjectsOver({"uri", "mimeType", "text"}, Plain), "blob", String("AA=="))

MCItems ==
    UNION {
        OrWith(Typed("text", ObjectsOver({"text"}, Plain \cup DOMAIN MCJsonOf)),
               "annotations", Annotations),
        OrWith(Typed("image", ObjectsOver({"mimeType", "data"}, Plain)), "annotations", Annotations),
        OrWith(Typed("resource_link", ObjectsOver({"uri", "name", "mimeType", "description"}, Plain)),
               "title", String("Title")),
        Typed("audio", ObjectsOver({"data"}, Plain)),
        UNION {Typed(type, {Object([resource |-> resource]) : resource \in Resources}) :
                 type \in {"resource", "embedded_resource"}},
        {Object([type |-> String("resource")]), Object([uri |-> String("")]), Null}}

===============================================================================
