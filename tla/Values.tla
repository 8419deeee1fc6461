------------------------------- MODULE Values -------------------------------
(***************************************************************************)
(* JSON values (serde_json::Value): a tag and what it stands for, so that  *)
(* values of different kinds can be compared.  The members of an object    *)
(* are a function on its keys.  A URI that is an argument is kept apart    *)
(* from other strings, as its prefix is what the code looks at.            *)
(***************************************************************************)

Null == <<"null">>
Bool(b) == <<"bool", b>>
String(text) == <<"string", text>>
UriString(uri) == <<"uri", uri>>
Array(items) == <<"array", items>>
Object(members) == <<"object", members>>

(* A value nobody looks into.                                              *)
Verbatim(json) == <<"verbatim", json>>

(* json!({key: value}), and the members of two such objects.               *)
Field(key, value) == [k \in {key} |-> value]

left ++ right ==
    [key \in DOMAIN left \cup DOMAIN right |->
        IF key \in DOMAIN left THEN left[key] ELSE right[key]]

(* Value::get and as_str: at most one member, at most one text.            *)
Member(value, key) ==
    IF value[1] = "object" /\ key \in DOMAIN value[2] THEN {value[2][key]} ELSE {}

TextAt(value, key) == {member[2] : member \in {m \in Member(value, key) : m[1] = "string"}}

(* The element of a set that has one, otherwise the default.               *)
OnlyOr(set, default) == IF set = {} THEN default ELSE CHOOSE element \in set : TRUE

=============================================================================
