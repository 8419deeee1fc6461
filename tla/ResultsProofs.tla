---------------------------- MODULE ResultsProofs ----------------------------
(***************************************************************************)
(* What holds of the data printed for answers of any length, any items and *)
(* any texts that are JSON.                                                *)
(***************************************************************************)
EXTENDS Results, SequenceTheorems, TLAPS

(* The data printed is that of the answer.                                 *)
Extracted ==
    /\ items \in Seq(Items)
    /\ data # {} => result \in Answers /\ data = {extract_result(tools_call(result))}

----------------------------------------------------------------------------
(* JSON values.                                                            *)

(* The element of a set that has just one.                                 *)
LEMMA OnlyOne == ASSUME NEW x, NEW default PROVE OnlyOr({x}, default) = x
BY DEF OnlyOr

(* A member is one value or none, and so is its text.                      *)
LEMMA MembersAt ==
    ASSUME NEW value, NEW key
    PROVE  Member(value, key) = {} \/ \E member : Member(value, key) = {member}
BY DEF Member

(* A value has at most one text under a key.                               *)
LEMMA TextsAt ==
    ASSUME NEW value, NEW key
    PROVE  TextAt(value, key) = {} \/ \E text : TextAt(value, key) = {text}
<1>1. CASE Member(value, key) = {}
  BY <1>1 DEF TextAt
<1>2. ASSUME NEW member, Member(value, key) = {member}
      PROVE  TextAt(value, key) = {} \/ TextAt(value, key) = {member[2]}
  BY <1>2 DEF TextAt
<1>. QED
  BY <1>1, <1>2, MembersAt

(* Strings are told apart by their texts, and the types of items are.      *)
LEMMA StringsDiffer == ASSUME NEW x, NEW y, String(x) = String(y) PROVE x = y
BY DEF String

----------------------------------------------------------------------------
(* What becomes of an array of items.                                      *)
LEMMA ArrayExtracted ==
    ASSUME NEW S, NEW contents \in Seq(S)
    PROVE  /\ Len(contents) = 1 => extract_result(Array(contents)) = map_content_item(contents[1])
           /\ Len(contents) >= 2 =>
                extract_result(Array(contents)) =
                    Array([i \in DOMAIN contents |-> map_content_item(contents[i])])
<1> DEFINE mapped == [i \in DOMAIN contents |-> map_content_item(contents[i])]
<1>1. /\ Array(contents)[1] = "array" /\ Array(contents)[2] = contents
      /\ DOMAIN contents = 1..Len(contents) /\ Len(contents) \in Nat
  BY DEF Array
<1>2. Len(mapped) = Len(contents)
  BY <1>1
<1>3. Len(contents) >= 1 => contents # <<>>
  BY EmptySeq
<1>4. Len(contents) >= 1 =>
        extract_result(Array(contents)) = IF Len(mapped) = 1 THEN mapped[1] ELSE Array(mapped)
  <2> HIDE DEF mapped
  <2>1. contents # <<>> =>
          extract_result(Array(contents)) = IF Len(mapped) = 1 THEN mapped[1] ELSE Array(mapped)
    BY <1>1 DEF extract_result, mapped
  <2>. QED
    BY <1>3, <2>1
<1>. QED
  BY <1>1, <1>2, <1>4

(* An answer with items comes out as their array would.                    *)
LEMMA AnswerExtracted ==
    ASSUME items # <<>>, NEW answer \in Answers
    PROVE  tools_call(answer) = Array(items)
<1>1. CASE answer = Array(items)
  <2>1. Member(answer, "content") = {}
    BY <1>1 DEF Member, Array
  <2>. QED
    BY <1>1, <2>1 DEF tools_call, OnlyOr
<1>2. CASE answer = Object([content |-> Array(items)])
  <2>1. Member(answer, "content") = {Array(items)}
    BY <1>2 DEF Member, Object
  <2>. QED
    BY <2>1, OnlyOne DEF tools_call
<1>. QED
  BY <1>1, <1>2 DEF Answers

(* Every step computes the data from the answer, once.                     *)
LEMMA ExtractedHolds == Spec => []Extracted
<1>1. Init => Extracted
  BY EmptySeq DEF Init, Extracted
<1>2. Extracted /\ [Next]_vars => Extracted'
  <2> SUFFICES ASSUME Extracted, [Next]_vars PROVE Extracted'
    OBVIOUS
  <2>1. CASE AddItem
    BY <2>1, AppendProperties DEF AddItem, Extracted
  <2>2. CASE Extract
    <3>1. PICK answer \in Answers : result' = answer /\ data' = {extract_result(tools_call(answer))}
      BY <2>2 DEF Extract
    <3>2. items' = items /\ Answers' = Answers
      BY <2>2 DEF Extract, Answers
    <3>. QED
      BY <3>1, <3>2 DEF Extracted
  <2>3. CASE UNCHANGED vars
    BY <2>3 DEF vars, Extracted, Answers
  <2>. QED
    BY <2>1, <2>2, <2>3 DEF Next
<1>. QED
  BY <1>1, <1>2, PTL DEF Spec

(* Every item of an answer of any length is in its place, as it would be   *)
(* alone (main.rs:850-867).                                                *)
THEOREM EveryItemInPlace == Spec => []ItemsInPlace
<1>1. ASSUME Extracted PROVE ItemsInPlace
  <2> SUFFICES ASSUME NEW value \in data, items # <<>>
               PROVE  /\ Len(items) >= 2 =>
                           /\ value[1] = "array"
                           /\ Len(value[2]) = Len(items)
                           /\ \A i \in DOMAIN items :
                                {value[2][i]} = {extract_result(Array(<<items[i]>>))}
                      /\ Len(items) = 1 => value = map_content_item(items[1])
    BY <1>1, EmptySeq DEF Extracted, ItemsInPlace
  <2>1. value = extract_result(Array(items)) /\ items \in Seq(Items)
    BY <1>1, AnswerExtracted DEF Extracted
  <2>2. ASSUME NEW i \in DOMAIN items
        PROVE  extract_result(Array(<<items[i]>>)) = map_content_item(items[i])
    <3>1. <<items[i]>> \in Seq(Items) /\ Len(<<items[i]>>) = 1 /\ <<items[i]>>[1] = items[i]
      BY <2>1, <2>2, ElementOfSeq
    <3>. QED
      BY <3>1, ArrayExtracted
  <2>3. ASSUME Len(items) >= 2
        PROVE  /\ value[1] = "array" /\ Len(value[2]) = Len(items)
               /\ \A i \in DOMAIN items : value[2][i] = map_content_item(items[i])
    <3>1. value = Array([i \in DOMAIN items |-> map_content_item(items[i])])
      BY <2>1, <2>3, ArrayExtracted
    <3>2. DOMAIN items = 1..Len(items) /\ Len(items) \in Nat
      BY <2>1
    <3>. QED
      BY <3>1, <3>2 DEF Array
  <2>4. Len(items) = 1 => value = map_content_item(items[1])
    BY <2>1, ArrayExtracted
  <2>. QED
    BY <2>2, <2>3, <2>4
<1>. QED
  BY <1>1, ExtractedHolds, PTL

----------------------------------------------------------------------------
(* What an item becomes tells its kind by the members it has.              *)

TextShape(item, members) ==
    \E text :
        /\ TextAt(item, "text") = {text} /\ Says(item) = <<"text", {text}>>
        /\ DOMAIN members = {"text"} /\ members["text"] = String(text)

RawShape(item, members) == DOMAIN members = {"type", "raw"} /\ members["raw"] = item

ImageShape(item, members) ==
    /\ Says(item) = <<"image", Said(item, {"mimeType", "data"})>>
    /\ DOMAIN members = {"type", "mime_type", "data"}
    /\ members["mime_type"] = StringOrEmpty(item, "mimeType")
    /\ members["data"] = StringOrEmpty(item, "data")

ResourceShape(item, members) ==
    \E resource :
        /\ Says(item) =
             <<"resource", {<<Said(resource, {"uri", "mimeType"}), TextAt(resource, "text")>>}>>
        /\ {"type", "uri", "mime_type"} \subseteq DOMAIN members
        /\ DOMAIN members \subseteq {"type", "uri", "mime_type", "text"}
        /\ members["uri"] = StringOrEmpty(resource, "uri")
        /\ members["mime_type"] = StringOrEmpty(resource, "mimeType")
        /\ "text" \in DOMAIN members <=> TextAt(resource, "text") # {}
        /\ "text" \in DOMAIN members => members["text"] = StringOrEmpty(resource, "text")

LinkShape(item, members) ==
    /\ Says(item) = <<"link", Said(item, {"uri", "name", "mimeType", "description"})>>
    /\ DOMAIN members = {"type", "uri", "name", "mime_type", "description"}
    /\ members["uri"] = StringOrEmpty(item, "uri")
    /\ members["name"] = StringOrEmpty(item, "name")
    /\ members["mime_type"] = StringOrEmpty(item, "mimeType")
    /\ members["description"] = StringOrEmpty(item, "description")

(* An item that lacks nothing comes out in one of the five shapes.         *)
LEMMA Shapes ==
    ASSUME NEW item, Whole(item)
    PROVE  \E members :
             /\ map_content_item(item) = Object(members)
             /\ \/ TextShape(item, members) \/ RawShape(item, members)
                \/ ImageShape(item, members) \/ ResourceShape(item, members)
                \/ LinkShape(item, members)
<1> DEFINE type == StringOrEmpty(item, "type")
<1>types. /\ String("text") # String("image")
          /\ \A t \in {String("resource"), String("embedded_resource")} :
                t # String("text") /\ t # String("image")
          /\ String("resource_link") \notin
                {String("text"), String("image"), String("resource"), String("embedded_resource")}
  BY DEF String
<1>1. CASE type = String("text")
  <2>1. /\ map_content_item(item) = FromText(item)
        /\ TextAt(item, "text") # {} => Says(item) = <<"text", TextAt(item, "text")>>
        /\ TextAt(item, "text") = {} => Says(item) = <<"other", item>>
    BY <1>1, <1>types DEF map_content_item, Says
  <2>2. CASE TextAt(item, "text") = {}
    <3>1. FromText(item) = Raw(String("text"), item)
      BY <2>2 DEF FromText, OnlyOr
    <3>. QED
      BY <2>1, <3>1 DEF Raw, RawShape
  <2>3. ASSUME NEW text, TextAt(item, "text") = {text}
        PROVE  \E members : map_content_item(item) = Object(members) /\ TextShape(item, members)
    <3>1. text \notin DOMAIN JsonOf
      BY <2>3 DEF Whole, JsonText
    <3>2. Interpreted(text) = Object([text |-> String(text)])
      BY <3>1 DEF Interpreted
    <3>3. FromText(item) = Object([text |-> String(text)])
      BY <2>3, <3>2, OnlyOne DEF FromText
    <3>. QED
      BY <2>1, <2>3, <3>3 DEF TextShape
  <2>. QED
    BY <2>2, <2>3, TextsAt
<1>2. CASE type = String("image")
  <2>1. /\ map_content_item(item) = FromImage(item)
        /\ Says(item) = <<"image", Said(item, {"mimeType", "data"})>>
    BY <1>2, <1>types DEF map_content_item, Says
  <2>. QED
    BY <2>1 DEF FromImage, ImageShape
<1>3. CASE type \in {String("resource"), String("embedded_resource")}
  <2>1. /\ map_content_item(item) = FromResource(item)
        /\ Says(item) =
             <<"resource", {<<Said(resource, {"uri", "mimeType"}), TextAt(resource, "text")>> :
                              resource \in Member(item, "resource")}>>
    BY <1>3, <1>types DEF map_content_item, Says
  <2>2. Member(item, "resource") # {}
    BY <2>1 DEF Whole
  <2>3. PICK resource : Member(item, "resource") = {resource}
    BY <2>2, MembersAt
  <2> DEFINE head == [type |-> String("resource"),
                      uri |-> StringOrEmpty(resource, "uri"),
                      mime_type |-> StringOrEmpty(resource, "mimeType")]
             tail == [key \in {"text" : text \in TextAt(resource, "text")} |->
                         StringOrEmpty(resource, key)]
  <2>4. map_content_item(item) = Object(head ++ tail)
    BY <2>1, <2>3, OnlyOne DEF FromResource
  <2>5. Says(item) =
          <<"resource", {<<Said(resource, {"uri", "mimeType"}), TextAt(resource, "text")>>}>>
    BY <2>1, <2>3
  <2>6. ResourceShape(item, head ++ tail)
    BY <2>5 DEF ResourceShape, ++
  <2>. QED
    BY <2>4, <2>6
<1>4. CASE type = String("resource_link")
  <2>1. /\ map_content_item(item) = FromLink(item)
        /\ Says(item) = <<"link", Said(item, {"uri", "name", "mimeType", "description"})>>
    BY <1>4, <1>types DEF map_content_item, Says
  <2>. QED
    BY <2>1 DEF FromLink, LinkShape
<1>5. CASE type \notin {String("text"), String("image"), String("resource"),
                        String("embedded_resource"), String("resource_link")}
  <2>1. map_content_item(item) = Raw(type, item)
    BY <1>5 DEF map_content_item
  <2>. QED
    BY <2>1 DEF Raw, RawShape
<1>. QED
  BY <1>1, <1>2, <1>3, <1>4, <1>5

(* Items of one kind that became the same have said the same,              *)
LEMMA SameKindTold ==
    ASSUME NEW x, NEW y, NEW members
    PROVE  /\ TextShape(x, members) /\ TextShape(y, members) => Says(x) = Says(y)
           /\ RawShape(x, members) /\ RawShape(y, members) => Says(x) = Says(y)
           /\ ImageShape(x, members) /\ ImageShape(y, members) => Says(x) = Says(y)
           /\ ResourceShape(x, members) /\ ResourceShape(y, members) => Says(x) = Says(y)
           /\ LinkShape(x, members) /\ LinkShape(y, members) => Says(x) = Says(y)
<1>1. ASSUME TextShape(x, members), TextShape(y, members) PROVE Says(x) = Says(y)
  BY <1>1, StringsDiffer DEF TextShape
<1>2. ASSUME RawShape(x, members), RawShape(y, members) PROVE Says(x) = Says(y)
  BY <1>2 DEF RawShape
<1>3. ASSUME ImageShape(x, members), ImageShape(y, members) PROVE Says(x) = Says(y)
  <2>1. Said(x, {"mimeType", "data"}) = Said(y, {"mimeType", "data"})
    BY <1>3 DEF ImageShape, Said
  <2>. QED
    BY <1>3, <2>1 DEF ImageShape
<1>4. ASSUME ResourceShape(x, members), ResourceShape(y, members) PROVE Says(x) = Says(y)
  <2> DEFINE Shows(item, resource) ==
        /\ Says(item) =
             <<"resource", {<<Said(resource, {"uri", "mimeType"}), TextAt(resource, "text")>>}>>
        /\ members["uri"] = StringOrEmpty(resource, "uri")
        /\ members["mime_type"] = StringOrEmpty(resource, "mimeType")
        /\ "text" \in DOMAIN members <=> TextAt(resource, "text") # {}
        /\ "text" \in DOMAIN members => members["text"] = StringOrEmpty(resource, "text")
  <2>1. PICK r : Shows(x, r)
    BY <1>4 DEF ResourceShape
  <2>2. PICK s : Shows(y, s)
    BY <1>4 DEF ResourceShape
  <2>3. Said(r, {"uri", "mimeType"}) = Said(s, {"uri", "mimeType"})
    BY <2>1, <2>2 DEF Said
  <2>4. TextAt(r, "text") = TextAt(s, "text")
    <3>1. CASE TextAt(r, "text") = {} \/ TextAt(s, "text") = {}
      BY <2>1, <2>2, <3>1
    <3>2. ASSUME NEW a, NEW b, TextAt(r, "text") = {a}, TextAt(s, "text") = {b}
          PROVE  a = b
      <4>1. StringOrEmpty(r, "text") = String(a) /\ StringOrEmpty(s, "text") = String(b)
        BY <3>2, OnlyOne, Zenon DEF StringOrEmpty
      <4>2. StringOrEmpty(r, "text") = StringOrEmpty(s, "text")
        BY <2>1, <2>2, <3>2
      <4>. QED
        BY <4>1, <4>2, StringsDiffer
    <3>. QED
      BY <3>1, <3>2, TextsAt
  <2>. QED
    BY <2>1, <2>2, <2>3, <2>4
<1>5. ASSUME LinkShape(x, members), LinkShape(y, members) PROVE Says(x) = Says(y)
  <2>1. Said(x, {"uri", "name", "mimeType", "description"})
          = Said(y, {"uri", "name", "mimeType", "description"})
    BY <1>5 DEF LinkShape, Said
  <2>. QED
    BY <1>5, <2>1 DEF LinkShape
<1>. QED
  BY <1>1, <1>2, <1>3, <1>4, <1>5

(* and items of two kinds do not become the same.                          *)
LEMMA KindsDiffer ==
    ASSUME NEW x, NEW members
    PROVE  /\ TextShape(x, members) => "type" \notin DOMAIN members
           /\ RawShape(x, members) => {"type", "raw"} \subseteq DOMAIN members
           /\ ImageShape(x, members) =>
                {"type", "data"} \subseteq DOMAIN members /\ "raw" \notin DOMAIN members
           /\ ResourceShape(x, members) =>
                /\ {"type", "uri"} \subseteq DOMAIN members
                /\ {"raw", "data", "name"} \cap DOMAIN members = {}
           /\ LinkShape(x, members) =>
                /\ {"type", "uri", "name"} \subseteq DOMAIN members
                /\ {"raw", "data"} \cap DOMAIN members = {}
<1>1. RawShape(x, members) => {"type", "raw"} \subseteq DOMAIN members
  BY DEF RawShape
<1>2. TextShape(x, members) => "type" \notin DOMAIN members
  BY DEF TextShape
<1>3. ImageShape(x, members) =>
        {"type", "data"} \subseteq DOMAIN members /\ "raw" \notin DOMAIN members
  BY DEF ImageShape
<1>4. ResourceShape(x, members) =>
        /\ {"type", "uri"} \subseteq DOMAIN members
        /\ {"raw", "data", "name"} \cap DOMAIN members = {}
  BY DEF ResourceShape
<1>5. LinkShape(x, members) =>
        /\ {"type", "uri", "name"} \subseteq DOMAIN members
        /\ {"raw", "data"} \cap DOMAIN members = {}
  BY DEF LinkShape
<1>. QED
  BY <1>1, <1>2, <1>3, <1>4, <1>5

(* So what an item has said can be told from what it became, whatever      *)
(* items a server sends (main.rs:869-925).                                 *)
LEMMA MappedApart ==
    ASSUME NEW x, NEW y, Whole(x), Whole(y), map_content_item(x) = map_content_item(y)
    PROVE  Says(x) = Says(y)
<1>1. PICK mx :
        /\ map_content_item(x) = Object(mx)
        /\ \/ TextShape(x, mx) \/ RawShape(x, mx) \/ ImageShape(x, mx)
           \/ ResourceShape(x, mx) \/ LinkShape(x, mx)
  BY Shapes
<1>2. PICK my :
        /\ map_content_item(y) = Object(my)
        /\ \/ TextShape(y, my) \/ RawShape(y, my) \/ ImageShape(y, my)
           \/ ResourceShape(y, my) \/ LinkShape(y, my)
  BY Shapes
<1>3. mx = my
  <2>1. Object(mx)[2] = Object(my)[2]
    BY <1>1, <1>2
  <2>. QED
    BY <2>1 DEF Object
<1>. QED
  BY <1>1, <1>2, <1>3, SameKindTold, KindsDiffer

(* What an item becomes, from what it says.                                *)
Made(said) ==
    CASE said[1] = "text" -> Object([text |-> String(OnlyOr(said[2], Null))])
      [] said[1] = "image" ->
            Object([type |-> String("image"),
                    mime_type |-> said[2]["mimeType"], data |-> said[2]["data"]])
      [] said[1] = "resource" ->
            LET resource == OnlyOr(said[2], Null)
            IN  Object([type |-> String("resource"),
                        uri |-> resource[1]["uri"], mime_type |-> resource[1]["mimeType"]]
                       ++ [key \in {"text" : text \in resource[2]} |->
                               String(OnlyOr(resource[2], Null))])
      [] said[1] = "link" ->
            Object([type |-> String("resource_link"),
                    uri |-> said[2]["uri"], name |-> said[2]["name"],
                    mime_type |-> said[2]["mimeType"], description |-> said[2]["description"]])
      [] OTHER -> Raw(StringOrEmpty(said[2], "type"), said[2])

(* So nothing but what is said makes a difference.                         *)
LEMMA MadeOfSaid ==
    ASSUME NEW item, Whole(item)
    PROVE  map_content_item(item) = Made(Says(item))
<1> DEFINE type == StringOrEmpty(item, "type")
<1>types. /\ String("text") # String("image")
          /\ \A t \in {String("resource"), String("embedded_resource")} :
                t # String("text") /\ t # String("image")
          /\ String("resource_link") \notin
                {String("text"), String("image"), String("resource"), String("embedded_resource")}
  BY DEF String
<1>made. ASSUME NEW said
         PROVE  /\ Made(<<"text", said>>) = Object([text |-> String(OnlyOr(said, Null))])
                /\ Made(<<"image", said>>) =
                     Object([type |-> String("image"),
                             mime_type |-> said["mimeType"], data |-> said["data"]])
                /\ Made(<<"link", said>>) =
                     Object([type |-> String("resource_link"),
                             uri |-> said["uri"], name |-> said["name"],
                             mime_type |-> said["mimeType"], description |-> said["description"]])
                /\ Made(<<"other", said>>) = Raw(StringOrEmpty(said, "type"), said)
  BY DEF Made
<1>said. \A value, keys : \A key \in keys : Said(value, keys)[key] = StringOrEmpty(value, key)
  BY DEF Said
<1>1. CASE type = String("text")
  <2>1. /\ map_content_item(item) = FromText(item)
        /\ TextAt(item, "text") # {} => Says(item) = <<"text", TextAt(item, "text")>>
        /\ TextAt(item, "text") = {} => Says(item) = <<"other", item>>
    BY <1>1, <1>types DEF map_content_item, Says
  <2>2. CASE TextAt(item, "text") = {}
    <3>1. FromText(item) = Raw(String("text"), item)
      BY <2>2 DEF FromText, OnlyOr
    <3>2. Made(Says(item)) = Raw(type, item)
      BY <1>made, <2>1, <2>2
    <3>. QED
      BY <1>1, <2>1, <3>1, <3>2
  <2>3. ASSUME NEW text, TextAt(item, "text") = {text}
        PROVE  map_content_item(item) = Made(Says(item))
    <3>1. Interpreted(text) = Object([text |-> String(text)])
      BY <2>3 DEF Whole, JsonText, Interpreted
    <3>2. FromText(item) = Object([text |-> String(text)])
      BY <2>3, <3>1, OnlyOne DEF FromText
    <3>3. Says(item) = <<"text", {text}>>
      BY <2>1, <2>3
    <3>4. Made(Says(item)) = Object([text |-> String(OnlyOr({text}, Null))])
      BY <1>made, <3>3
    <3>. QED
      BY <2>1, <3>2, <3>4, OnlyOne
  <2>. QED
    BY <2>2, <2>3, TextsAt
<1>2. CASE type = String("image")
  <2>1. /\ map_content_item(item) = FromImage(item)
        /\ Says(item) = <<"image", Said(item, {"mimeType", "data"})>>
    BY <1>2, <1>types DEF map_content_item, Says
  <2>. QED
    BY <1>made, <1>said, <2>1 DEF FromImage
<1>3. CASE type \in {String("resource"), String("embedded_resource")}
  <2>1. /\ map_content_item(item) = FromResource(item)
        /\ Says(item) =
             <<"resource", {<<Said(resource, {"uri", "mimeType"}), TextAt(resource, "text")>> :
                              resource \in Member(item, "resource")}>>
    BY <1>3, <1>types DEF map_content_item, Says
  <2>2. PICK resource : Member(item, "resource") = {resource}
    BY <2>1, MembersAt DEF Whole
  <2> DEFINE said == <<Said(resource, {"uri", "mimeType"}), TextAt(resource, "text")>>
  <2>3. OnlyOr(Member(item, "resource"), Null) = resource /\ Says(item) = <<"resource", {said}>>
    BY <2>1, <2>2, OnlyOne
  <2>4. OnlyOr({said}, Null) = said
    BY OnlyOne
  <2>5. /\ said[1]["uri"] = StringOrEmpty(resource, "uri")
        /\ said[1]["mimeType"] = StringOrEmpty(resource, "mimeType")
        /\ said[2] = TextAt(resource, "text")
    BY <1>said
  <2> HIDE DEF said
  <2>6. Made(Says(item)) =
          Object([type |-> String("resource"),
                  uri |-> said[1]["uri"], mime_type |-> said[1]["mimeType"]]
                 ++ [key \in {"text" : text \in said[2]} |-> String(OnlyOr(said[2], Null))])
    <3>1. Made(<<"resource", {said}>>) =
            Object([type |-> String("resource"), uri |-> OnlyOr({said}, Null)[1]["uri"],
                    mime_type |-> OnlyOr({said}, Null)[1]["mimeType"]]
                   ++ [key \in {"text" : text \in OnlyOr({said}, Null)[2]} |->
                          String(OnlyOr(OnlyOr({said}, Null)[2], Null))])
      BY DEF Made
    <3>. QED
      BY <2>3, <2>4, <3>1
  <2>7. map_content_item(item) =
          Object([type |-> String("resource"), uri |-> StringOrEmpty(resource, "uri"),
                  mime_type |-> StringOrEmpty(resource, "mimeType")]
                 ++ [key \in {"text" : text \in TextAt(resource, "text")} |->
                         StringOrEmpty(resource, key)])
    BY <2>1, <2>3 DEF FromResource
  <2>8. [key \in {"text" : text \in TextAt(resource, "text")} |-> StringOrEmpty(resource, key)]
          = [key \in {"text" : text \in TextAt(resource, "text")} |->
                String(OnlyOr(TextAt(resource, "text"), Null))]
    <3>1. ASSUME NEW text, TextAt(resource, "text") = {text}
          PROVE  StringOrEmpty(resource, "text") = String(OnlyOr(TextAt(resource, "text"), Null))
      BY <3>1, OnlyOne, Zenon DEF StringOrEmpty
    <3>. QED
      BY <3>1, TextsAt
  <2>. QED
    BY <2>5, <2>6, <2>7, <2>8
<1>4. CASE type = String("resource_link")
  <2>1. /\ map_content_item(item) = FromLink(item)
        /\ Says(item) = <<"link", Said(item, {"uri", "name", "mimeType", "description"})>>
    BY <1>4, <1>types DEF map_content_item, Says
  <2>. QED
    BY <1>made, <1>said, <2>1 DEF FromLink
<1>5. CASE type \notin {String("text"), String("image"), String("resource"),
                        String("embedded_resource"), String("resource_link")}
  <2>1. map_content_item(item) = Raw(type, item) /\ Says(item) = <<"other", item>>
    BY <1>5 DEF map_content_item, Says
  <2>. QED
    BY <1>made, <2>1
<1>. QED
  BY <1>1, <1>2, <1>3, <1>4, <1>5

(* In an answer of any items two of them come out alike if and only if     *)
(* they say the same, by the members that extract_result lists: the code   *)
(* keeps these and no others (main.rs:839-845, 869-925).                   *)
THEOREM ItemsToldApart == Spec => []ToldApart
<1>1. ToldApart
  BY MappedApart, MadeOfSaid, Zenon DEF ToldApart
<1>. QED
  BY <1>1, PTL

=============================================================================
