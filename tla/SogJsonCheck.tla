----------------------------- MODULE SogJsonCheck -----------------------------
(***************************************************************************)
(* What the parser should accept, and with which result: the documents are *)
(* what printing a tree of values yields, so the grammar is stated without *)
(* a parser.                                                               *)
(***************************************************************************)
EXTENDS SogJson, FiniteSets, FiniteSetsExt, Functions

CONSTANTS
  Strings,            \* string lexemes with the bytes they stand for
  Numbers             \* number lexemes with the numbers they stand for

(* ---- Trees ------------------------------------------------------------- *)

TextOf == {pair[2] : pair \in Strings}
Leaves ==
  {JsonValue}
  \cup {[JsonValue EXCEPT !.type = "boolean", !.boolean = b] : b \in BOOLEAN}
  \cup {[JsonValue EXCEPT !.type = "string", !.text = t] : t \in TextOf}
  \cup {[JsonValue EXCEPT !.type = "number", !.number = pair[2]] : pair \in Numbers}

(* What a document is made of, white space and spelling apart.             *)
Mark(kind) == <<kind, <<>>>>

RECURSIVE Spelled(_)
Spelled(value) ==
  LET join[n \in 0 .. Len(value.items)] ==
        CASE n = 0 -> <<>>
          [] n = 1 -> Spelled(value.items[1])
          [] OTHER -> join[n - 1] \o <<Mark(",")>> \o Spelled(value.items[n])
      member(n) == <<<<"string", value.members[n].name>>, Mark(":")>>
                   \o Spelled(value.members[n].value)
      joinMembers[n \in 0 .. Len(value.members)] ==
        CASE n = 0 -> <<>>
          [] n = 1 -> member(1)
          [] OTHER -> joinMembers[n - 1] \o <<Mark(",")>> \o member(n)
  IN  CASE value.type = "array" ->
             <<Mark("[")>> \o join[Len(value.items)] \o <<Mark("]")>>
        [] value.type = "object" ->
             <<Mark("{")>> \o joinMembers[Len(value.members)] \o <<Mark("}")>>
        [] value.type = "string"  -> <<<<"string", value.text>>>>
        [] value.type = "number"  -> <<<<"number", <<value.number>>>>>>
        [] value.type = "boolean" ->
             IF value.boolean THEN <<Mark("true")>> ELSE <<Mark("false")>>
        [] OTHER -> <<Mark("null")>>

Children(value) ==
  value.items \o [n \in DOMAIN value.members |-> value.members[n].value]

RECURSIVE Size(_), Height(_), Distinct(_)
Size(value) ==
  LET children == Children(value)
  IN  1 + FoldFunction(+, 0, [n \in DOMAIN children |-> Size(children[n])])
Height(value) ==
  LET children == Children(value)
  IN  IF children = <<>> THEN 0
      ELSE 1 + Max({Height(children[n]) : n \in DOMAIN children})
Distinct(value) ==
  /\ IsInjective([n \in DOMAIN value.members |-> value.members[n].name])
  /\ \A n \in DOMAIN Children(value) : Distinct(Children(value)[n])

WithinLimits(value) ==
  /\ Size(value) <= kJsonMaxTokens
  /\ Height(value) <= kJsonMaxDepth
  /\ Distinct(value)

(* ---- Documents of up to MaxLength marks -------------------------------- *)

(* trees[n] prints as n marks, items[n] and members[n] are what a          *)
(* container with n marks between its brackets holds.                      *)
Grammar ==
  LET Split(n, first, rest) ==
        UNION {{<<x>> \o more : x \in first[m], more \in rest[n - m - 1]} :
                 m \in 1 .. n - 2}
      Named(values) == {[name |-> t, value |-> v] : t \in TextOf, v \in values}
      level[n \in 0 .. MaxLength] ==
        IF n = 0 THEN [trees |-> <<>>, items |-> <<>>, members |-> <<>>]
        ELSE LET below   == level[n - 1]
                 trees   == below.trees \o <<
                   (IF n = 1 THEN Leaves ELSE {})
                   \cup (IF n = 2 THEN {[JsonValue EXCEPT !.type = t] :
                                          t \in {"array", "object"}} ELSE {})
                   \cup (IF n < 3 THEN {} ELSE
                         {[JsonValue EXCEPT !.type = "array", !.items = i] :
                            i \in below.items[n - 2]}
                         \cup {[JsonValue EXCEPT !.type = "object", !.members = m] :
                                 m \in below.members[n - 2]})>>
                 member  == [m \in 1 .. n |-> IF m < 3 THEN {}
                                              ELSE Named(trees[m - 2])]
             IN  [trees   |-> trees,
                  items   |-> below.items \o <<{<<t>> : t \in trees[n]}
                                \cup Split(n, trees, below.items)>>,
                  members |-> below.members \o <<{<<m>> : m \in member[n]}
                                \cup Split(n, member, below.members)>>]
  IN  level[MaxLength].trees

Documents ==
  {Spelled(value) : value \in {v \in UNION Range(Grammar) : WithinLimits(v)}}
Prefixes == UNION {{SubSeq(d, 1, n) : n \in 0 .. Len(d)} : d \in Documents}
-----------------------------------------------------------------------------
(* What has been disclosed, without white space and spelling.              *)
MarkOf(lexeme) ==
  CASE \E pair \in Strings : pair[1] = lexeme ->
         <<"string", (CHOOSE pair \in Strings : pair[1] = lexeme)[2]>>
    [] \E pair \in Numbers : pair[1] = lexeme ->
         <<"number", <<(CHOOSE pair \in Numbers : pair[1] = lexeme)[2]>>>>
    [] lexeme.kind = "word" -> Mark(lexeme.spelling)
    [] OTHER -> Mark(lexeme.kind)
Marks ==
  LET Significant(lexeme) == lexeme.kind # "ws"
      kept == SelectSeq(data, Significant)
  IN  [n \in DOMAIN kept |-> MarkOf(kept[n])]

(* The parser accepts exactly the documents, trailing white space and all  *)
(* spellings of a name included, within its limits and with distinct       *)
(* member names; the value it builds is the one whose print was read; and  *)
(* it gives up only where no document goes on like this                    *)
(* (SogJson.cpp:23-37,98-390).                                             *)
AcceptsExactlyDocuments ==
  /\ result = "true" =>
       closed /\ Spelled(document) = Marks /\ WithinLimits(document)
  /\ result = "false" =>
       Marks \notin (IF closed THEN Documents ELSE Prefixes)

(* Values allocated, those of the containers under way included: the slot  *)
(* of a value exists before it is counted.                                 *)
Allocated ==
  IF open = <<>> THEN Size(document)
  ELSE 1 + FoldFunction(+, 0, [n \in DOMAIN open |-> Size(open[n]) - 1])

(* No document, however small, grows a larger tree than the token limit    *)
(* allows and the one slot that fails it (SogJson.h:72-75, SogJson.cpp:    *)
(* 98-104,163,192).                                                        *)
BoundedTree == Allocated <= kJsonMaxTokens + 1
=============================================================================
