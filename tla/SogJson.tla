------------------------------- MODULE SogJson -------------------------------
(***************************************************************************)
(* The JSON parser of the gaussian-sog plugin, which reads meta.json       *)
(* before anything is known of the file: recursive descent with a depth    *)
(* and a token limit.  The C++ call stack is written out: calls holds the  *)
(* depth parameter of every ParseObject and ParseArray under way, open the *)
(* value each of them fills.                                               *)
(*                                                                         *)
(* Data abstraction: the document is a sequence of lexemes (punctuation,   *)
(* one piece of white space, a string, a number, a word), each of them     *)
(* well formed or broken in one of the ways the parser tells apart.  It is *)
(* disclosed as it is read: nothing depends on what follows.               *)
(***************************************************************************)
EXTENDS SogJsonValue

CONSTANTS
  kJsonMaxDepth,      \* nesting bound
  kJsonMaxTokens,     \* bound on the values of a document
  Lexemes,            \* what a document may be made of
  MaxLength           \* lexemes of a document

ASSUME LimitsAssumption ==
  kJsonMaxDepth \in Nat /\ kJsonMaxTokens \in Nat /\ MaxLength \in Nat

VARIABLES
  data, closed,       \* the document as far as disclosed; it ends here
  position,           \* lexemes consumed
  pc, result,         \* where the innermost method is; what ParseJson returns
  depth,              \* parameter of the innermost ParseValue
  tokens,             \* values counted
  calls, open,        \* the methods under way and what they fill
  key,                \* the member name read last
  document            \* *out

input == <<data, closed>>
vars == <<data, closed, position, pc, result, depth, tokens, calls, open, key,
          document>>

(* ---- Strings ----------------------------------------------------------- *)

Malformed == <<-1>>

(* What follows a backslash, and the character it stands for, in ASCII.    *)
EscapeCharacters == {34, 47, 92, 98, 102, 110, 114, 116}
Unescape(c) ==
  CASE c = 98 -> 8 [] c = 102 -> 12 [] c = 110 -> 10 [] c = 114 -> 13
    [] c = 116 -> 9 [] OTHER -> c

Continuation(bits) == 128 + (bits % 64)
AppendUtf8(code) ==
  CASE code < 128   -> <<code>>
    [] code < 2048  -> <<192 + (code \div 64), Continuation(code)>>
    [] code < 65536 -> <<224 + (code \div 4096), Continuation(code \div 64),
                         Continuation(code)>>
    [] OTHER -> <<240 + (code \div 262144), Continuation(code \div 4096),
                  Continuation(code \div 64), Continuation(code)>>

IsHigh(code) == code \in 55296 .. 56319
IsLow(code)  == code \in 56320 .. 57343

Surrogates(high, low) == 65536 + (high - 55296) * 1024 + (low - 56320)

(* Between the quotes: plain bytes, escapes, and \u with four hexadecimal  *)
(* digits, two of them for a character beyond 16 bits.                     *)
DecodeString(units) ==
  LET Is(n, kind) == n \in DOMAIN units /\ units[n].kind = kind
      Join(bytes, rest) == IF rest = Malformed THEN rest ELSE bytes \o rest
      from[n \in 1 .. Len(units) + 1] ==
        CASE n = Len(units) + 1 -> <<>>
          [] Is(n, "byte") /\ units[n].value >= 32 ->
               Join(<<units[n].value>>, from[n + 1])
          [] Is(n, "escape") /\ units[n].value \in EscapeCharacters ->
               Join(<<Unescape(units[n].value)>>, from[n + 1])
          [] Is(n, "unicode") /\ IsHigh(units[n].value) ->
               IF Is(n + 1, "unicode") /\ IsLow(units[n + 1].value)
               THEN Join(AppendUtf8(Surrogates(units[n].value,
                                               units[n + 1].value)),
                         from[n + 2])
               ELSE Malformed
          [] Is(n, "unicode") /\ ~IsHigh(units[n].value)
                /\ ~IsLow(units[n].value) ->
               Join(AppendUtf8(units[n].value), from[n + 1])
          [] OTHER -> Malformed
  IN  from[1]

(* ---- Lexemes ----------------------------------------------------------- *)

AtEnd == closed /\ position = Len(data)
Peek  == data[position + 1]
Is(kind) == position < Len(data) /\ Peek.kind = kind

Text == IF Is("string") /\ Peek.terminated THEN DecodeString(Peek.units)
        ELSE Malformed

(* integer: the digits before the point; fraction and exponent: how many   *)
(* digits follow the point and the e, -1 where there is none.              *)
IsNumber ==
  /\ Is("number") /\ Len(Peek.integer) > 0
  /\ Len(Peek.integer) > 1 => Peek.integer[1] # 0
  /\ Peek.fraction # 0 /\ Peek.exponent # 0
  /\ Peek.finite

IsLiteral == Is("word") /\ Peek.spelling \in {"true", "false", "null"}

(* The methods that call SkipWhitespace before they look.                  *)
Skipping == {"start", "firstKey", "firstItem", "key", "item", "colon",
             "member", "next", "end"}
(* The next character that matters is known.                               *)
Ready == /\ position < Len(data) \/ closed
         /\ pc \in Skipping => ~Is("ws")

(* ---- Steps ------------------------------------------------------------- *)

Init ==
  /\ data = <<>> /\ closed = FALSE /\ position = 0
  /\ pc = "start" /\ result = "none" /\ depth = 0 /\ tokens = 0
  /\ calls = <<>> /\ open = <<>> /\ key = <<>> /\ document = JsonValue

(* One more lexeme of the document, or its end.  Two numbers in a row      *)
(* would be one.                                                           *)
Disclose ==
  /\ position = Len(data) /\ ~closed /\ pc \notin {"enter", "return"}
  /\ \/ closed' = TRUE /\ UNCHANGED data
     \/ /\ Len(data) < MaxLength
        /\ \E lexeme \in Lexemes :
             /\ Len(data) > 0 /\ lexeme.kind \in {"number", "word"}
                  => data[Len(data)].kind \notin {"number", "word"}
             /\ data' = Append(data, lexeme)
        /\ UNCHANGED closed
  /\ UNCHANGED <<position, pc, result, depth, tokens, calls, open, key,
                 document>>

Continue(next) == pc' = next /\ UNCHANGED result
Fail == pc' = "return" /\ result' = "false"
Consume == position' = position + 1

SkipWhitespace ==
  /\ pc \in Skipping /\ Is("ws")
  /\ Consume
  /\ UNCHANGED <<input, pc, result, depth, tokens, calls, open, key, document>>

StartDocument ==
  /\ pc = "start" /\ Ready
  /\ depth' = 0
  /\ Continue("enter")
  /\ UNCHANGED <<input, position, tokens, calls, open, key, document>>

\* Slip: the limit is compared with the depth reached, not with the tokens.
EnterValue_TokensNotLimited ==
  /\ pc = "enter"
  /\ tokens' = tokens + 1
  /\ IF depth > kJsonMaxDepth THEN Fail ELSE Continue("value")
  /\ UNCHANGED <<input, position, depth, calls, open, key, document>>
EnterValue ==
  /\ pc = "enter"
  /\ IF tokens >= kJsonMaxTokens THEN Fail /\ UNCHANGED tokens
     ELSE /\ tokens' = tokens + 1
          /\ IF depth > kJsonMaxDepth THEN Fail ELSE Continue("value")
  /\ UNCHANGED <<input, position, depth, calls, open, key, document>>

(* A finished value is what its slot in the caller's container becomes.    *)
Fill(container, value) ==
  IF container.type = "array"
  THEN [container EXCEPT !.items[Len(container.items)] = value]
  ELSE [container EXCEPT !.members[Len(container.members)].value = value]

Deliver(value, callers, containers) ==
  /\ calls' = callers
  /\ IF callers = <<>>
     THEN /\ document' = value /\ open' = containers
          /\ Continue("end")
     ELSE /\ open' = [containers EXCEPT ![Len(callers)] = Fill(@, value)]
          /\ Continue("next") /\ UNCHANGED document

Scalar ==
  CASE Peek.kind = "string" -> [JsonValue EXCEPT !.type = "string", !.text = Text]
    [] Peek.kind = "number" ->
         [JsonValue EXCEPT !.type = "number", !.number = Peek.value]
    [] Peek.spelling = "null" -> JsonValue
    [] OTHER -> [JsonValue EXCEPT !.type = "boolean",
                                  !.boolean = (Peek.spelling = "true")]

ParseScalar ==
  /\ pc = "value" /\ Ready
  /\ IsNumber \/ IsLiteral \/ Text # Malformed
  /\ Consume
  /\ Deliver(Scalar, calls, open)
  /\ UNCHANGED <<input, depth, tokens, key>>

(* Anything else that does not open a container, the end included.         *)
RejectValue ==
  /\ pc = "value" /\ Ready
  /\ ~IsNumber /\ ~IsLiteral /\ Text = Malformed /\ ~Is("{") /\ ~Is("[")
  /\ Fail
  /\ UNCHANGED <<input, position, depth, tokens, calls, open, key, document>>

OpenContainer(bracket, type, next) ==
  /\ Is(bracket)
  /\ Consume
  /\ calls' = Append(calls, depth)
  /\ open' = Append(open, [JsonValue EXCEPT !.type = type])
  /\ Continue(next)
Open ==
  /\ pc = "value" /\ Ready
  /\ \/ OpenContainer("{", "object", "firstKey")
     \/ OpenContainer("[", "array", "firstItem")
  /\ UNCHANGED <<input, depth, tokens, key, document>>

Innermost == Len(calls)
Bracket == IF open[Innermost].type = "object" THEN "}" ELSE "]"

(* A container returns to the one its value belongs to.                    *)
Close ==
  /\ pc \in {"firstKey", "firstItem", "next"} /\ Ready
  /\ Is(Bracket)
  /\ Consume
  /\ Deliver(open[Innermost], SubSeq(calls, 1, Innermost - 1),
             SubSeq(open, 1, Innermost - 1))
  /\ UNCHANGED <<input, depth, tokens, key>>

(* Not empty: the first round of the loop.                                 *)
StartLoop ==
  /\ pc \in {"firstKey", "firstItem"} /\ Ready
  /\ ~Is(Bracket)
  /\ Continue(IF pc = "firstKey" THEN "key" ELSE "item")
  /\ UNCHANGED <<input, position, depth, tokens, calls, open, key, document>>

\* Slip: names are compared as they are spelled, escapes included.
ParseKey_Spelling ==
  /\ pc = "key" /\ Ready
  /\ IF Text = Malformed THEN Fail /\ UNCHANGED <<position, key>>
     ELSE /\ Consume /\ key' = Text
          /\ IF \E n \in 1 .. position :
                  /\ data[n] = Peek
                  /\ \E m \in DOMAIN open[Innermost].members :
                       open[Innermost].members[m].name = Text
             THEN Fail ELSE Continue("colon")
  /\ UNCHANGED <<input, depth, tokens, calls, open, document>>
ParseKey ==
  /\ pc = "key" /\ Ready
  /\ IF Text = Malformed THEN Fail /\ UNCHANGED <<position, key>>
     ELSE /\ Consume /\ key' = Text
          /\ IF Find(open[Innermost], Text) # Nothing THEN Fail
             ELSE Continue("colon")
  /\ UNCHANGED <<input, depth, tokens, calls, open, document>>

ParseColon ==
  /\ pc = "colon" /\ Ready
  /\ IF Is(":") THEN Consume /\ Continue("member")
     ELSE Fail /\ UNCHANGED position
  /\ UNCHANGED <<input, depth, tokens, calls, open, key, document>>

Slot == [name |-> key, value |-> JsonValue]

\* Slip: the limit counts the objects around a value, not the arrays.
Emplace_SameDepth ==
  /\ pc \in {"member", "item"} /\ Ready
  /\ open' = IF pc = "item"
             THEN [open EXCEPT ![Innermost].items = Append(@, JsonValue)]
             ELSE [open EXCEPT ![Innermost].members = Append(@, Slot)]
  /\ depth' = IF pc = "item" THEN calls[Innermost] ELSE calls[Innermost] + 1
  /\ Continue("enter")
  /\ UNCHANGED <<input, position, tokens, calls, key, document>>
(* The slot exists before its value is parsed.                             *)
Emplace ==
  /\ pc \in {"member", "item"} /\ Ready
  /\ open' = IF pc = "item"
             THEN [open EXCEPT ![Innermost].items = Append(@, JsonValue)]
             ELSE [open EXCEPT ![Innermost].members = Append(@, Slot)]
  /\ depth' = calls[Innermost] + 1
  /\ Continue("enter")
  /\ UNCHANGED <<input, position, tokens, calls, key, document>>

ParseSeparator ==
  /\ pc = "next" /\ Ready /\ ~Is(Bracket)
  /\ IF Is(",")
     THEN /\ Consume
          /\ Continue(IF open[Innermost].type = "object" THEN "key" ELSE "item")
     ELSE Fail /\ UNCHANGED position
  /\ UNCHANGED <<input, depth, tokens, calls, open, key, document>>

EndDocument ==
  /\ pc = "end" /\ Ready
  /\ IF AtEnd THEN pc' = "return" /\ result' = "true" ELSE Fail
  /\ UNCHANGED <<input, position, depth, tokens, calls, open, key, document>>

Next ==
  \/ Disclose \/ SkipWhitespace \/ StartDocument \/ EnterValue \/ ParseScalar
  \/ RejectValue \/ Open \/ Close \/ StartLoop \/ ParseKey \/ ParseColon
  \/ Emplace \/ ParseSeparator \/ EndDocument

Spec == Init /\ [][Next]_vars
-----------------------------------------------------------------------------
(* However a document nests objects and arrays, the parser recurses no     *)
(* deeper than its limit allows, on paths that fail too, so no file can    *)
(* exhaust the stack of the process that routes it (SogJson.h:68-71,       *)
(* SogJson.cpp:98-107,136-206).                                            *)
BoundedRecursion == Len(calls) <= kJsonMaxDepth + 1
=============================================================================
