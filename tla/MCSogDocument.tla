---------------------------- MODULE MCSogDocument ----------------------------
(* What the reader of an unbundled container takes on trust, in one run:   *)
(* the parser of meta.json and the search for a plane.  They share no      *)
(* state; a behaviour is one of either.                                    *)
(*                                                                         *)
(* Every document of up to nine lexemes: all punctuation, white space, the *)
(* name "a" spelled plainly and as an escape, a character beyond 16 bits,  *)
(* words and numbers, and the broken forms of each.                        *)
(*                                                                         *)
(* meta.json in a directory, at the root and in a directory of a package,  *)
(* and in a package in a package; a plane at each of these places, in the  *)
(* current directory and in one that is searched.                          *)
EXTENDS SogJsonCheck, SogCompanion

Byte(c)    == [kind |-> "byte", value |-> c]
Escape(c)  == [kind |-> "escape", value |-> c]
Unicode(c) == [kind |-> "unicode", value |-> c]
String(units) == [kind |-> "string", terminated |-> TRUE, units |-> units]
Number(integer, fraction, exponent, value) ==
  [kind |-> "number", integer |-> integer, fraction |-> fraction,
   exponent |-> exponent, value |-> value, finite |-> TRUE]
Word(spelling) == [kind |-> "word", spelling |-> spelling]

MCStrings ==
  {<<String(<<Byte(97)>>), <<97>>>>, <<String(<<Unicode(97)>>), <<97>>>>,
   \* U+1F600, U+20AC and a line feed
   <<String(<<Unicode(55357), Unicode(56832), Unicode(8364), Escape(110)>>),
     <<240, 159, 152, 128, 226, 130, 172, 10>>>>}
MCNumbers == {<<Number(<<1, 0>>, 1, 2, 10), 10>>}

Broken ==
  {String(<<Unicode(55357)>>), String(<<Unicode(55357), Byte(97)>>),
   String(<<Unicode(55357), Unicode(97)>>), String(<<Unicode(56832)>>),
   String(<<Escape(97)>>), String(<<Byte(10)>>),
   [kind |-> "string", terminated |-> FALSE, units |-> <<>>],
   Number(<<0, 1>>, -1, -1, 1), Number(<<1>>, 0, -1, 1),
   Number(<<1>>, -1, 0, 1), Number(<<>>, 5, -1, 1),
   [Number(<<1>>, -1, 3, 1) EXCEPT !.finite = FALSE],
   Word("nul")}

MCLexemes ==
  {[kind |-> k] : k \in {"{", "}", "[", "]", ":", ",", "ws"}}
  \cup {pair[1] : pair \in MCStrings \cup MCNumbers}
  \cup {Word("true")} \cup Broken

Beside(path)     == File(<<"scene", path>>)
Within(entries)  == [outer |-> <<"scene", "package">>, inner |-> entries]

MCAnchors == {Beside("meta"), Within(<<<<"meta">>>>), Within(<<<<"cloud", "meta">>>>),
              Within(<<<<"cloud", "package">>, <<"meta">>>>)}
MCLocations == {Beside("scales"), Within(<<<<"scales">>>>),
                Within(<<<<"cloud", "scales">>>>),
                Within(<<<<"cloud", "package">>, <<"scales">>>>),
                File(<<"working", "scales">>), File(<<"library", "scales">>)}
MCSearchPath == <<<<"working">>, <<"library">>>>

(* Where the parser runs: nothing has been asked of the loader yet.        *)
LoaderAtRest ==
  /\ anchor = Beside("meta") /\ assets = [path \in Locations |-> Absent]
  /\ seen = {Absent} /\ stage = "identify"
ParserAtRest == pc = "start" /\ data = <<>> /\ ~closed

MCInit == Init /\ CompanionInit

MCNext ==
  \/ LoaderAtRest /\ Next /\ UNCHANGED companionVars
  \/ ParserAtRest /\ CompanionNext /\ UNCHANGED vars

MCSpec == MCInit /\ [][MCNext]_<<vars, companionVars>>
=============================================================================
