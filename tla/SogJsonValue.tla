----------------------------- MODULE SogJsonValue -----------------------------
(***************************************************************************)
(* JsonValue of the gaussian-sog plugin: what the JSON parser builds and   *)
(* the reader of meta.json looks into.                                     *)
(***************************************************************************)
EXTENDS Integers, Sequences

(* A value as it is constructed.                                           *)
JsonValue == [type |-> "null", boolean |-> FALSE, number |-> 0, text |-> <<>>,
              items |-> <<>>, members |-> <<>>]

Nothing == <<>>

(* The fields of a value, and of those three levels down.                  *)
HasFields(value) ==
  /\ value.number \in Int /\ value.text \in Seq(0 .. 255)
  /\ Len(value.items) \in Nat /\ DOMAIN value.items = 1 .. Len(value.items)
  /\ DOMAIN value.members \subseteq Nat
Inside(value) == {value.items[n] : n \in DOMAIN value.items}
                 \cup {value.members[n].value : n \in DOMAIN value.members}
IsTree(root) ==
  /\ HasFields(root)
  /\ \A v \in Inside(root) :
       /\ HasFields(v)
       /\ \A w \in Inside(v) : HasFields(w) /\ \A x \in Inside(w) : HasFields(x)

(* The member of that name, or Nothing.                                    *)
Find(value, name) ==
  LET named == {n \in DOMAIN value.members : value.members[n].name = name}
  IN  IF value.type # "object" \/ named = {} THEN Nothing
      ELSE <<value.members[CHOOSE n \in named : \A m \in named : n <= m].value>>
=============================================================================
