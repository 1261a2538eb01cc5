--------------------------- MODULE ParserRegistry ---------------------------
(***************************************************************************)
(* ParserRegistry of protocols/common/parser_registry.hpp: a map from      *)
(* names to factories, filled by the static objects of REGISTER_PARSER     *)
(* before main runs, in the order in which the linker placed them.  A      *)
(* factory is the kind of parser it makes.                                 *)
(***************************************************************************)
EXTENDS Naturals, Sequences

CONSTANT Registrations   \* the static registrations in order: [name, kind]

NoParser == "nullptr"

(***************************************************************************)
(* What parser_ can be: a parser of the repository, or none.               *)
(***************************************************************************)
Kinds == {"EchoParser", "NullParser", "ItchParser", NoParser}

ASSUME RegistrationsAssumption ==
  Registrations \in Seq([name : STRING, kind : Kinds \ {NoParser}])

(***************************************************************************)
(* register_parser: emplace leaves the entry of a name that is taken.      *)
(***************************************************************************)
register_parser(map, name, kind) ==
  IF name \in DOMAIN map THEN map
  ELSE [n \in DOMAIN map \cup {name} |-> IF n = name THEN kind ELSE map[n]]

factories_ ==
  LET after[i \in 0 .. Len(Registrations)] ==
        IF i = 0 THEN << >>
        ELSE register_parser(after[i - 1], Registrations[i].name, Registrations[i].kind)
  IN  after[Len(Registrations)]

has_parser(name) == name \in DOMAIN factories_

create_parser(name) == IF has_parser(name) THEN factories_[name] ELSE NoParser
=============================================================================
