------------------------------ MODULE MCProcess ------------------------------
(***************************************************************************)
(* Process for TLC: one port, a path that has an option and an interval    *)
(* that has none.  The texts for the port are the built-in number, the     *)
(* largest one, the first two that do not fit, one of them the built-in    *)
(* one again as uint16_t, and none.                                        *)
(***************************************************************************)
EXTENDS Process, TLC

BuiltIn ==
  [http_port |-> 8080, db_path |-> "default", projection_interval_ms |-> "default"]

SomeStoi ==
  ("8080" :> 8080) @@ ("65535" :> 65535) @@ ("65536" :> 65536) @@ ("73616" :> 73616)

SomeJsonNumber == SomeStoi @@ ("true" :> 1)

SomeTexts == {"8080", "65535", "65536", "73616", "true"}
=============================================================================
