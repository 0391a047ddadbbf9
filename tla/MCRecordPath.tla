----------------------------- MODULE MCRecordPath -----------------------------
(***************************************************************************)
(* Instances of RecordPath for TLC: small capacities with every kind of    *)
(* field, and the capacities of mp_logger_config_init_defaults.            *)
(***************************************************************************)
EXTENDS RecordPath

TextOf(class, length) == [length |-> length, class |-> class]
KeyOf(name, form, length) == [name |-> name, form |-> form, length |-> length]
FieldOf(key, type, class, length) ==
  [key |-> key, type |-> type, text |-> TextOf(class, length)]
KeyA == KeyOf(1, "valid", 1)
KeyB == KeyOf(2, "valid", 3)

\* Values at their bound and one beyond, for a value capacity of 4.
MCMessages == {TextOf("plain", 3), TextOf("control", 2)}
MCContexts == {Empty, TextOf("plain", 599)}

A == FieldOf(KeyA, "string", "plain", 3)
A2 == FieldOf(KeyA, "string", "short", 1)
B == FieldOf(KeyB, "number", "plain", 24)
C == FieldOf(KeyOf(3, "valid", 1), "string", "plain", 0)
D == FieldOf(KeyOf(4, "valid", 1), "number", "plain", 1)
MCBad == {FieldOf(KeyA, "string", "plain", 4),
          FieldOf(KeyOf(5, "valid", 4), "number", "plain", 1),
          FieldOf(KeyOf(6, "reserved", 2), "number", "plain", 1),
          FieldOf(KeyOf(0, "malformed", 0), "number", "plain", 1),
          FieldOf(KeyB, "notFinite", "plain", 3),
          FieldOf(KeyB, "unknown", "plain", 0)}
MCFieldLists ==
  {<< >>, <<A>>, <<A2>>, <<B, C>>, <<A, B, C>>}
    \cup {<<A, B, C, D>>, <<A, B, A2>>, <<B, B>>}
    \cup {<<f>> : f \in MCBad} \cup {<<f, g>> : f, g \in MCBad}
    \cup {<<C, D, f>> : f \in MCBad}

ConfigOf(format, pretty, name) ==
  [format |-> format, pretty_output |-> pretty, service_name |-> name,
   environment_name |-> name]
MCConfigs == {ConfigOf("JSON", TRUE, TextOf("plain", 63)),
              ConfigOf("JSON", FALSE, TextOf("short", 2)),
              ConfigOf("TEXT", FALSE, TextOf("plain", 63))}

\* Eight fields of 127 control characters each, and nothing else to escape.
DefaultMessages == {TextOf("plain", 5)}
DefaultContexts == {Empty}
DefaultFieldLists ==
  {[i \in 1 .. n |-> FieldOf(KeyOf(i, "valid", 1), "string",
                             "control", 127)] : n \in {0, 8}}
DefaultConfigs == {ConfigOf("JSON", FALSE, TextOf("plain", 10))}
===============================================================================
