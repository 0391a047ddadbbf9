---------------------------- MODULE MCRuntimeConfig ----------------------------
(***************************************************************************)
(* An instance of RuntimeConfig for TLC: configurations that differ from a *)
(* plain one in one kind of field.                                         *)
(***************************************************************************)
EXTENDS RuntimeConfig, TLC

All(fields, value) == [f \in fields |-> value]
Plain ==
  [size |-> All(SizeFields, 2), name |-> All(NameFields, "a"),
   prefix |-> All(PrefixFields, "a"), place |-> All(PlaceFields, "a"),
   runtime |-> All(RuntimeFields, 0)]

MCRequests ==
  {Plain}
    \cup {[Plain EXCEPT !.size["message_capacity"] = n] : n \in {1, 3}}
    \cup {[Plain EXCEPT !.name["service_name"] = s] : s \in {"", " ", " a"}}
    \cup {[Plain EXCEPT !.prefix["file_name_prefix"] = s] :
            s \in {"", " ", "_", "a.", "a_"}}
    \cup {[Plain EXCEPT !.place["log_directory"] = s] : s \in {"", "_"}}
    \cup {[Plain EXCEPT !.place["active_streams"] = ""]}
    \cup {[Plain EXCEPT !.runtime[f] = 1] : f \in RuntimeFields}
    \cup {[Plain EXCEPT !.prefix["file_name_prefix"] = "a.",
                        !.name["service_name"] = " a",
                        !.runtime["format"] = 1]}

CallerSymmetry == Permutations(Callers)
===============================================================================
