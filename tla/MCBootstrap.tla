------------------------------ MODULE MCBootstrap ------------------------------
(***************************************************************************)
(* Instances of Bootstrap for TLC: a key of each kind, "minimum_level" in  *)
(* two sections.  Custom contexts differ in nothing.                       *)
(***************************************************************************)
EXTENDS Bootstrap, TLC

MCTextKeys ==
  (Root :> {"service_name"}) @@ ("logger" :> {"active_streams"})
    @@ ("stdout" :> {}) @@ ("udp" :> {})
MCChoiceKeys ==
  (Root :> {}) @@ ("logger" :> {})
    @@ ("stdout" :> {"minimum_level"}) @@ ("udp" :> {"minimum_level"})
MCSizeKeys ==
  (Root :> {}) @@ ("logger" :> {"buffer_capacity"}) @@ ("stdout" :> {}) @@ ("udp" :> {})
MCPortKeys ==
  (Root :> {}) @@ ("logger" :> {}) @@ ("stdout" :> {}) @@ ("udp" :> {"port"})

CustomSymmetry == Permutations(Customs)
===============================================================================
