-------------------------- MODULE RuntimeConfigProofs --------------------------
(***************************************************************************)
(* Proofs about RuntimeConfig, for any callers and any requests.           *)
(***************************************************************************)
EXTENDS RuntimeConfig, TLAPS

\* What the code keeps between any two steps.  A request that waits for the
\* lock was compared with fields that no one changes, so the comparison is
\* still good when the lock is granted.
Types ==
  /\ config \in Config /\ applied \in Config
  /\ checked \in [Callers -> Config \cup {None}]
  /\ snapshot \in [Callers -> Config \cup {None}]
Sound ==
  /\ \A f \in SizeFields : config.size[f] >= Minimum(f)
  /\ \A f \in PrefixFields :
       config.prefix[f] # "" /\ config.prefix[f] = Sanitized(config.prefix[f])
  /\ config.place["log_directory"] # ""
WaitingFits ==
  \A t \in Callers :
    checked[t] # None => Compatible(Normalized(checked[t]))
SnapshotFits ==
  \A t \in Callers :
    snapshot[t] # None => /\ snapshot[t].size = config.size
                          /\ snapshot[t].prefix = config.prefix
                          /\ snapshot[t].place = config.place
ConfigInv == Types /\ Sound /\ NothingIgnored /\ WaitingFits /\ SnapshotFits

-------------------------------------------------------------------------------
(* What trimming and sanitizing do to a text.                              *)

\* A sanitized text is one that sanitizing leaves alone, and is empty only if
\* the text was.
LEMMA SanitizedText ==
  ASSUME NEW t \in Texts
  PROVE  /\ Sanitized(t) \in Texts
         /\ Sanitized(Sanitized(t)) = Sanitized(t)
         /\ (Sanitized(t) = "") <=> (t = "")
  BY DEF Sanitized, Texts

LEMMA TrimmedText ==
  ASSUME NEW t \in Texts
  PROVE  Trimmed(t) \in Texts
  BY DEF Trimmed, Texts

\* The parts of a configuration and of its normal form.
LEMMA ConfigParts ==
  ASSUME NEW c \in Config
  PROVE  /\ c.size \in [SizeFields -> Nat]
         /\ c.name \in [NameFields -> Texts]
         /\ c.prefix \in [PrefixFields -> Texts]
         /\ c.place \in [PlaceFields -> Texts]
         /\ c.runtime \in [RuntimeFields -> Nat]
         /\ c # None
  BY ConfigAssumption DEF Config

LEMMA NormalizedParts ==
  ASSUME NEW c \in Config
  PROVE  /\ Normalized(c) \in Config
         /\ Normalized(c).size = c.size
         /\ Normalized(c).name = c.name
         /\ Normalized(c).place = c.place
         /\ Normalized(c).runtime = c.runtime
         /\ \A f \in PrefixFields :
              Normalized(c).prefix[f] = Sanitized(c.prefix[f])
<1>1. [f \in PrefixFields |-> Sanitized(c.prefix[f])]
        \in [PrefixFields -> Texts]
  BY ConfigParts, SanitizedText
<1> QED BY <1>1, ConfigParts DEF Normalized, Config

-------------------------------------------------------------------------------
(* The invariant.                                                          *)

LEMMA InitConfig == Init => ConfigInv
<1> SUFFICES ASSUME NEW c \in Requests, Valid(c),
                    config = Normalized(c), applied = c,
                    checked = [t \in Callers |-> None],
                    snapshot = [t \in Callers |-> None]
             PROVE  ConfigInv
  BY DEF Init
<1>1. c \in Config
  BY ConfigAssumption
<1>2. config \in Config /\ applied \in Config
  BY <1>1, NormalizedParts
<1>3. \A f \in PrefixFields : c.prefix[f] \in Texts
  BY <1>1, ConfigParts
<1>4. NothingIgnored
  BY <1>1, NormalizedParts DEF NothingIgnored
<1>5. \A f \in PrefixFields :
        config.prefix[f] # "" /\ config.prefix[f] = Sanitized(config.prefix[f])
  <2> TAKE f \in PrefixFields
  <2>1. config.prefix[f] = Sanitized(c.prefix[f])
    BY <1>1, NormalizedParts
  <2>2. c.prefix[f] # ""
    BY DEF Valid
  <2> QED BY <2>1, <2>2, <1>3, SanitizedText
<1>6. /\ \A f \in SizeFields : config.size[f] >= Minimum(f)
      /\ config.place["log_directory"] # ""
  BY <1>1, NormalizedParts DEF Valid
<1> QED BY <1>2, <1>4, <1>5, <1>6
           DEF ConfigInv, Types, Sound, WaitingFits, SnapshotFits

LEMMA NextConfig == ConfigInv /\ [Next]_vars => ConfigInv'
<1> SUFFICES ASSUME ConfigInv, [Next]_vars PROVE ConfigInv'
  OBVIOUS
<1>1. ASSUME NEW t \in Callers, NEW c \in Known(t), Check(t, c)
      PROVE  ConfigInv'
  <2>1. c \in Config
    BY ConfigAssumption DEF Known, ConfigInv, Types
  <2>2. /\ checked' = [checked EXCEPT ![t] = c]
        /\ UNCHANGED <<config, snapshot, applied>>
        /\ Compatible(Normalized(c))
    BY <1>1 DEF Check
  <2>3. Types'
    BY <2>1, <2>2 DEF ConfigInv, Types
  <2>4. \A u \in Callers : checked'[u] = IF u = t THEN c ELSE checked[u]
    BY <2>2 DEF ConfigInv, Types
  <2>5. WaitingFits'
    <3> SUFFICES ASSUME NEW u \in Callers, checked'[u] # None
                 PROVE  Compatible(Normalized(checked[u]))'
      BY DEF WaitingFits
    <3>1. CASE u = t
      BY <3>1, <2>2, <2>4 DEF Compatible, Normalized
    <3>2. CASE u # t
      BY <3>2, <2>2, <2>4 DEF ConfigInv, WaitingFits, Compatible, Normalized
    <3> QED BY <3>1, <3>2
  <2> QED BY <2>2, <2>3, <2>5
             DEF ConfigInv, Sound, NothingIgnored, SnapshotFits
<1>2. ASSUME NEW t \in Callers, Apply(t)
      PROVE  ConfigInv'
  <2> DEFINE r == checked[t]
             c == Normalized(r)
             names == [f \in NameFields |-> Trimmed(c.name[f])]
  <2>1. r \in Config /\ c \in Config
    BY <1>2, NormalizedParts DEF Apply, ConfigInv, Types
  <2>2. c.size = config.size /\ c.prefix = config.prefix
          /\ c.place = config.place
    BY <1>2 DEF Apply, ConfigInv, WaitingFits, Compatible
  <2>3. /\ c.size = r.size /\ c.name = r.name /\ c.place = r.place
        /\ c.runtime = r.runtime
        /\ \A f \in PrefixFields : c.prefix[f] = Sanitized(r.prefix[f])
    BY <2>1, NormalizedParts
  <2>4. names \in [NameFields -> Texts]
    BY <2>1, ConfigParts, TrimmedText
  <2>5. c.runtime \in [RuntimeFields -> Nat]
    BY <2>1, ConfigParts
  <2>6. /\ config' = [config EXCEPT !.name = names, !.runtime = c.runtime]
        /\ applied' = r
        /\ checked' = [checked EXCEPT ![t] = None]
        /\ snapshot' = snapshot
    BY <1>2 DEF Apply
  <2>7. /\ config' \in Config
        /\ config'.size = config.size /\ config'.prefix = config.prefix
        /\ config'.place = config.place
        /\ config'.name = names /\ config'.runtime = c.runtime
    BY <2>4, <2>5, <2>6, Zenon DEF Config, ConfigInv, Types
  <2>8. NothingIgnored'
    <3>1. /\ config'.size = r.size /\ config'.place = r.place
          /\ config'.runtime = r.runtime
      BY <2>2, <2>3, <2>7
    <3>2. ASSUME NEW f \in PrefixFields
          PROVE  config'.prefix[f] = Sanitized(r.prefix[f])
      <4>1. c.prefix[f] = Sanitized(r.prefix[f])
        BY <2>3
      <4>2. config'.prefix = c.prefix
        BY <2>2, <2>7
      <4> HIDE DEF c, r
      <4> QED BY <4>1, <4>2
    <3>3. \A f \in NameFields : config'.name[f] = Trimmed(r.name[f])
      BY <2>3, <2>7
    <3> HIDE DEF r, c, names
    <3> QED BY <3>1, <3>2, <3>3, <2>6 DEF NothingIgnored
  <2>9. Types'
    BY <2>1, <2>6, <2>7 DEF ConfigInv, Types
  <2>10. Sound'
    <3> HIDE DEF names
    <3> QED BY <2>7 DEF ConfigInv, Sound
  <2>11. WaitingFits'
    <3> SUFFICES ASSUME NEW u \in Callers, checked'[u] # None
                 PROVE  Compatible(Normalized(checked[u]))'
      BY DEF WaitingFits
    <3>1. checked'[u] = checked[u] /\ checked[u] # None
      BY <2>6 DEF ConfigInv, Types
    <3>2. Compatible(Normalized(checked[u]))
      BY <3>1 DEF ConfigInv, WaitingFits
    <3> HIDE DEF names
    <3> QED BY <3>1, <3>2, <2>7 DEF Compatible, Normalized
  <2>12. SnapshotFits'
    <3> HIDE DEF names
    <3> QED BY <2>6, <2>7 DEF ConfigInv, SnapshotFits
  <2> QED BY <2>8, <2>9, <2>10, <2>11, <2>12 DEF ConfigInv
<1>3. ASSUME NEW t \in Callers, GetConfig(t)
      PROVE  ConfigInv'
  <2>1. UNCHANGED <<config, checked, applied>>
          /\ snapshot' = [snapshot EXCEPT ![t] = config]
    BY <1>3 DEF GetConfig
  <2>2. Types' /\ SnapshotFits'
    BY <2>1 DEF ConfigInv, Types, SnapshotFits
  <2>3. WaitingFits'
    BY <2>1 DEF ConfigInv, WaitingFits, Compatible, Normalized
  <2> QED BY <2>1, <2>2, <2>3 DEF ConfigInv, Sound, NothingIgnored
<1>4. CASE UNCHANGED vars
  BY <1>4, ZenonT(60) DEF vars, ConfigInv, Types, Sound, NothingIgnored, WaitingFits,
              SnapshotFits, Compatible, Normalized
<1> QED BY <1>1, <1>2, <1>3, <1>4 DEF Next, Refuse

\* The invariant holds in every reachable state.
THEOREM ConfigInvariance == Spec => []ConfigInv
  BY InitConfig, NextConfig, PTL DEF Spec

-------------------------------------------------------------------------------
(* The properties that the runs check.                                     *)

\* Every field keeps its type, and the sizes stay large enough for the queue.
THEOREM TypeCorrect == Spec => []TypeOK
<1>1. ConfigInv => TypeOK
  <2> SUFFICES ASSUME ConfigInv PROVE TypeOK
    OBVIOUS
  <2>1. ASSUME NEW f \in SizeFields
        PROVE  config.size[f] > 0
                 /\ (f \notin {"buffer_capacity", "field_capacity"}
                       => config.size[f] > 1)
    <3>1. config.size[f] \in Nat /\ config.size[f] >= Minimum(f)
      BY ConfigParts DEF ConfigInv, Types, Sound
    <3>2. CASE f \in {"buffer_capacity", "field_capacity"}
      BY <3>1, <3>2 DEF Minimum
    <3>3. CASE f \notin {"buffer_capacity", "field_capacity"}
      <4>1. config.size[f] >= 2
        BY <3>1, <3>3 DEF Minimum
      <4> QED BY <4>1, <3>1
    <3> QED BY <3>2, <3>3
  <2> QED BY <2>1 DEF ConfigInv, Types, TypeOK
<1> QED BY <1>1, ConfigInvariance, PTL

\* A configure that answers OK has put every field of its request into effect.
THEOREM RequestsTakeEffect == Spec => []NothingIgnored
<1>1. ConfigInv => NothingIgnored
  BY DEF ConfigInv
<1> QED BY <1>1, ConfigInvariance, PTL

\* No step changes what the queue and the open files were made from.
THEOREM InitOnlyStays == Spec => InitOnlyKept
<1>1. ConfigInv /\ [Next]_vars =>
        [config'.size = config.size /\ config'.prefix = config.prefix
           /\ config'.place = config.place]_config
  <2> SUFFICES ASSUME ConfigInv, NEW t \in Callers, Apply(t)
               PROVE  config'.size = config.size
                        /\ config'.prefix = config.prefix
                        /\ config'.place = config.place
    BY DEF Next, vars, Check, Refuse, GetConfig
  <2> QED BY Zenon DEF Apply, ConfigInv, Types, Config
<1> QED BY <1>1, ConfigInvariance, PTL DEF Spec, InitOnlyKept

\* What get_config gave is accepted again, unless one of its names is empty.
THEOREM SnapshotsAccepted == Spec => []SnapshotTakenBack
<1>1. ConfigInv => SnapshotTakenBack
  <2> SUFFICES ASSUME ConfigInv, NEW t \in Callers, snapshot[t] # None,
                      \A f \in NameFields : snapshot[t].name[f] # ""
               PROVE  Valid(snapshot[t]) /\ Compatible(Normalized(snapshot[t]))
    BY DEF SnapshotTakenBack
  <2> DEFINE s == snapshot[t]
  <2>1. s \in Config
    BY DEF ConfigInv, Types
  <2>2. s.size = config.size /\ s.prefix = config.prefix
          /\ s.place = config.place
    BY DEF ConfigInv, SnapshotFits
  <2>3. Valid(s)
    BY <2>2 DEF ConfigInv, Sound, Valid
  <2>4. /\ Normalized(s).size = s.size /\ Normalized(s).place = s.place
        /\ Normalized(s).prefix \in [PrefixFields -> Texts]
        /\ s.prefix \in [PrefixFields -> Texts]
    BY <2>1, NormalizedParts, ConfigParts
  <2>5. ASSUME NEW f \in PrefixFields
        PROVE  Normalized(s).prefix[f] = s.prefix[f]
    <3>1. Normalized(s).prefix[f] = Sanitized(s.prefix[f])
      BY <2>1, NormalizedParts
    <3>2. s.prefix[f] = Sanitized(s.prefix[f])
      BY <2>2 DEF ConfigInv, Sound
    <3> HIDE DEF s
    <3> QED BY <3>1, <3>2
  <2>6. Normalized(s).prefix = s.prefix
    <3> DEFINE p == Normalized(s).prefix
               q == s.prefix
    <3>1. p \in [PrefixFields -> Texts] /\ q \in [PrefixFields -> Texts]
      BY <2>4
    <3>2. \A f \in PrefixFields : p[f] = q[f]
      BY <2>5
    <3> HIDE DEF p, q
    <3>3. p = [f \in PrefixFields |-> p[f]]
            /\ q = [f \in PrefixFields |-> q[f]]
      BY <3>1
    <3>4. [f \in PrefixFields |-> p[f]] = [f \in PrefixFields |-> q[f]]
      BY <3>2, Zenon
    <3>5. p = q
      BY <3>3, <3>4, Zenon
    <3> QED BY <3>5 DEF p, q
  <2> QED BY <2>2, <2>3, <2>4, <2>6 DEF Compatible
<1> QED BY <1>1, ConfigInvariance, PTL
===============================================================================
