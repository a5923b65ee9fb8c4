------------------------- MODULE ConfigParseProofs --------------------------
(***************************************************************************)
(* What Parse gives, for every file: any number of interfaces and hosts,   *)
(* any bounds, any input for a table, a metric or minimum_up.              *)
(*                                                                         *)
(* One inductive invariant has four parts: the types; the settings of each *)
(* level, by those of the level above (Chain); the totals of the interface *)
(* that is read (Counts); the metric of those read (Bounds).               *)
(***************************************************************************)
EXTENDS ConfigParse, FiniteSetTheorems, TLAPS

Seen(f) == {a \in ifi.seen : FamilyOf[a] = f}

(* What a level says, or else what the level above has.                    *)
Follows(level, parent) ==
    \A s \in AllSettings :
        settings[level][s] = IF given[level][s] = "set" THEN level
                                                        ELSE settings[parent][s]

(* A host that has been read is of the interface that is read: the chain   *)
(* above it is complete.                                                   *)
Chain ==
    /\ \A s \in AllSettings : settings["default"][s] = "default"
    /\ Follows("file", "default")
    /\ pc = "host" => Follows("interface", "file")
    /\ host # "none" =>
          /\ pc \in {"host", "refused"}
          /\ Follows("interface", "file")
          /\ Follows("host", "interface")

Counts ==
    pc = "host" =>
        /\ \A f \in Families : ifi.total[f] = Cardinality(Seen(f))
        /\ ifi.hosts > 0 => ifi.minimumUp <= ifi.hosts

InBounds(i) == i.metric < MaxMetric

Bounds ==
    /\ \A i \in interfaces : InBounds(i)
    /\ pc = "host" => InBounds(ifi.taken)

Inv == ConfigTypeOK /\ Chain /\ Counts /\ Bounds

-----------------------------------------------------------------------------
(* What is given and inherited has its type.                               *)
LEMMA TakeType ==
    ASSUME ConfigTypeOK,
           NEW level \in Levels \ {"default"}, NEW parent \in Levels,
           NEW g \in Says(level), Take(g, parent, level)
    PROVE  /\ given' \in [Levels \ {"default"} ->
                             [AllSettings -> {"unset", "bad", "set"}]]
           /\ settings' \in [Levels -> [AllSettings -> Levels]]
  <1>1. Inherit(g, parent, level) \in [AllSettings -> Levels]
    BY DEF Inherit, ConfigTypeOK
  <1>2. g \in [AllSettings -> {"unset", "bad", "set"}]
    BY DEF Says
  <1> QED
    BY <1>1, <1>2 DEF Take, ConfigTypeOK

(* What a level takes follows the level above, and no other changes.       *)
LEMMA TakeFollows ==
    ASSUME ConfigTypeOK,
           NEW level \in Levels \ {"default"}, NEW parent \in Levels \ {level},
           NEW g \in Says(level), Take(g, parent, level)
    PROVE  /\ Follows(level, parent)'
           /\ \A l \in Levels \ {level} : settings'[l] = settings[l]
           /\ \A l \in Levels \ {level, "default"} : given'[l] = given[l]
  BY DEF Take, Inherit, Follows, ConfigTypeOK

(* parseInterface takes an interface whose parts have their type.          *)
LEMMA ReadInterfaceType ==
    ASSUME NEW name \in InterfaceNames, NEW table \in TableInputs,
           NEW metric \in MetricInputs, NEW minimum \in MinimumInputs,
           NEW hosts \in 0 .. MaxHosts,
           table # Unset => TableOK(table),
           metric # Unset => MetricOK(metric, table),
           minimum # Unset => MinimumOK(minimum, hosts)
    PROVE  /\ Or(table, 0) \in Nat
           /\ Or(metric, 0) \in Nat
           /\ Or(minimum, 1) \in Nat
           /\ hosts > 0 => Or(minimum, 1) <= hosts
           /\ Or(metric, 0) < MaxMetric
           /\ Or(metric, 0) # 0 => Or(table, 0) # 0
           /\ Or(table, 0) \notin ReservedTables
  <1>1. Or(table, 0) \in Nat /\ Or(table, 0) \notin ReservedTables
    <2>1. CASE table = Unset
      BY <2>1 DEF Or, ReservedTables
    <2>2. CASE table # Unset
      <3>1. table \in 1 .. TableMax /\ table \notin ReservedTables
        BY <2>2 DEF TableOK
      <3> QED
        BY <2>2, <3>1, TableAssumption DEF Or
    <2> QED
      BY <2>1, <2>2
  <1>2. metric # Unset => metric \in 1 .. 32764 /\ Or(table, 0) # 0
    <2> SUFFICES ASSUME metric # Unset
                 PROVE  metric \in 1 .. 32764 /\ Or(table, 0) # 0
      OBVIOUS
    <2>1. table # Unset /\ metric \in 1 .. 32764
      BY DEF MetricOK
    <2>2. table \in 1 .. TableMax
      BY <2>1 DEF TableOK
    <2> QED
      BY <2>1, <2>2, TableAssumption DEF Or
  <1>3. /\ Or(metric, 0) \in Nat
        /\ Or(metric, 0) < MaxMetric
        /\ Or(metric, 0) # 0 => Or(table, 0) # 0
    <2>1. CASE metric = Unset
      BY <2>1 DEF Or, MaxMetric
    <2>2. CASE metric # Unset
      <3>1. Or(metric, 0) = metric
        BY <2>2 DEF Or
      <3>2. metric \in 1 .. 32764 /\ Or(table, 0) # 0
        BY <1>2, <2>2
      <3>3. metric \in Nat /\ metric < MaxMetric
        BY <3>2 DEF MaxMetric
      <3> QED
        BY <3>1, <3>2, <3>3
    <2> QED
      BY <2>1, <2>2
  <1>4. Or(minimum, 1) \in Nat /\ (hosts > 0 => Or(minimum, 1) <= hosts)
    BY MaxHostsAssumption DEF Or, MinimumOK
  <1> QED
    BY <1>1, <1>3, <1>4

-----------------------------------------------------------------------------
LEMMA TypeInit == Init => ConfigTypeOK
  BY DEF Init, ConfigTypeOK, NothingGiven, Levels

LEMMA TypeStep == ConfigTypeOK /\ [Next]_vars => ConfigTypeOK'
  <1> SUFFICES ASSUME ConfigTypeOK, [Next]_vars PROVE ConfigTypeOK'
    OBVIOUS
  <1>1. ASSUME Refuse PROVE ConfigTypeOK'
    BY <1>1 DEF Refuse, ConfigTypeOK
  <1>2. CASE ReadFile
    <2>1. PICK g \in Says("file") :
             \/ Refuse
             \/ /\ Take(g, "default", "file")
                /\ pc' = "interface"
                /\ UNCHANGED <<ifi, host, interfaces>>
      BY <1>2 DEF ReadFile
    <2> QED
      BY <1>1, <2>1, TakeType DEF ConfigTypeOK, Levels
  <1>3. ASSUME NEW name \in InterfaceNames, NEW table \in TableInputs,
               NEW metric \in MetricInputs, NEW minimum \in MinimumInputs,
               NEW hosts \in 0 .. MaxHosts,
               ReadInterface(name, table, metric, minimum, hosts)
        PROVE  ConfigTypeOK'
    <2> DEFINE new == [taken |-> [name |-> name, table |-> Or(table, 0),
                                  metric |-> Or(metric, 0)],
                       minimumUp |-> Or(minimum, 1), hosts |-> hosts,
                       seen |-> {}, total |-> [f \in Families |-> 0]]
               accepted == /\ table # Unset => TableOK(table)
                           /\ metric # Unset => MetricOK(metric, table)
                           /\ minimum # Unset => MinimumOK(minimum, hosts)
    <2>1. \/ Refuse
          \/ \E g \in Says("interface") :
                /\ accepted
                /\ Take(g, "file", "interface")
                /\ ifi' = new
                /\ pc' = "host"
                /\ UNCHANGED <<host, interfaces>>
      BY <1>3 DEF ReadInterface
    <2>2. ASSUME accepted PROVE new \in Interface
      BY <2>2, ReadInterfaceType, MaxHostsAssumption DEF Interface, Taken
    <2> QED
      BY <1>1, <2>1, <2>2, TakeType DEF ConfigTypeOK, Levels
  <1>4. ASSUME NEW a \in Addresses, ReadHost(a) PROVE ConfigTypeOK'
    <2>1. ifi \in Interface /\ HostsLeft
      BY <1>4 DEF ReadHost, ConfigTypeOK
    <2> DEFINE f == FamilyOf[a]
               total == [ifi.total EXCEPT ![f] = @ + 1]
    <2>2. Counted(a) \in Interface
      <3>1. f \in Families
        BY AddressFamilyAssumption DEF Families
      <3>2. \A e \in Families : ifi.total[e] \in Nat
        BY <2>1, MaxHostsAssumption DEF Interface
      <3>3. ifi.total[f] + 1 <= ifi.hosts /\ ifi.hosts \in 0 .. MaxHosts
        BY <2>1, <3>1, <3>2 DEF HostsLeft, Interface, Families
      <3>4. ifi.total[f] + 1 \in 0 .. MaxHosts
        BY <3>1, <3>2, <3>3, MaxHostsAssumption
      <3>5. total \in [Families -> 0 .. MaxHosts]
        BY <2>1, <3>4 DEF Interface
      <3>6. Counted(a) = [ifi EXCEPT !.seen = ifi.seen \cup {a}, !.total = total]
        BY <2>1 DEF Counted, Interface
      <3> HIDE DEF total
      <3> QED
        BY <2>1, <3>5, <3>6 DEF Interface
    <2>3. \/ Refuse
          \/ \E g \in Says("host") :
                /\ Take(g, "interface", "host")
                /\ host' = a
                /\ ifi' = Counted(a)
                /\ UNCHANGED <<pc, interfaces>>
      BY <1>4 DEF ReadHost
    <2> QED
      BY <1>1, <2>2, <2>3, TakeType DEF ConfigTypeOK, Levels
  <1>5. CASE ReadNoAddress
    BY <1>1, <1>5 DEF ReadNoAddress
  <1>6. CASE TakeInterface
    <2>1. CASE Refuse
      BY <1>1, <2>1
    <2>2. CASE ~Refuse
      <3>1. pc = "host" /\ interfaces' = interfaces \cup {ifi.taken}
        BY <1>6, <2>2 DEF TakeInterface
      <3>2. interfaces' \in SUBSET Taken
        BY <3>1 DEF ConfigTypeOK, Interface
      <3> QED
        BY <1>6, <2>2, <3>2 DEF TakeInterface, ConfigTypeOK, NothingGiven, Levels
    <2> QED
      BY <2>1, <2>2
  <1>7. CASE EndOfFile
    BY <1>7 DEF EndOfFile, ConfigTypeOK
  <1>8. CASE UNCHANGED vars
    BY <1>8 DEF vars, ConfigTypeOK
  <1> QED
    BY <1>2, <1>3, <1>4, <1>5, <1>6, <1>7, <1>8 DEF Next

-----------------------------------------------------------------------------
LEMMA ChainInit == Init => Chain
  BY DEF Init, Chain, Follows, NothingGiven, AllSettings, Levels

LEMMA ChainStep == ConfigTypeOK /\ Chain /\ [Next]_vars => Chain'
  <1> SUFFICES ASSUME ConfigTypeOK, Chain, [Next]_vars PROVE Chain'
    OBVIOUS
  <1>1. ASSUME Refuse PROVE Chain'
    BY <1>1 DEF Refuse, Chain, Follows
  <1>2. CASE ReadFile
    <2>1. PICK g \in Says("file") :
             \/ Refuse
             \/ /\ Take(g, "default", "file")
                /\ pc' = "interface"
                /\ UNCHANGED <<ifi, host, interfaces>>
      BY <1>2 DEF ReadFile
    <2>2. CASE Take(g, "default", "file") /\ pc' = "interface" /\ UNCHANGED host
      <3>1. Follows("file", "default")' /\ settings'["default"] = settings["default"]
        BY <2>2, TakeFollows DEF Levels
      <3>2. host = "none"
        BY <1>2 DEF ReadFile, Chain
      <3> QED
        BY <2>2, <3>1, <3>2 DEF Chain
    <2> QED
      BY <1>1, <2>1, <2>2
  <1>3. ASSUME NEW name \in InterfaceNames, NEW table \in TableInputs,
               NEW metric \in MetricInputs, NEW minimum \in MinimumInputs,
               NEW hosts \in 0 .. MaxHosts,
               ReadInterface(name, table, metric, minimum, hosts)
        PROVE  Chain'
    <2>1. CASE Refuse
      BY <1>1, <2>1
    <2>2. CASE ~Refuse
      <3>1. PICK g \in Says("interface") :
               Take(g, "file", "interface") /\ pc' = "host" /\ UNCHANGED host
        BY <1>3, <2>2 DEF ReadInterface
      <3>2. /\ Follows("interface", "file")'
            /\ settings'["default"] = settings["default"]
            /\ settings'["file"] = settings["file"]
            /\ given'["file"] = given["file"]
        BY <3>1, TakeFollows DEF Levels
      <3>3. host = "none"
        BY <1>3 DEF ReadInterface, Chain
      <3> QED
        BY <3>1, <3>2, <3>3 DEF Chain, Follows
    <2> QED
      BY <2>1, <2>2
  <1>4. ASSUME NEW a \in Addresses, ReadHost(a) PROVE Chain'
    <2>1. CASE Refuse
      BY <1>1, <2>1
    <2>2. CASE ~Refuse
      <3>1. PICK g \in Says("host") :
               Take(g, "interface", "host") /\ UNCHANGED pc
        BY <1>4, <2>2 DEF ReadHost
      <3>2. /\ Follows("host", "interface")'
            /\ \A l \in {"default", "file", "interface"} :
                  settings'[l] = settings[l]
            /\ \A l \in {"file", "interface"} : given'[l] = given[l]
        BY <3>1, TakeFollows DEF Levels
      <3>3. pc = "host"
        BY <1>4 DEF ReadHost
      <3> QED
        BY <3>1, <3>2, <3>3 DEF Chain, Follows
    <2> QED
      BY <2>1, <2>2
  <1>5. CASE ReadNoAddress
    BY <1>1, <1>5 DEF ReadNoAddress
  <1>6. CASE TakeInterface
    <2>1. CASE Refuse
      BY <1>1, <2>1
    <2>2. CASE ~Refuse
      <3>1. /\ pc' = "interface" /\ host' = "none"
            /\ \A l \in {"default", "file"} : settings'[l] = settings[l]
            /\ given'["file"] = given["file"]
        BY <1>6, <2>2 DEF TakeInterface, ConfigTypeOK, Levels
      <3> QED
        BY <3>1 DEF Chain, Follows
    <2> QED
      BY <2>1, <2>2
  <1>7. CASE EndOfFile
    BY <1>7 DEF EndOfFile, Chain, Follows
  <1>8. CASE UNCHANGED vars
    BY <1>8 DEF vars, Chain, Follows
  <1> QED
    BY <1>2, <1>3, <1>4, <1>5, <1>6, <1>7, <1>8 DEF Next

(* With the chain complete, the level a setting is from gives it, and none *)
(* between does.                                                           *)
LEMMA ChainNearest == ConfigTypeOK /\ Chain => NearestWins
  <1> SUFFICES ASSUME ConfigTypeOK, Chain, NEW l \in DOMAIN Rank,
                      NEW s \in AllSettings,
                      l = "interface" => pc = "host",
                      l = "host" => host # "none"
               PROVE  LET set == {k \in DOMAIN Rank :
                                     Rank[k] <= Rank[l] /\ given[k][s] = "set"}
                      IN  IF set = {} THEN settings[l][s] = "default"
                          ELSE /\ settings[l][s] \in set
                               /\ \A k \in set : Rank[k] <= Rank[settings[l][s]]
    BY DEF NearestWins
  <1>1. /\ DOMAIN Rank = {"file", "interface", "host"}
        /\ Rank["file"] = 1 /\ Rank["interface"] = 2 /\ Rank["host"] = 3
    BY DEF Rank
  <1>2. settings["file"][s] = IF given["file"][s] = "set" THEN "file" ELSE "default"
    BY DEF Chain, Follows
  <1>3. l # "file" =>
            settings["interface"][s] =
                IF given["interface"][s] = "set" THEN "interface"
                                                 ELSE settings["file"][s]
    BY <1>1 DEF Chain, Follows
  <1>4. l = "host" =>
            settings["host"][s] =
                IF given["host"][s] = "set" THEN "host"
                                            ELSE settings["interface"][s]
    BY DEF Chain, Follows
  <1>5. CASE l = "file"
    BY <1>1, <1>2, <1>5
  <1>6. CASE l = "interface"
    BY <1>1, <1>2, <1>3, <1>6
  <1>7. CASE l = "host"
    BY <1>1, <1>2, <1>3, <1>4, <1>7
  <1> QED
    BY <1>1, <1>5, <1>6, <1>7

-----------------------------------------------------------------------------
LEMMA BoundsInit == Init => Bounds
  BY DEF Init, Bounds

LEMMA BoundsStep == ConfigTypeOK /\ Bounds /\ [Next]_vars => Bounds'
  <1> SUFFICES ASSUME ConfigTypeOK, Bounds, [Next]_vars PROVE Bounds'
    OBVIOUS
  <1> USE DEF InBounds
  <1>1. ASSUME Refuse PROVE Bounds'
    BY <1>1 DEF Refuse, Bounds
  <1>2. CASE ReadFile
    BY <1>1, <1>2 DEF ReadFile, Bounds
  <1>3. ASSUME NEW name \in InterfaceNames, NEW table \in TableInputs,
               NEW metric \in MetricInputs, NEW minimum \in MinimumInputs,
               NEW hosts \in 0 .. MaxHosts,
               ReadInterface(name, table, metric, minimum, hosts)
        PROVE  Bounds'
    <2>1. CASE Refuse
      BY <1>1, <2>1
    <2>2. CASE ~Refuse
      <3>1. /\ table # Unset => TableOK(table)
            /\ metric # Unset => MetricOK(metric, table)
            /\ minimum # Unset => MinimumOK(minimum, hosts)
        BY <1>3, <2>2 DEF ReadInterface
      <3>2. /\ ifi'.taken.table = Or(table, 0)
            /\ ifi'.taken.metric = Or(metric, 0)
            /\ UNCHANGED interfaces
        BY <1>3, <2>2 DEF ReadInterface
      <3>3. InBounds(ifi'.taken)
        BY <3>1, <3>2, ReadInterfaceType
      <3> QED
        BY <3>2, <3>3 DEF Bounds
    <2> QED
      BY <2>1, <2>2
  <1>4. ASSUME NEW a \in Addresses, ReadHost(a) PROVE Bounds'
    <2>1. CASE Refuse
      BY <1>1, <2>1
    <2>2. CASE ~Refuse
      <3>1. pc = "host" /\ ifi' = Counted(a) /\ UNCHANGED interfaces
        BY <1>4, <2>2 DEF ReadHost
      <3>2. ifi'.taken = ifi.taken
        BY <3>1 DEF Counted, ConfigTypeOK, Interface
      <3> QED
        BY <3>1, <3>2 DEF Bounds
    <2> QED
      BY <2>1, <2>2
  <1>5. CASE ReadNoAddress
    BY <1>1, <1>5 DEF ReadNoAddress
  <1>6. CASE TakeInterface
    BY <1>1, <1>6 DEF TakeInterface, Bounds
  <1>7. CASE EndOfFile
    BY <1>7 DEF EndOfFile, Bounds
  <1>8. CASE UNCHANGED vars
    BY <1>8 DEF vars, Bounds
  <1> QED
    BY <1>2, <1>3, <1>4, <1>5, <1>6, <1>7, <1>8 DEF Next

-----------------------------------------------------------------------------
LEMMA SeenFinite ==
    ASSUME NEW S \in SUBSET Addresses PROVE IsFiniteSet(S)
  BY FiniteAddressesAssumption, FS_Subset

LEMMA CountsInit == Init => Counts
  BY DEF Init, Counts

LEMMA CountsStep == ConfigTypeOK /\ Counts /\ [Next]_vars => Counts'
  <1> SUFFICES ASSUME ConfigTypeOK, Counts, [Next]_vars PROVE Counts'
    OBVIOUS
  <1>1. ASSUME pc' # "host" PROVE Counts'
    BY <1>1 DEF Counts
  <1>2. CASE ReadFile \/ ReadNoAddress \/ TakeInterface \/ EndOfFile
    <2>1. pc' # "host"
      BY <1>2 DEF ReadFile, ReadNoAddress, TakeInterface, EndOfFile, Refuse
    <2> QED
      BY <1>1, <2>1
  <1>3. ASSUME NEW name \in InterfaceNames, NEW table \in TableInputs,
               NEW metric \in MetricInputs, NEW minimum \in MinimumInputs,
               NEW hosts \in 0 .. MaxHosts,
               ReadInterface(name, table, metric, minimum, hosts)
        PROVE  Counts'
    <2>1. CASE Refuse
      BY <1>1, <2>1 DEF Refuse
    <2>2. CASE ~Refuse
      <3>1. /\ table # Unset => TableOK(table)
            /\ metric # Unset => MetricOK(metric, table)
            /\ minimum # Unset => MinimumOK(minimum, hosts)
        BY <1>3, <2>2 DEF ReadInterface
      <3>2. /\ ifi'.seen = {} /\ ifi'.total = [f \in Families |-> 0]
            /\ ifi'.hosts = hosts /\ ifi'.minimumUp = Or(minimum, 1)
        BY <1>3, <2>2 DEF ReadInterface
      <3>3. \A f \in Families : Seen(f)' = {} /\ ifi'.total[f] = 0
        BY <3>2 DEF Seen
      <3>4. ifi'.hosts > 0 => ifi'.minimumUp <= ifi'.hosts
        BY <3>1, <3>2, ReadInterfaceType
      <3> QED
        BY <3>3, <3>4, FS_EmptySet DEF Counts
    <2> QED
      BY <2>1, <2>2
  <1>4. ASSUME NEW a \in Addresses, ReadHost(a) PROVE Counts'
    <2>1. CASE Refuse
      BY <1>1, <2>1 DEF Refuse
    <2>2. CASE ~Refuse
      <3> DEFINE f == FamilyOf[a]
      <3>1. /\ pc = "host" /\ a \notin ifi.seen /\ ifi \in Interface
            /\ ifi' = Counted(a)
        BY <1>4, <2>2 DEF ReadHost, ConfigTypeOK
      <3>2. f \in Families
        BY AddressFamilyAssumption DEF Families
      <3>3. /\ ifi'.seen = ifi.seen \cup {a}
            /\ ifi'.total = [ifi.total EXCEPT ![f] = @ + 1]
            /\ ifi'.hosts = ifi.hosts /\ ifi'.minimumUp = ifi.minimumUp
        BY <3>1 DEF Counted, Interface
      <3>4. ASSUME NEW e \in Families
            PROVE  ifi'.total[e] = Cardinality(Seen(e)')
        <4>1. IsFiniteSet(Seen(e)) /\ a \notin Seen(e)
          BY <3>1, SeenFinite DEF Seen, Interface
        <4>2. ifi.total[e] = Cardinality(Seen(e))
          BY <3>1 DEF Counts
        <4>3. CASE e = f
          <5>1. Seen(e)' = Seen(e) \cup {a}
            BY <3>3, <4>3 DEF Seen
          <5>2. ifi'.total[e] = ifi.total[e] + 1
            BY <3>1, <3>3, <4>3 DEF Interface
          <5> QED
            BY <4>1, <4>2, <5>1, <5>2, FS_AddElement
        <4>4. CASE e # f
          <5>1. Seen(e)' = Seen(e)
            BY <3>3, <4>4 DEF Seen
          <5>2. ifi'.total[e] = ifi.total[e]
            BY <3>1, <3>3, <4>4 DEF Interface
          <5> QED
            BY <4>2, <5>1, <5>2
        <4> QED
          BY <4>3, <4>4
      <3> QED
        BY <3>1, <3>3, <3>4 DEF Counts
    <2> QED
      BY <2>1, <2>2
  <1>5. CASE UNCHANGED vars
    BY <1>5 DEF vars, Counts, Seen
  <1> QED
    BY <1>2, <1>3, <1>4, <1>5 DEF Next

(* The addresses of an interface are those of its families, and each is of *)
(* one.                                                                    *)
LEMMA SeenOfFamilies ==
    ASSUME ConfigTypeOK, pc = "host"
    PROVE  Cardinality(ifi.seen) = Cardinality(Seen("v4")) + Cardinality(Seen("v6"))
  <1>1. ifi.seen \in SUBSET Addresses
    BY DEF ConfigTypeOK, Interface
  <1>2. ifi.seen = Seen("v4") \cup Seen("v6") /\ Seen("v4") \cap Seen("v6") = {}
    BY <1>1, AddressFamilyAssumption DEF Seen
  <1>3. IsFiniteSet(Seen("v4")) /\ IsFiniteSet(Seen("v6"))
    BY <1>1, SeenFinite DEF Seen
  <1>4. Cardinality(Seen("v4")) \in Nat /\ Cardinality(Seen("v6")) \in Nat
    BY <1>3, FS_CardinalityType
  <1>5. Cardinality(Seen("v4") \cup Seen("v6")) =
            Cardinality(Seen("v4")) + Cardinality(Seen("v6"))
                - Cardinality(Seen("v4") \cap Seen("v6"))
    BY <1>3, FS_Union
  <1>6. Cardinality(Seen("v4") \cap Seen("v6")) = 0
    BY <1>2, FS_EmptySet
  <1> QED
    BY <1>2, <1>4, <1>5, <1>6

LEMMA CountsHosts == ConfigTypeOK /\ Counts => HostsCounted
  <1> SUFFICES ASSUME ConfigTypeOK, Counts, pc = "host", ~HostsLeft
               PROVE  /\ \A f \in Families :
                            ifi.total[f] = Cardinality({a \in ifi.seen : FamilyOf[a] = f})
                      /\ ifi.hosts > 0 => ifi.minimumUp <= Cardinality(ifi.seen)
    BY DEF HostsCounted
  <1>1. \A f \in Families : ifi.total[f] = Cardinality(Seen(f))
    BY DEF Counts
  <1>2. ifi \in Interface
    BY DEF ConfigTypeOK
  <1>3. Cardinality(ifi.seen) = ifi.total["v4"] + ifi.total["v6"]
    BY <1>1, SeenOfFamilies DEF Families
  <1>4. ifi.total["v4"] + ifi.total["v6"] >= ifi.hosts
    BY <1>2, MaxHostsAssumption DEF HostsLeft, Interface, Families
  <1>5. ifi.hosts > 0 => ifi.minimumUp <= Cardinality(ifi.seen)
    BY <1>2, <1>3, <1>4, MaxHostsAssumption DEF Counts, Interface, Families
  <1> QED
    BY <1>1, <1>5 DEF Seen

-----------------------------------------------------------------------------
(* What the proofs rest on, and not only its parts: the settings of the    *)
(* levels hang together as Inherit left them, and an interface's counts    *)
(* are those of the addresses seen so far (config.go, interface.go,        *)
(* host.go).                                                               *)
THEOREM Invariance == Spec => []Inv
  <1>1. Init => Inv
    BY TypeInit, ChainInit, CountsInit, BoundsInit DEF Inv
  <1>2. Inv /\ [Next]_vars => Inv'
    BY TypeStep, ChainStep, CountsStep, BoundsStep DEF Inv
  <1> QED
    BY <1>1, <1>2, PTL DEF Spec

(* Every level has every setting, and an interface is read with all its    *)
(* parts, however many the file has (config.go:36-120).                    *)
THEOREM TypeCorrect == Spec => []ConfigTypeOK
  <1>1. Inv => ConfigTypeOK
    BY DEF Inv
  <1> QED
    BY <1>1, Invariance, PTL

(* The nearest level that gives a setting decides it (interface.go:90-114, *)
(* host.go:55-73), for any settings, interfaces and hosts.                 *)
THEOREM NearestLevelWins == Spec => []NearestWins
  <1>1. Inv => NearestWins
    BY ChainNearest DEF Inv
  <1> QED
    BY <1>1, Invariance, PTL

(* The totals of an accepted interface are the numbers of its addresses,   *)
(* and its minimum is not above them together (interface.go:86,122-138),   *)
(* for any number of hosts.                                                *)
THEOREM TotalsCountHosts == Spec => []HostsCounted
  <1>1. Inv => HostsCounted
    BY CountsHosts DEF Inv
  <1> QED
    BY <1>1, Invariance, PTL

(* A failed route is worse than any route of an available interface        *)
(* (interface.go:75-83, nexthop.go:78), whatever metrics the file may give.*)
THEOREM FailedRoutesAreWorse == Spec => []FailedIsWorse
  <1>1. Inv => FailedIsWorse
    BY DEF Inv, Bounds, InBounds, FailedIsWorse, ConfigTypeOK, Taken, MaxMetric
  <1> QED
    BY <1>1, Invariance, PTL
=============================================================================
