---------------------------- MODULE ConfigParse ----------------------------
(***************************************************************************)
(* Parse (internal/config): a configuration file is read top down, its     *)
(* interfaces in order, the hosts of each before the interface itself is   *)
(* taken, and the first thing that is wrong refuses the file.  What the    *)
(* file says is chosen as it is read.                                      *)
(*                                                                         *)
(* A setting of three levels (burst_size, burst_interval, icmp_interval,   *)
(* icmp_timeout) is bad when it is out of its range or no duration; its    *)
(* value stands for the level it was given at.  Addresses are taken after  *)
(* net.ParseIP, so two spellings of one address are one.                   *)
(***************************************************************************)
EXTENDS Integers, FiniteSets

CONSTANTS
    Settings,       \* the settings of a file, an interface and a host
    Actions,        \* up_action and down_action, of a file and an interface
    InterfaceNames, \* the names a file may use
    Addresses,      \* addresses of hosts
    FamilyOf,       \* the family of each
    MaxInterfaces,  \* bound on the interfaces of a file
    MaxHosts,       \* bound on the hosts of an interface
    TableInputs,    \* what a file may say of a table, ...
    MetricInputs,   \* ... of a metric ...
    MinimumInputs,  \* ... and of minimum_up
    TableMax        \* TABLE_MAX, 4294967295 in the code

ASSUME AddressFamilyAssumption == FamilyOf \in [Addresses -> {"v4", "v6"}]
ASSUME FiniteAddressesAssumption == IsFiniteSet(Addresses)
ASSUME MaxHostsAssumption == MaxHosts \in Nat
ASSUME MaxInterfacesAssumption == MaxInterfaces \in Nat
ASSUME TableAssumption == TableInputs \subseteq Int /\ TableMax \in Nat
ASSUME MetricAssumption == MetricInputs \subseteq Int
ASSUME MinimumAssumption == MinimumInputs \subseteq Int

Families == {"v4", "v6"}
AllSettings == Settings \cup Actions
Levels == {"default", "file", "interface", "host"}

Unset == -1     \* a key that is not in the file
MaxMetric == 65534
ReservedTables == {254, 255}

VARIABLES
    pc,         \* what is read next, or how it ended
    given,      \* what each level says of each setting
    settings,   \* what each level's settings are
    ifi,        \* the interface that is read
    host,       \* the host read last, or "none"
    interfaces  \* those taken, without their hosts

vars == <<pc, given, settings, ifi, host, interfaces>>

Taken == [name : InterfaceNames, table : Nat, metric : Nat]

Interface == [taken : Taken, minimumUp : Nat, hosts : 0 .. MaxHosts,
              seen : SUBSET Addresses, total : [Families -> 0 .. MaxHosts]]

ConfigTypeOK ==
    /\ pc \in {"file", "interface", "host", "accepted", "refused"}
    /\ given \in [Levels \ {"default"} -> [AllSettings -> {"unset", "bad", "set"}]]
    /\ settings \in [Levels -> [AllSettings -> Levels]]
    /\ pc = "host" => ifi \in Interface
    /\ host \in Addresses \cup {"none"}
    /\ interfaces \in SUBSET Taken

NothingGiven == [s \in AllSettings |-> "unset"]

Init ==
    /\ pc = "file"
    /\ given = [l \in Levels \ {"default"} |-> NothingGiven]
    /\ settings = [l \in Levels |-> [s \in AllSettings |-> "default"]]
    /\ ifi = "none"
    /\ host = "none"
    /\ interfaces = {}

Refuse ==
    /\ pc' = "refused"
    /\ UNCHANGED <<given, settings, ifi, host, interfaces>>

-----------------------------------------------------------------------------
(* An action is any text, and a host has none.                             *)
Says(level) ==
    {g \in [AllSettings -> {"unset", "bad", "set"}] :
        \A a \in Actions : g[a] # "bad" /\ (level = "host" => g[a] = "unset")}

NoneBad(g) == \A s \in AllSettings : g[s] # "bad"

(* Mutant: what is unset is taken from the file.                           *)
InheritFile(g, parent, level) ==
    [s \in AllSettings |-> IF g[s] = "set" THEN level ELSE settings["file"][s]]

(* What is unset is taken from the level above.                            *)
Inherit(g, parent, level) ==
    [s \in AllSettings |-> IF g[s] = "set" THEN level ELSE settings[parent][s]]

Take(g, parent, level) ==
    /\ given' = [given EXCEPT ![level] = g]
    /\ settings' = [settings EXCEPT ![level] = Inherit(g, parent, level)]

(* The settings of the file.                                               *)
ReadFile ==
    /\ pc = "file"
    /\ \E g \in Says("file") :
        \/ ~NoneBad(g) /\ Refuse
        \/ /\ NoneBad(g)
           /\ Take(g, "default", "file")
           /\ pc' = "interface"
           /\ UNCHANGED <<ifi, host, interfaces>>

TableOK(t) == t \in 1 .. TableMax /\ t \notin ReservedTables

(* Mutant: the metric has no upper bound.                                  *)
MetricAny(metric, table) == metric >= 1 /\ table # Unset

MetricOK(metric, table) == metric \in 1 .. 32764 /\ table # Unset

(* The hosts are those of the file, whatever family.                       *)
MinimumOK(minimum, hosts) == minimum \in 1 .. hosts

(* Mutant: what is unset stays so.                                         *)
OrUnset(value, default) == value

Or(value, default) == IF value = Unset THEN default ELSE value

(* parseInterface up to its hosts.                                         *)
ReadInterface(name, table, metric, minimum, hosts) ==
    /\ pc = "interface"
    /\ Cardinality(interfaces) < MaxInterfaces
    /\ LET ok == /\ table # Unset => TableOK(table)
                 /\ metric # Unset => MetricOK(metric, table)
                 /\ minimum # Unset => MinimumOK(minimum, hosts)
       IN  \/ ~ok /\ Refuse
           \/ \E g \in Says("interface") :
                \/ ok /\ ~NoneBad(g) /\ Refuse
                \/ /\ ok /\ NoneBad(g)
                   /\ Take(g, "file", "interface")
                   /\ ifi' = [taken |-> [name |-> name, table |-> Or(table, 0),
                                         metric |-> Or(metric, 0)],
                              minimumUp |-> Or(minimum, 1),
                              hosts |-> hosts, seen |-> {},
                              total |-> [f \in Families |-> 0]]
                   /\ pc' = "host"
                   /\ UNCHANGED <<host, interfaces>>

HostsLeft == ifi.total["v4"] + ifi.total["v6"] < ifi.hosts

Counted(a) == [ifi EXCEPT !.seen = @ \cup {a}, !.total[FamilyOf[a]] = @ + 1]

(* Mutant: addresses may appear again.                                     *)
ReadHostAgain(a) ==
    /\ pc = "host"
    /\ HostsLeft
    /\ \E g \in Says("host") :
        /\ NoneBad(g)
        /\ Take(g, "interface", "host")
        /\ host' = a
        /\ ifi' = Counted(a)
        /\ UNCHANGED <<pc, interfaces>>

(* parseHost, and the address, which must be new to the interface.         *)
ReadHost(a) ==
    /\ pc = "host"
    /\ HostsLeft
    /\ \E g \in Says("host") :
        \/ (~NoneBad(g) \/ a \in ifi.seen) /\ Refuse
        \/ /\ NoneBad(g)
           /\ a \notin ifi.seen
           /\ Take(g, "interface", "host")
           /\ host' = a
           /\ ifi' = Counted(a)
           /\ UNCHANGED <<pc, interfaces>>

(* What net.ParseIP does not take for an address.                          *)
ReadNoAddress ==
    /\ pc = "host"
    /\ HostsLeft
    /\ Refuse

(* The interface is taken, unless one of its name was.                     *)
TakeInterface ==
    /\ pc = "host"
    /\ ~HostsLeft
    /\ \/ /\ \E i \in interfaces : i.name = ifi.taken.name
          /\ Refuse
       \/ /\ \A i \in interfaces : i.name # ifi.taken.name
          /\ interfaces' = interfaces \cup {ifi.taken}
          /\ given' = [given EXCEPT !["interface"] = NothingGiven,
                                    !["host"] = NothingGiven]
          /\ settings' = [settings EXCEPT !["interface"] = settings["file"],
                                          !["host"] = settings["file"]]
          /\ ifi' = "none"
          /\ host' = "none"
          /\ pc' = "interface"

EndOfFile ==
    /\ pc = "interface"
    /\ pc' = IF interfaces = {} THEN "refused" ELSE "accepted"
    /\ UNCHANGED <<given, settings, ifi, host, interfaces>>

Next ==
    \/ ReadFile
    \/ \E n \in InterfaceNames, t \in TableInputs, m \in MetricInputs,
          u \in MinimumInputs, k \in 0 .. MaxHosts : ReadInterface(n, t, m, u, k)
    \/ \E a \in Addresses : ReadHost(a)
    \/ ReadNoAddress
    \/ TakeInterface
    \/ EndOfFile

Spec == Init /\ [][Next]_vars

-----------------------------------------------------------------------------
Rank == [file |-> 1, interface |-> 2, host |-> 3]

(* A setting of a level is the one given there, or else the one of the     *)
(* nearest level above that gives it, or else the default, whatever was    *)
(* read before of other interfaces and hosts (host.go:55-73,               *)
(* interface.go:90-114, config.go:101-118).                                *)
NearestWins ==
    \A l \in DOMAIN Rank, s \in AllSettings :
        (l = "interface" => pc = "host") /\ (l = "host" => host # "none") =>
            LET set == {k \in DOMAIN Rank : Rank[k] <= Rank[l] /\ given[k][s] = "set"}
            IN  IF set = {} THEN settings[l][s] = "default"
                ELSE /\ settings[l][s] \in set
                     /\ \A k \in set : Rank[k] <= Rank[settings[l][s]]

(* The totals by which counters are clamped are the numbers of the         *)
(* interface's different addresses (interface.go:122-138), as              *)
(* HostSession!TotalCountsHosts takes for granted, and an interface with   *)
(* hosts has no minimum that all of them together cannot meet.             *)
HostsCounted ==
    pc = "host" /\ ~HostsLeft =>
        /\ \A f \in Families :
              ifi.total[f] = Cardinality({a \in ifi.seen : FamilyOf[a] = f})
        /\ ifi.hosts > 0 => ifi.minimumUp <= Cardinality(ifi.seen)

(* A route that was failed, of whatever interface, is never preferred to   *)
(* one of an interface that is available, not even when a metric is unset  *)
(* (nexthop.go:78,108,111; interface.go:75-83).                            *)
FailedIsWorse ==
    \A i, j \in interfaces : i.metric < MaxMetric + j.metric
=============================================================================
