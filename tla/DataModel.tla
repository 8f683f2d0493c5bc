----------------------------- MODULE DataModel -----------------------------
(***************************************************************************)
(* What the Matter stack makes of the generated data model: it keeps the   *)
(* attributes in one block of bytes, calls the clusters' functions, hands  *)
(* commands to their clusters and tells controllers what there is.  The    *)
(* tables point into each other by position, in four files; one position   *)
(* out of step, and an attribute overwrites its neighbour, or a controller *)
(* is offered what the device does not do.                                 *)
(***************************************************************************)
EXTENDS EndpointConfig, StaticConfig, FiniteSets, FiniteSetsExt

CONSTANT MaxWrites     \* bound on the writes to the attribute store

ASSUME MaxWritesAssumption == MaxWrites \in Nat

VARIABLES ram,      \* byte -> the attribute, byte of it and version it holds
          version,  \* attribute -> how often it was written
          reply     \* what the last request was answered

vars == <<ram, version, reply>>

-----------------------------------------------------------------------------
(* The tables, as the stack walks them *)

Endpoints == DOMAIN GENERATED_ENDPOINT_TYPES

\* The clusters of endpoint type e, by position.
ClustersOf(e) == LET type == GENERATED_ENDPOINT_TYPES[e]
                 IN  type[1] + 1 .. type[1] + type[2]

Places == UNION {{e} \X ClustersOf(e) : e \in Endpoints}

At(c) == GENERATED_CLUSTERS[c]

AttributesOf(c) == At(c).attributes + 1 .. At(c).attributes + At(c).attributeCount

NamesOf(c) == {GENERATED_ATTRIBUTES[a].name : a \in AttributesOf(c)}

\* A command list reaches from its index to the end mark.
List(index) ==
    IF index = None THEN {}
    ELSE LET Within(i) == \A j \in index + 1 .. i : GENERATED_COMMANDS[j] # End
         IN  {GENERATED_COMMANDS[i] :
                 i \in {n \in index + 1 .. Len(GENERATED_COMMANDS) : Within(n)}}

Accepted(c) == List(At(c).accepted)
Generated(c) == List(At(c).generated)

-----------------------------------------------------------------------------
(* The attribute store *)

SizeOf(a) == GENERATED_ATTRIBUTES[a].size

Slots == UNION {{<<p[1], p[2], a>> : a \in {b \in AttributesOf(p[2]) : SizeOf(b) > 0}} :
                   p \in Places}

\* The stack finds an attribute by adding up the sizes of what comes before it.
Address(slot) ==
    LET EndpointSize(e) == GENERATED_ENDPOINT_TYPES[e][3]
        ClusterSize(c) == At(c).clusterSize
    IN  MapThenSumSet(EndpointSize, 1 .. slot[1] - 1)
        + MapThenSumSet(ClusterSize, {c \in ClustersOf(slot[1]) : c < slot[2]})
        + MapThenSumSet(SizeOf, {a \in AttributesOf(slot[2]) : a < slot[3]})

AddressOf == [slot \in Slots |-> Address(slot)]

Holds(block, slot, v) == \A k \in 0 .. SizeOf(slot[3]) - 1 :
    /\ AddressOf[slot] + k \in DOMAIN block
    /\ block[AddressOf[slot] + k] = <<slot, k, v>>

Store(block, slot, v) ==
    LET first == AddressOf[slot]
    IN  [i \in DOMAIN block |->
            IF i \in first .. first + SizeOf(slot[3]) - 1
            THEN <<slot, i - first, v>> ELSE block[i]]

Defaults == [i \in 0 .. ATTRIBUTE_MAX_SIZE - 1 |->
    LET Here(slot) == i \in AddressOf[slot] .. AddressOf[slot] + SizeOf(slot[3]) - 1
        owner == CHOOSE slot \in Slots : Here(slot)
    IN  IF \E slot \in Slots : Here(slot) THEN <<owner, i - AddressOf[owner], 0>>
        ELSE << >>]

Idle == [op |-> "none"]

Init == /\ ram = Defaults
        /\ version = [slot \in Slots |-> 0]
        /\ reply = Idle

Writes == MapThenSumSet(LAMBDA slot : version[slot], Slots)

WriteAttribute(slot) ==
    /\ reply = Idle /\ Writes < MaxWrites
    /\ version' = [version EXCEPT ![slot] = @ + 1]
    /\ ram' = Store(ram, slot, version[slot] + 1)
    /\ UNCHANGED reply

-----------------------------------------------------------------------------
(* Functions of a cluster: found by counting the bits of the mask below *)

Events == <<"INIT", "ATTRIBUTE_CHANGED", "SHUTDOWN", "PRE_ATTRIBUTE_CHANGED">>

FunctionFor(c, i) ==
    At(c).functions[Cardinality({j \in 1 .. i : Events[j] \in At(c).mask})]

Notify(e, c, i) ==
    /\ reply = Idle
    /\ Events[i] \in At(c).mask
    /\ reply' = [op |-> "notify", event |-> <<At(c).name, Events[i]>>,
                 called |-> FunctionFor(c, i)]
    /\ UNCHANGED <<ram, version>>

-----------------------------------------------------------------------------
(* Commands *)

FanControl == {"Step"}
Groups == {"AddGroup", "ViewGroup", "GetGroupMembership", "RemoveGroup",
           "RemoveAllGroups", "AddGroupIfIdentifying"}
OnOff == {"Off", "On", "Toggle"}
Thermostat == {"SetpointRaiseLower"}
ThreadNetworkDiagnostics == {"ResetCounts"}

\* Mutant of Dispatchers: the dispatcher of the Thermostat is not regenerated.
DispatchersOld == [FanControl |-> FanControl, Groups |-> Groups, OnOff |-> OnOff,
                   ThreadNetworkDiagnostics |-> ThreadNetworkDiagnostics]

Dispatchers == [FanControl |-> FanControl, Groups |-> Groups, OnOff |-> OnOff,
                Thermostat |-> Thermostat,
                ThreadNetworkDiagnostics |-> ThreadNetworkDiagnostics]

DispatchSingleClusterCommand(cluster, command, decoded, handled) ==
    CASE cluster \notin DOMAIN Dispatchers -> "UnsupportedCluster"
      [] cluster \in DOMAIN Dispatchers /\ command \notin Dispatchers[cluster] ->
            "UnsupportedCommand"
      [] OTHER -> IF decoded /\ handled THEN "Success" ELSE "InvalidCommand"

\* Clusters that are objects of their own and take their commands themselves.
MatterClusterServerInitCallback ==
    {"Identify", "Descriptor", "Binding", "AccessControl", "BasicInformation",
     "GeneralCommissioning", "DiagnosticLogs", "GeneralDiagnostics",
     "SoftwareDiagnostics", "AdministratorCommissioning", "OperationalCredentials",
     "GroupKeyManagement"}

MatterClusterServerShutdownCallback ==
    {"Identify", "Descriptor", "Binding", "AccessControl", "BasicInformation",
     "GeneralCommissioning", "DiagnosticLogs", "GeneralDiagnostics",
     "SoftwareDiagnostics", "AdministratorCommissioning", "OperationalCredentials",
     "GroupKeyManagement"}

ServedElsewhere(cluster) ==
    cluster \in MatterClusterServerInitCallback \cup {"NetworkCommissioning"}

\* A controller invokes what the cluster's list offers.
Invoke(e, c, command, decoded, handled) ==
    /\ reply = Idle
    /\ command \in Accepted(c)
    /\ reply' = [op |-> "invoke", cluster |-> At(c).name, command |-> command,
                 good |-> decoded /\ handled,
                 status |->
                     IF ServedElsewhere(At(c).name) THEN "Success"
                     ELSE DispatchSingleClusterCommand(At(c).name, command,
                                                       decoded, handled)]
    /\ UNCHANGED <<ram, version>>

-----------------------------------------------------------------------------
(* What a controller learns about a cluster, and what is run for it at boot *)

emberAfClusterInitCallback ==
    {"AccessControl", "AdministratorCommissioning", "AirQuality", "BasicInformation",
     "Binding", "CarbonDioxideConcentrationMeasurement", "Descriptor",
     "DiagnosticLogs", "FanControl", "GeneralCommissioning", "GeneralDiagnostics",
     "GroupKeyManagement", "Groups", "Identify", "NetworkCommissioning", "OnOff",
     "OperationalCredentials", "RelativeHumidityMeasurement", "SoftwareDiagnostics",
     "TemperatureMeasurement", "Thermostat", "ThreadNetworkDiagnostics"}

\* app/cluster-callbacks.cpp, for the clusters with a static configuration.
AppClusterInitCallback ==
    emberAfClusterInitCallback \ {"OnOff", "TemperatureMeasurement"}
AppClusterShutdownCallback == AppClusterInitCallback

Describe(e, c) ==
    /\ reply = Idle
    /\ reply' = [op |-> "describe", place |-> <<e, c>>]
    /\ UNCHANGED <<ram, version>>

\* Requests are taken one at a time, by the Matter thread.
Done == /\ reply # Idle
        /\ reply' = Idle
        /\ UNCHANGED <<ram, version>>

Next == \/ Done
        \/ \E slot \in Slots : WriteAttribute(slot)
        \/ \E p \in Places, i \in DOMAIN Events : Notify(p[1], p[2], i)
        \/ \E p \in Places : \E command \in Accepted(p[2]), d, h \in BOOLEAN :
               Invoke(p[1], p[2], command, d, h)
        \/ \E p \in Places : Describe(p[1], p[2])

Spec == Init /\ [][Next]_vars

-----------------------------------------------------------------------------
(* Properties *)

\* Every attribute the store keeps reads as it was written last, whatever was
\* written to the others: the sizes of attributes, clusters and endpoints add up
\* and nobody's bytes overlap or lie outside the block.
ReadsBack == \A slot \in Slots : Holds(ram, slot, version[slot])

\* An event reaches the function its cluster has for it, although functions
\* are found by their position among the bits of the mask.
CallsItsOwn == reply.op = "notify" => reply.called = reply.event

\* A command that a cluster's list offers is carried out if its fields decode and
\* the cluster takes it, and refused as invalid otherwise: never as unknown.
OffersWhatItDoes == reply.op = "invoke" =>
    \/ reply.status = "Success" /\ (reply.good \/ ServedElsewhere(reply.cluster))
    \/ reply.status = "InvalidCommand" /\ ~reply.good

Counted(name, side, counts) ==
    Cardinality({p \in Places : At(p[2]).name = name /\ At(p[2]).side = side})
        = (IF name \in DOMAIN counts THEN counts[name] ELSE 0)

\* The static configuration of carbon dioxide does not know two attributes.
KnownGap(name) == IF name = "CarbonDioxideConcentrationMeasurement"
                  THEN {"MeasurementUnit", "MeasurementMedium"} ELSE {}

Agrees(c, config) ==
    /\ NamesOf(c) \ KnownGap(At(c).name) = config.attributes
    /\ Accepted(c) \cup Generated(c) = config.commands

\* Every attribute and command that access.h protects exists under its name, so
\* that no privilege is left on nothing, and no command the stack takes on the
\* commissioning clusters is left to whoever may operate the AC.
AccessIsOnSomething(c) ==
    LET name == At(c).name
        Rows(table) == IF name \in DOMAIN table THEN table[name] ELSE {}
        offered == UNION {Accepted(p[2]) : p \in {q \in Places : At(q[2]).name = name}}
    IN  /\ Rows(ACCESS_READ_ATTRIBUTE) \cup Rows(ACCESS_WRITE_ATTRIBUTE)
               \subseteq NamesOf(c)
        /\ Rows(ACCESS_INVOKE_COMMAND) \subseteq offered
        /\ name \in {"GeneralCommissioning", "NetworkCommissioning",
                     "AdministratorCommissioning", "OperationalCredentials",
                     "GroupKeyManagement"} =>
               Rows(ACCESS_INVOKE_COMMAND) = offered

\* The two descriptions of a cluster list the same attributes and commands, the
\* endpoint counts are right, a cluster that is set up is also shut down, and the
\* access rules are about what a controller finds there.
DescriptionsAgree == reply.op = "describe" =>
    LET e == reply.place[1]
        c == reply.place[2]
        name == At(c).name
    IN  /\ Counted(name, "server", SERVER_ENDPOINT_COUNT)
        /\ Counted(name, "client", CLIENT_ENDPOINT_COUNT)
        /\ name \in emberAfClusterInitCallback
        /\ name \in DOMAIN STATIC_CONFIG =>
               name \in AppClusterInitCallback \cap AppClusterShutdownCallback
        /\ name \in MatterClusterServerInitCallback
               <=> name \in MatterClusterServerShutdownCallback
        /\ At(c).side = "server" /\ name \in DOMAIN STATIC_CONFIG
           /\ e - 1 \in STATIC_CONFIG[name].endpoints => Agrees(c, STATIC_CONFIG[name])
        /\ At(c).side = "server" => AccessIsOnSomething(c)
=============================================================================
