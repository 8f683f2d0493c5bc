--------------------------- MODULE EndpointConfig ---------------------------
(***************************************************************************)
(* The tables ZAP generates for the attribute store of the Matter stack    *)
(* (zap-generated/endpoint_config.h, gen_config.h and access.h): the       *)
(* attributes, commands and clusters of the four endpoints, how they point *)
(* into each other, and what the stack allocates for them.  Ids stand for  *)
(* themselves as names (one spelling: ACL, not Acl); types, defaults and access flags are left out.     *)
(***************************************************************************)
EXTENDS Integers, Sequences

None == -1

-----------------------------------------------------------------------------
(* Attributes, in the order of the table: those whose cluster keeps the    *)
(* value itself, and those the attribute store holds, with their size.     *)

External(names) == [i \in DOMAIN names |-> [name |-> names[i], size |-> 0]]
Stored(sized) ==
    [i \in DOMAIN sized |-> [name |-> sized[i][1], size |-> sized[i][2]]]

DescriptorAttributes0 ==
    External(<<"DeviceTypeList", "ServerList", "ClientList", "PartsList",
               "FeatureMap", "ClusterRevision">>)

AccessControlAttributes0 ==
    External(<<"ACL", "Extension", "SubjectsPerAccessControlEntry",
               "TargetsPerAccessControlEntry",
               "AccessControlEntriesPerFabric", "FeatureMap",
               "ClusterRevision">>)

BasicInformationAttributes0 ==
    External(<<"DataModelRevision", "VendorName", "VendorID", "ProductName",
               "ProductID", "NodeLabel", "Location", "HardwareVersion",
               "HardwareVersionString", "SoftwareVersion",
               "SoftwareVersionString", "ManufacturingDate", "SerialNumber",
               "UniqueID", "CapabilityMinima", "SpecificationVersion",
               "MaxPathsPerInvoke", "FeatureMap", "ClusterRevision">>)

GeneralCommissioningAttributes0 ==
    External(<<"Breadcrumb", "BasicCommissioningInfo", "RegulatoryConfig",
               "LocationCapability", "SupportsConcurrentConnection",
               "FeatureMap", "ClusterRevision">>)

NetworkCommissioningAttributes0 ==
    External(<<"MaxNetworks", "Networks", "ScanMaxTimeSeconds",
               "ConnectMaxTimeSeconds", "InterfaceEnabled",
               "LastNetworkingStatus", "LastNetworkID",
               "LastConnectErrorValue", "SupportedWiFiBands",
               "SupportedThreadFeatures", "ThreadVersion", "FeatureMap",
               "ClusterRevision">>)

DiagnosticLogsAttributes0 ==
    External(<<"FeatureMap", "ClusterRevision">>)

GeneralDiagnosticsAttributes0 ==
    External(<<"NetworkInterfaces", "RebootCount", "UpTime",
               "TotalOperationalHours", "BootReason",
               "TestEventTriggersEnabled", "FeatureMap", "ClusterRevision">>)

SoftwareDiagnosticsAttributes0 ==
    External(<<"CurrentHeapFree", "CurrentHeapUsed", "FeatureMap",
               "ClusterRevision">>)

ThreadNetworkDiagnosticsAttributes0 ==
    External(<<"Channel", "RoutingRole", "NetworkName", "PanId",
               "ExtendedPanId", "MeshLocalPrefix", "OverrunCount",
               "NeighborTable", "RouteTable", "PartitionId", "Weighting",
               "DataVersion", "StableDataVersion", "LeaderRouterId",
               "DetachedRoleCount", "ChildRoleCount", "RouterRoleCount",
               "LeaderRoleCount", "AttachAttemptCount",
               "PartitionIdChangeCount", "BetterPartitionAttachAttemptCount",
               "ParentChangeCount", "TxTotalCount", "TxUnicastCount",
               "TxBroadcastCount", "TxAckRequestedCount", "TxAckedCount",
               "TxNoAckRequestedCount", "TxDataCount", "TxDataPollCount",
               "TxBeaconCount", "TxBeaconRequestCount", "TxOtherCount",
               "TxRetryCount", "TxDirectMaxRetryExpiryCount",
               "TxIndirectMaxRetryExpiryCount", "TxErrCcaCount",
               "TxErrAbortCount", "TxErrBusyChannelCount", "RxTotalCount",
               "RxUnicastCount", "RxBroadcastCount", "RxDataCount",
               "RxDataPollCount", "RxBeaconCount", "RxBeaconRequestCount",
               "RxOtherCount", "RxAddressFilteredCount",
               "RxDestAddrFilteredCount", "RxDuplicatedCount",
               "RxErrNoFrameCount", "RxErrUnknownNeighborCount",
               "RxErrInvalidSrcAddrCount", "RxErrSecCount", "RxErrFcsCount",
               "RxErrOtherCount", "ActiveTimestamp", "PendingTimestamp",
               "Delay", "SecurityPolicy", "ChannelPage0Mask",
               "OperationalDatasetComponents", "ActiveNetworkFaultsList">>)
    \o Stored(<<<<"FeatureMap", 4>>>>)
    \o External(<<"ClusterRevision">>)

AdministratorCommissioningAttributes0 ==
    External(<<"WindowStatus", "AdminFabricIndex", "AdminVendorId">>)
    \o Stored(<<<<"FeatureMap", 4>>>>)
    \o External(<<"ClusterRevision">>)

OperationalCredentialsAttributes0 ==
    External(<<"NOCs", "Fabrics", "SupportedFabrics", "CommissionedFabrics",
               "TrustedRootCertificates", "CurrentFabricIndex", "FeatureMap",
               "ClusterRevision">>)

GroupKeyManagementAttributes0 ==
    External(<<"GroupKeyMap", "GroupTable", "MaxGroupsPerFabric",
               "MaxGroupKeysPerFabric", "FeatureMap", "ClusterRevision">>)

IdentifyAttributes1 ==
    External(<<"IdentifyTime", "IdentifyType", "FeatureMap", "ClusterRevision">>)

GroupsAttributes1 ==
    Stored(<<<<"NameSupport", 1>>, <<"FeatureMap", 4>>,
             <<"ClusterRevision", 2>>>>)

OnOffAttributes1 ==
    Stored(<<<<"OnOff", 1>>, <<"GlobalSceneControl", 1>>, <<"OnTime", 2>>,
             <<"OffWaitTime", 2>>, <<"StartUpOnOff", 1>>, <<"FeatureMap", 4>>,
             <<"ClusterRevision", 2>>>>)

DescriptorAttributes1 ==
    External(<<"DeviceTypeList", "ServerList", "ClientList", "PartsList",
               "FeatureMap", "ClusterRevision">>)

BindingAttributes1 ==
    External(<<"Binding", "FeatureMap", "ClusterRevision">>)

ThermostatAttributes1 ==
    Stored(<<<<"LocalTemperature", 2>>, <<"OutdoorTemperature", 2>>,
             <<"AbsMinHeatSetpointLimit", 2>>,
             <<"AbsMaxHeatSetpointLimit", 2>>,
             <<"AbsMinCoolSetpointLimit", 2>>,
             <<"AbsMaxCoolSetpointLimit", 2>>,
             <<"OccupiedCoolingSetpoint", 2>>,
             <<"OccupiedHeatingSetpoint", 2>>, <<"MinHeatSetpointLimit", 2>>,
             <<"MaxHeatSetpointLimit", 2>>, <<"MinCoolSetpointLimit", 2>>,
             <<"MaxCoolSetpointLimit", 2>>, <<"MinSetpointDeadBand", 1>>,
             <<"ControlSequenceOfOperation", 1>>, <<"SystemMode", 1>>,
             <<"FeatureMap", 4>>>>)
    \o External(<<"ClusterRevision">>)

FanControlAttributes1 ==
    Stored(<<<<"FanMode", 1>>, <<"FanModeSequence", 1>>,
             <<"PercentSetting", 1>>, <<"PercentCurrent", 1>>,
             <<"SpeedMax", 1>>, <<"SpeedSetting", 1>>, <<"SpeedCurrent", 1>>,
             <<"RockSupport", 1>>, <<"RockSetting", 1>>, <<"WindSupport", 1>>,
             <<"WindSetting", 1>>, <<"AirflowDirection", 1>>,
             <<"FeatureMap", 4>>, <<"ClusterRevision", 2>>>>)

IdentifyAttributes2 ==
    External(<<"IdentifyTime", "IdentifyType", "FeatureMap", "ClusterRevision">>)

DescriptorAttributes2 ==
    External(<<"DeviceTypeList", "ServerList", "ClientList", "PartsList",
               "FeatureMap", "ClusterRevision">>)

RelativeHumidityMeasurementAttributes2 ==
    Stored(<<<<"MeasuredValue", 2>>, <<"MinMeasuredValue", 2>>,
             <<"MaxMeasuredValue", 2>>, <<"Tolerance", 2>>,
             <<"FeatureMap", 4>>, <<"ClusterRevision", 2>>>>)

IdentifyAttributes3 ==
    External(<<"IdentifyTime", "IdentifyType", "FeatureMap", "ClusterRevision">>)

DescriptorAttributes3 ==
    External(<<"DeviceTypeList", "ServerList", "ClientList", "PartsList",
               "FeatureMap", "ClusterRevision">>)

AirQualityAttributes3 ==
    External(<<"AirQuality", "FeatureMap">>)
    \o Stored(<<<<"ClusterRevision", 2>>>>)

CarbonDioxideConcentrationMeasurementAttributes3 ==
    External(<<"MeasuredValue", "MinMeasuredValue", "MaxMeasuredValue",
               "MeasurementUnit", "MeasurementMedium", "FeatureMap">>)
    \o Stored(<<<<"ClusterRevision", 2>>>>)

GENERATED_ATTRIBUTES ==
    DescriptorAttributes0 \o AccessControlAttributes0
    \o BasicInformationAttributes0 \o GeneralCommissioningAttributes0
    \o NetworkCommissioningAttributes0 \o DiagnosticLogsAttributes0
    \o GeneralDiagnosticsAttributes0 \o SoftwareDiagnosticsAttributes0
    \o ThreadNetworkDiagnosticsAttributes0
    \o AdministratorCommissioningAttributes0
    \o OperationalCredentialsAttributes0 \o GroupKeyManagementAttributes0
    \o IdentifyAttributes1 \o GroupsAttributes1 \o OnOffAttributes1
    \o DescriptorAttributes1 \o BindingAttributes1 \o ThermostatAttributes1
    \o FanControlAttributes1 \o IdentifyAttributes2 \o DescriptorAttributes2
    \o RelativeHumidityMeasurementAttributes2 \o IdentifyAttributes3
    \o DescriptorAttributes3 \o AirQualityAttributes3
    \o CarbonDioxideConcentrationMeasurementAttributes3

-----------------------------------------------------------------------------
(* Commands: one list after another, each with an end mark *)

End == "end of list"

GENERATED_COMMANDS == <<
    "ArmFailSafe", "SetRegulatoryConfig", "CommissioningComplete", End,
    "ArmFailSafeResponse", "SetRegulatoryConfigResponse",
    "CommissioningCompleteResponse", End, "ScanNetworks",
    "AddOrUpdateWiFiNetwork", "AddOrUpdateThreadNetwork", "RemoveNetwork",
    "ConnectNetwork", "ReorderNetwork", End, "ScanNetworksResponse",
    "NetworkConfigResponse", "ConnectNetworkResponse", End,
    "RetrieveLogsRequest", End, "RetrieveLogsResponse", End,
    "TestEventTrigger", "TimeSnapshot", End, "TimeSnapshotResponse", End,
    "ResetCounts", End, "OpenCommissioningWindow",
    "OpenBasicCommissioningWindow", "RevokeCommissioning", End,
    "AttestationRequest", "CertificateChainRequest", "CSRRequest", "AddNOC",
    "UpdateNOC", "UpdateFabricLabel", "RemoveFabric",
    "AddTrustedRootCertificate", End, "AttestationResponse",
    "CertificateChainResponse", "CSRResponse", "NOCResponse", End,
    "KeySetWrite", "KeySetRead", "KeySetRemove", "KeySetReadAllIndices", End,
    "KeySetReadResponse", "KeySetReadAllIndicesResponse", End, "Identify",
    End, "AddGroup", "ViewGroup", "GetGroupMembership", "RemoveGroup",
    "RemoveAllGroups", "AddGroupIfIdentifying", End, "AddGroupResponse",
    "ViewGroupResponse", "GetGroupMembershipResponse", "RemoveGroupResponse",
    End, "Off", "On", "Toggle", End, "SetpointRaiseLower", End, "Step", End,
    "Identify", "TriggerEffect", End, "Identify", End>>

-----------------------------------------------------------------------------
(* Clusters: where their attributes and command lists begin, how many bytes *)
(* they take, and which functions the stack calls for which events          *)

Server == "server"
Client == "client"

Cluster(name, side, attributes, count, size, accepted, generated) ==
    [name |-> name, side |-> side, attributes |-> attributes,
     attributeCount |-> count, clusterSize |-> size,
     accepted |-> accepted, generated |-> generated,
     mask |-> {}, functions |-> << >>]

\* chipFuncArray...: the callback of which cluster for which event.
GroupsFunctions == << <<"Groups", "INIT">> >>
OnOffFunctions == << <<"OnOff", "INIT">>, <<"OnOff", "SHUTDOWN">> >>
\* Mutant of ThermostatFunctions: the check before a change is put in its place
\* in time, not in the order of the mask.
ThermostatFunctionsSorted == <<
    <<"Thermostat", "INIT">>, <<"Thermostat", "PRE_ATTRIBUTE_CHANGED">>,
    <<"Thermostat", "ATTRIBUTE_CHANGED">>, <<"Thermostat", "SHUTDOWN">> >>

ThermostatFunctions == <<
    <<"Thermostat", "INIT">>, <<"Thermostat", "ATTRIBUTE_CHANGED">>,
    <<"Thermostat", "SHUTDOWN">>, <<"Thermostat", "PRE_ATTRIBUTE_CHANGED">> >>
FanControlFunctions == <<
    <<"FanControl", "ATTRIBUTE_CHANGED">>, <<"FanControl", "PRE_ATTRIBUTE_CHANGED">> >>

Calling(cluster, mask, functions) ==
    [cluster EXCEPT !.mask = mask, !.functions = functions]

Clusters0 == <<
    Cluster("Descriptor", Server, 0, 6, 0, None, None),
    Cluster("AccessControl", Server, 6, 7, 0, None, None),
    Cluster("BasicInformation", Server, 13, 19, 0, None, None),
    Cluster("GeneralCommissioning", Server, 32, 7, 0, 0, 4),
    Cluster("NetworkCommissioning", Server, 39, 13, 0, 8, 15),
    Cluster("DiagnosticLogs", Server, 52, 2, 0, 19, 21),
    Cluster("GeneralDiagnostics", Server, 54, 8, 0, 23, 26),
    Cluster("SoftwareDiagnostics", Server, 62, 4, 0, None, None),
    Cluster("ThreadNetworkDiagnostics", Server, 66, 65, 4, 28, None),
    Cluster("AdministratorCommissioning", Server, 131, 5, 4, 30, None),
    Cluster("OperationalCredentials", Server, 136, 8, 0, 34, 43),
    Cluster("GroupKeyManagement", Server, 144, 6, 0, 48, 53)>>

Clusters1 == <<
    Cluster("Identify", Client, 150, 0, 0, None, None),
    Cluster("Identify", Server, 150, 4, 0, 56, None),
    Calling(Cluster("Groups", Server, 154, 3, 7, 58, 65),
            {"INIT"}, GroupsFunctions),
    Calling(Cluster("OnOff", Server, 157, 7, 13, 70, None),
            {"INIT", "SHUTDOWN"}, OnOffFunctions),
    Cluster("Descriptor", Server, 164, 6, 0, None, None),
    Cluster("Binding", Server, 170, 3, 0, None, None),
    Calling(Cluster("Thermostat", Server, 173, 17, 31, 74, None),
            {"INIT", "ATTRIBUTE_CHANGED", "SHUTDOWN", "PRE_ATTRIBUTE_CHANGED"},
            ThermostatFunctions),
    Calling(Cluster("FanControl", Server, 190, 14, 18, 76, None),
            {"ATTRIBUTE_CHANGED", "PRE_ATTRIBUTE_CHANGED"},
            FanControlFunctions),
    Cluster("TemperatureMeasurement", Client, 204, 0, 0, None, None)>>

Clusters2 == <<
    Cluster("Identify", Server, 204, 4, 0, 78, None),
    Cluster("Descriptor", Server, 208, 6, 0, None, None),
    Cluster("RelativeHumidityMeasurement", Server, 214, 6, 14, None, None)>>

Clusters3 == <<
    Cluster("Identify", Server, 220, 4, 0, 81, None),
    Cluster("Descriptor", Server, 224, 6, 0, None, None),
    Cluster("AirQuality", Server, 230, 3, 2, None, None),
    Cluster("CarbonDioxideConcentrationMeasurement", Server, 233, 7, 2, None, None)>>

GENERATED_CLUSTERS == Clusters0 \o Clusters1 \o Clusters2 \o Clusters3

\* Mutant of GENERATED_ENDPOINT_TYPES: a byte too few for endpoint 1.
EndpointTypesShort ==
    << <<0, 12, 8>>, <<12, 9, 68>>, <<21, 3, 14>>, <<24, 4, 4>> >>

\* First cluster, number of clusters and bytes of attributes of each endpoint.
GENERATED_ENDPOINT_TYPES ==
    << <<0, 12, 8>>, <<12, 9, 69>>, <<21, 3, 14>>, <<24, 4, 4>> >>

ATTRIBUTE_MAX_SIZE == 95

-----------------------------------------------------------------------------
(* gen_config.h: on how many endpoints a cluster is; 0 for all it does not name *)

SERVER_ENDPOINT_COUNT ==
    [Identify |-> 3, Groups |-> 1, OnOff |-> 1, Descriptor |-> 4, Binding |-> 1,
     AccessControl |-> 1, BasicInformation |-> 1, GeneralCommissioning |-> 1,
     NetworkCommissioning |-> 1, DiagnosticLogs |-> 1, GeneralDiagnostics |-> 1,
     SoftwareDiagnostics |-> 1, ThreadNetworkDiagnostics |-> 1,
     AdministratorCommissioning |-> 1, OperationalCredentials |-> 1,
     GroupKeyManagement |-> 1, AirQuality |-> 1, Thermostat |-> 1, FanControl |-> 1,
     RelativeHumidityMeasurement |-> 1, CarbonDioxideConcentrationMeasurement |-> 1]

CLIENT_ENDPOINT_COUNT == [Identify |-> 1, TemperatureMeasurement |-> 1]

-----------------------------------------------------------------------------
(* access.h: the rows of its parallel arrays; what no row names needs only *)
(* the privilege to view or to operate                                     *)

ACCESS_READ_ATTRIBUTE ==
    [AccessControl |-> {"ACL", "Extension"},
     NetworkCommissioning |->
         {"MaxNetworks", "Networks", "LastNetworkingStatus", "LastNetworkID",
          "LastConnectErrorValue"},
     OperationalCredentials |-> {"NOCs"}]

ACCESS_WRITE_ATTRIBUTE ==
    [OnOff |-> {"StartUpOnOff"}, Binding |-> {"Binding"},
     AccessControl |-> {"ACL", "Extension"},
     BasicInformation |-> {"NodeLabel", "Location"},
     GeneralCommissioning |-> {"Breadcrumb"},
     NetworkCommissioning |-> {"InterfaceEnabled"},
     GroupKeyManagement |-> {"GroupKeyMap"},
     Thermostat |->
         {"MinHeatSetpointLimit", "MaxHeatSetpointLimit", "MinCoolSetpointLimit",
          "MaxCoolSetpointLimit", "MinSetpointDeadBand",
          "ControlSequenceOfOperation", "SystemMode"}]

ACCESS_INVOKE_COMMAND ==
    [Identify |-> {"Identify", "TriggerEffect"},
     Groups |->
         {"AddGroup", "RemoveGroup", "RemoveAllGroups", "AddGroupIfIdentifying"},
     GeneralCommissioning |->
         {"ArmFailSafe", "SetRegulatoryConfig", "CommissioningComplete"},
     NetworkCommissioning |->
         {"ScanNetworks", "AddOrUpdateWiFiNetwork", "AddOrUpdateThreadNetwork",
          "RemoveNetwork", "ConnectNetwork", "ReorderNetwork"},
     GeneralDiagnostics |-> {"TestEventTrigger"},
     ThreadNetworkDiagnostics |-> {"ResetCounts"},
     AdministratorCommissioning |->
         {"OpenCommissioningWindow", "OpenBasicCommissioningWindow",
          "RevokeCommissioning"},
     OperationalCredentials |->
         {"AttestationRequest", "CertificateChainRequest", "CSRRequest", "AddNOC",
          "UpdateNOC", "UpdateFabricLabel", "RemoveFabric",
          "AddTrustedRootCertificate"},
     GroupKeyManagement |->
         {"KeySetWrite", "KeySetRead", "KeySetRemove", "KeySetReadAllIndices"}]
=============================================================================
