---------------------------- MODULE StaticConfig ----------------------------
(***************************************************************************)
(* The second description of the data model, for clusters that are C++     *)
(* objects (zap-generated/app/static-cluster-config): which attributes,    *)
(* commands and features a cluster has on which endpoints.  The attributes *)
(* that list the others are left out, as endpoint_config.h does.           *)
(***************************************************************************)

Config(endpoints, featureMap, attributes, commands) ==
    [endpoints |-> endpoints, featureMap |-> featureMap,
     attributes |-> attributes, commands |-> commands]

AccessControlConfig == Config({0}, 1,
    {"AccessControlEntriesPerFabric", "ACL", "ClusterRevision", "Extension",
     "FeatureMap", "SubjectsPerAccessControlEntry",
     "TargetsPerAccessControlEntry"},
    {})

AdministratorCommissioningConfig == Config({0}, 1,
    {"AdminFabricIndex", "AdminVendorId", "ClusterRevision", "FeatureMap",
     "WindowStatus"},
    {"OpenBasicCommissioningWindow", "OpenCommissioningWindow",
     "RevokeCommissioning"})

AirQualityConfig == Config({3}, 0,
    {"AirQuality", "ClusterRevision", "FeatureMap"},
    {})

BasicInformationConfig == Config({0}, 0,
    {"CapabilityMinima", "ClusterRevision", "DataModelRevision", "FeatureMap",
     "HardwareVersion", "HardwareVersionString", "Location",
     "ManufacturingDate", "MaxPathsPerInvoke", "NodeLabel", "ProductID",
     "ProductName", "SerialNumber", "SoftwareVersion",
     "SoftwareVersionString", "SpecificationVersion", "UniqueID", "VendorID",
     "VendorName"},
    {})

BindingConfig == Config({1}, 0,
    {"Binding", "ClusterRevision", "FeatureMap"},
    {})

CarbonDioxideConcentrationMeasurementConfig == Config({3}, 0,
    {"ClusterRevision", "FeatureMap", "MaxMeasuredValue", "MeasuredValue",
     "MinMeasuredValue"},
    {})

DescriptorConfig == Config({0, 1, 2, 3}, 0,
    {"ClientList", "ClusterRevision", "DeviceTypeList", "FeatureMap",
     "PartsList", "ServerList"},
    {})

DiagnosticLogsConfig == Config({0}, 0,
    {"ClusterRevision", "FeatureMap"},
    {"RetrieveLogsRequest", "RetrieveLogsResponse"})

FanControlConfig == Config({1}, 63,
    {"AirflowDirection", "ClusterRevision", "FanMode", "FanModeSequence",
     "FeatureMap", "PercentCurrent", "PercentSetting", "RockSetting",
     "RockSupport", "SpeedCurrent", "SpeedMax", "SpeedSetting", "WindSetting",
     "WindSupport"},
    {"Step"})

GeneralCommissioningConfig == Config({0}, 0,
    {"BasicCommissioningInfo", "Breadcrumb", "ClusterRevision", "FeatureMap",
     "LocationCapability", "RegulatoryConfig", "SupportsConcurrentConnection"},
    {"ArmFailSafe", "ArmFailSafeResponse", "CommissioningComplete",
     "CommissioningCompleteResponse", "SetRegulatoryConfig",
     "SetRegulatoryConfigResponse"})

GeneralDiagnosticsConfig == Config({0}, 0,
    {"BootReason", "ClusterRevision", "FeatureMap", "NetworkInterfaces",
     "RebootCount", "TestEventTriggersEnabled", "TotalOperationalHours",
     "UpTime"},
    {"TestEventTrigger", "TimeSnapshot", "TimeSnapshotResponse"})

GroupKeyManagementConfig == Config({0}, 0,
    {"ClusterRevision", "FeatureMap", "GroupKeyMap", "GroupTable",
     "MaxGroupKeysPerFabric", "MaxGroupsPerFabric"},
    {"KeySetRead", "KeySetReadAllIndices", "KeySetReadAllIndicesResponse",
     "KeySetReadResponse", "KeySetRemove", "KeySetWrite"})

GroupsConfig == Config({1}, 0,
    {"ClusterRevision", "FeatureMap", "NameSupport"},
    {"AddGroup", "AddGroupIfIdentifying", "AddGroupResponse",
     "GetGroupMembership", "GetGroupMembershipResponse", "RemoveAllGroups",
     "RemoveGroup", "RemoveGroupResponse", "ViewGroup", "ViewGroupResponse"})

IdentifyConfig == Config({1}, 0,
    {"ClusterRevision", "FeatureMap", "IdentifyTime", "IdentifyType"},
    {"Identify"})

NetworkCommissioningConfig == Config({0}, 2,
    {"ClusterRevision", "ConnectMaxTimeSeconds", "FeatureMap",
     "InterfaceEnabled", "LastConnectErrorValue", "LastNetworkID",
     "LastNetworkingStatus", "MaxNetworks", "Networks", "ScanMaxTimeSeconds",
     "SupportedThreadFeatures", "SupportedWiFiBands", "ThreadVersion"},
    {"AddOrUpdateThreadNetwork", "AddOrUpdateWiFiNetwork", "ConnectNetwork",
     "ConnectNetworkResponse", "NetworkConfigResponse", "RemoveNetwork",
     "ReorderNetwork", "ScanNetworks", "ScanNetworksResponse"})

OperationalCredentialsConfig == Config({0}, 0,
    {"ClusterRevision", "CommissionedFabrics", "CurrentFabricIndex",
     "Fabrics", "FeatureMap", "NOCs", "SupportedFabrics",
     "TrustedRootCertificates"},
    {"AddNOC", "AddTrustedRootCertificate", "AttestationRequest",
     "AttestationResponse", "CertificateChainRequest",
     "CertificateChainResponse", "CSRRequest", "CSRResponse", "NOCResponse",
     "RemoveFabric", "UpdateFabricLabel", "UpdateNOC"})

RelativeHumidityMeasurementConfig == Config({2}, 0,
    {"ClusterRevision", "FeatureMap", "MaxMeasuredValue", "MeasuredValue",
     "MinMeasuredValue", "Tolerance"},
    {})

\* Mutant of SoftwareDiagnosticsConfig: an attribute enabled in the table only.
SoftwareDiagnosticsOld == Config({0}, 0,
    {"ClusterRevision", "CurrentHeapFree", "FeatureMap"},
    {})

SoftwareDiagnosticsConfig == Config({0}, 0,
    {"ClusterRevision", "CurrentHeapFree", "CurrentHeapUsed", "FeatureMap"},
    {})

ThermostatConfig == Config({1}, 35,
    {"AbsMaxCoolSetpointLimit", "AbsMaxHeatSetpointLimit",
     "AbsMinCoolSetpointLimit", "AbsMinHeatSetpointLimit", "ClusterRevision",
     "ControlSequenceOfOperation", "FeatureMap", "LocalTemperature",
     "MaxCoolSetpointLimit", "MaxHeatSetpointLimit", "MinCoolSetpointLimit",
     "MinHeatSetpointLimit", "MinSetpointDeadBand", "OccupiedCoolingSetpoint",
     "OccupiedHeatingSetpoint", "OutdoorTemperature", "SystemMode"},
    {"SetpointRaiseLower"})

ThreadNetworkDiagnosticsConfig == Config({0}, 15,
    {"ActiveNetworkFaultsList", "ActiveTimestamp", "AttachAttemptCount",
     "BetterPartitionAttachAttemptCount", "Channel", "ChannelPage0Mask",
     "ChildRoleCount", "ClusterRevision", "DataVersion", "Delay",
     "DetachedRoleCount", "ExtendedPanId", "FeatureMap", "LeaderRoleCount",
     "LeaderRouterId", "MeshLocalPrefix", "NeighborTable", "NetworkName",
     "OperationalDatasetComponents", "OverrunCount", "PanId",
     "ParentChangeCount", "PartitionId", "PartitionIdChangeCount",
     "PendingTimestamp", "RouterRoleCount", "RouteTable", "RoutingRole",
     "RxAddressFilteredCount", "RxBeaconCount", "RxBeaconRequestCount",
     "RxBroadcastCount", "RxDataCount", "RxDataPollCount",
     "RxDestAddrFilteredCount", "RxDuplicatedCount", "RxErrFcsCount",
     "RxErrInvalidSrcAddrCount", "RxErrNoFrameCount", "RxErrOtherCount",
     "RxErrSecCount", "RxErrUnknownNeighborCount", "RxOtherCount",
     "RxTotalCount", "RxUnicastCount", "SecurityPolicy", "StableDataVersion",
     "TxAckedCount", "TxAckRequestedCount", "TxBeaconCount",
     "TxBeaconRequestCount", "TxBroadcastCount", "TxDataCount",
     "TxDataPollCount", "TxDirectMaxRetryExpiryCount", "TxErrAbortCount",
     "TxErrBusyChannelCount", "TxErrCcaCount",
     "TxIndirectMaxRetryExpiryCount", "TxNoAckRequestedCount", "TxOtherCount",
     "TxRetryCount", "TxTotalCount", "TxUnicastCount", "Weighting"},
    {"ResetCounts"})

STATIC_CONFIG ==
    [AccessControl |-> AccessControlConfig,
     AdministratorCommissioning |-> AdministratorCommissioningConfig,
     AirQuality |-> AirQualityConfig,
     BasicInformation |-> BasicInformationConfig,
     Binding |-> BindingConfig,
     CarbonDioxideConcentrationMeasurement |->
         CarbonDioxideConcentrationMeasurementConfig,
     Descriptor |-> DescriptorConfig,
     DiagnosticLogs |-> DiagnosticLogsConfig,
     FanControl |-> FanControlConfig,
     GeneralCommissioning |-> GeneralCommissioningConfig,
     GeneralDiagnostics |-> GeneralDiagnosticsConfig,
     GroupKeyManagement |-> GroupKeyManagementConfig,
     Groups |-> GroupsConfig,
     Identify |-> IdentifyConfig,
     NetworkCommissioning |-> NetworkCommissioningConfig,
     OperationalCredentials |-> OperationalCredentialsConfig,
     RelativeHumidityMeasurement |-> RelativeHumidityMeasurementConfig,
     SoftwareDiagnostics |-> SoftwareDiagnosticsConfig,
     Thermostat |-> ThermostatConfig,
     ThreadNetworkDiagnostics |-> ThreadNetworkDiagnosticsConfig]
=============================================================================
