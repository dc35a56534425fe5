---------------------------- MODULE CsiMessages ----------------------------
(***************************************************************************)
(* The CSI v1 messages as the generated code csi.pb.go declares them: for  *)
(* every message type the numbers of its fields, for every field that      *)
(* holds a message the type of that message, and for every method the      *)
(* types of its input and its output.  proto.Unmarshal fills a struct from *)
(* nothing but these numbers and types.  Maps, scalars, enumerations and   *)
(* the well-known wrapper types are leaves.                                *)
(***************************************************************************)
EXTENDS Sequences, SequencesExt

-----------------------------------------------------------------------------
(* The message structs with at least one field, in the order of the file.  *)

GetPluginInfoResponse == [name |-> 1, vendor_version |-> 2, manifest |-> 3]
GetPluginCapabilitiesResponse == [capabilities |-> 1]
PluginCapability == [service |-> 1, volume_expansion |-> 2]
ProbeResponse == [ready |-> 1]
CreateVolumeRequest == [name |-> 1, capacity_range |-> 2,
                        volume_capabilities |-> 3, parameters |-> 4,
                        secrets |-> 5, volume_content_source |-> 6,
                        accessibility_requirements |-> 7]
VolumeContentSource == [snapshot |-> 1, volume |-> 2]
CreateVolumeResponse == [volume |-> 1]
VolumeCapability == [access_mode |-> 3, block |-> 1, mount |-> 2]
CapacityRange == [required_bytes |-> 1, limit_bytes |-> 2]
Volume == [capacity_bytes |-> 1, volume_id |-> 2, volume_context |-> 3,
           content_source |-> 4, accessible_topology |-> 5]
TopologyRequirement == [requisite |-> 1, preferred |-> 2]
Topology == [segments |-> 1]
DeleteVolumeRequest == [volume_id |-> 1, secrets |-> 2]
ControllerPublishVolumeRequest ==
  [volume_id |-> 1, node_id |-> 2, volume_capability |-> 3, readonly |-> 4,
   secrets |-> 5, volume_context |-> 6]
ControllerPublishVolumeResponse ==
  [publish_context |-> 1]
ControllerUnpublishVolumeRequest ==
  [volume_id |-> 1, node_id |-> 2, secrets |-> 3]
ValidateVolumeCapabilitiesRequest ==
  [volume_id |-> 1, volume_context |-> 2, volume_capabilities |-> 3,
   parameters |-> 4, secrets |-> 5]
ValidateVolumeCapabilitiesResponse ==
  [confirmed |-> 1, message |-> 2]
ListVolumesRequest == [max_entries |-> 1, starting_token |-> 2]
ListVolumesResponse == [entries |-> 1, next_token |-> 2]
ControllerGetVolumeRequest == [volume_id |-> 1]
ControllerGetVolumeResponse == [volume |-> 1, status |-> 2]
GetCapacityRequest == [volume_capabilities |-> 1, parameters |-> 2,
                       accessible_topology |-> 3]
GetCapacityResponse == [available_capacity |-> 1]
ControllerGetCapabilitiesResponse ==
  [capabilities |-> 1]
ControllerServiceCapability == [rpc |-> 1]
CreateSnapshotRequest == [source_volume_id |-> 1, name |-> 2,
                          secrets |-> 3, parameters |-> 4]
CreateSnapshotResponse == [snapshot |-> 1]
Snapshot == [size_bytes |-> 1, snapshot_id |-> 2, source_volume_id |-> 3,
             creation_time |-> 4, ready_to_use |-> 5]
DeleteSnapshotRequest == [snapshot_id |-> 1, secrets |-> 2]
ListSnapshotsRequest == [max_entries |-> 1, starting_token |-> 2,
                         source_volume_id |-> 3, snapshot_id |-> 4,
                         secrets |-> 5]
ListSnapshotsResponse == [entries |-> 1, next_token |-> 2]
ControllerExpandVolumeRequest == [volume_id |-> 1, capacity_range |-> 2,
                                  secrets |-> 3, volume_capability |-> 4]
ControllerExpandVolumeResponse ==
  [capacity_bytes |-> 1, node_expansion_required |-> 2]
NodeStageVolumeRequest == [volume_id |-> 1, publish_context |-> 2,
                           staging_target_path |-> 3,
                           volume_capability |-> 4, secrets |-> 5,
                           volume_context |-> 6]
NodeUnstageVolumeRequest == [volume_id |-> 1, staging_target_path |-> 2]
NodePublishVolumeRequest == [volume_id |-> 1, publish_context |-> 2,
                             staging_target_path |-> 3, target_path |-> 4,
                             volume_capability |-> 5, readonly |-> 6,
                             secrets |-> 7, volume_context |-> 8]
NodeUnpublishVolumeRequest == [volume_id |-> 1, target_path |-> 2]
NodeGetVolumeStatsRequest == [volume_id |-> 1, volume_path |-> 2,
                              staging_target_path |-> 3]
NodeGetVolumeStatsResponse == [usage |-> 1, volume_condition |-> 2]
VolumeUsage == [available |-> 1, total |-> 2, used |-> 3, unit |-> 4]
VolumeCondition == [abnormal |-> 1, message |-> 2]
NodeGetCapabilitiesResponse == [capabilities |-> 1]
NodeServiceCapability == [rpc |-> 1]
NodeGetInfoResponse == [node_id |-> 1, max_volumes_per_node |-> 2,
                        accessible_topology |-> 3]
NodeExpandVolumeRequest == [volume_id |-> 1, volume_path |-> 2,
                            capacity_range |-> 3,
                            staging_target_path |-> 4,
                            volume_capability |-> 5]
NodeExpandVolumeResponse == [capacity_bytes |-> 1]
PluginCapability_Service == [type |-> 1]
PluginCapability_VolumeExpansion ==
  [type |-> 1]
VolumeContentSource_SnapshotSource ==
  [snapshot_id |-> 1]
VolumeContentSource_VolumeSource ==
  [volume_id |-> 1]
VolumeCapability_MountVolume == [fs_type |-> 1, mount_flags |-> 2]
VolumeCapability_AccessMode == [mode |-> 1]
ValidateVolumeCapabilitiesResponse_Confirmed ==
  [volume_context |-> 1, volume_capabilities |-> 2, parameters |-> 3]
ListVolumesResponse_VolumeStatus ==
  [published_node_ids |-> 1, volume_condition |-> 2]
ListVolumesResponse_Entry == [volume |-> 1, status |-> 2]
ControllerGetVolumeResponse_VolumeStatus ==
  [published_node_ids |-> 1, volume_condition |-> 2]
ControllerServiceCapability_RPC ==
  [type |-> 1]
ListSnapshotsResponse_Entry == [snapshot |-> 1]
NodeServiceCapability_RPC == [type |-> 1]

-----------------------------------------------------------------------------
(* The table of the message types; a type without an entry has no fields.  *)
Schemas == [
   GetPluginInfoResponse |-> GetPluginInfoResponse,
   GetPluginCapabilitiesResponse |-> GetPluginCapabilitiesResponse,
   PluginCapability |-> PluginCapability, ProbeResponse |-> ProbeResponse,
   CreateVolumeRequest |-> CreateVolumeRequest,
   VolumeContentSource |-> VolumeContentSource,
   CreateVolumeResponse |-> CreateVolumeResponse,
   VolumeCapability |-> VolumeCapability, CapacityRange |-> CapacityRange,
   Volume |-> Volume, TopologyRequirement |-> TopologyRequirement,
   Topology |-> Topology, DeleteVolumeRequest |-> DeleteVolumeRequest,
   ControllerPublishVolumeRequest |-> ControllerPublishVolumeRequest,
   ControllerPublishVolumeResponse |-> ControllerPublishVolumeResponse,
   ControllerUnpublishVolumeRequest |-> ControllerUnpublishVolumeRequest,
   ValidateVolumeCapabilitiesRequest |-> ValidateVolumeCapabilitiesRequest,
   ValidateVolumeCapabilitiesResponse |-> ValidateVolumeCapabilitiesResponse,
   ListVolumesRequest |-> ListVolumesRequest,
   ListVolumesResponse |-> ListVolumesResponse,
   ControllerGetVolumeRequest |-> ControllerGetVolumeRequest,
   ControllerGetVolumeResponse |-> ControllerGetVolumeResponse,
   GetCapacityRequest |-> GetCapacityRequest,
   GetCapacityResponse |-> GetCapacityResponse,
   ControllerGetCapabilitiesResponse |-> ControllerGetCapabilitiesResponse,
   ControllerServiceCapability |-> ControllerServiceCapability,
   CreateSnapshotRequest |-> CreateSnapshotRequest,
   CreateSnapshotResponse |-> CreateSnapshotResponse, Snapshot |-> Snapshot,
   DeleteSnapshotRequest |-> DeleteSnapshotRequest,
   ListSnapshotsRequest |-> ListSnapshotsRequest,
   ListSnapshotsResponse |-> ListSnapshotsResponse,
   ControllerExpandVolumeRequest |-> ControllerExpandVolumeRequest,
   ControllerExpandVolumeResponse |-> ControllerExpandVolumeResponse,
   NodeStageVolumeRequest |-> NodeStageVolumeRequest,
   NodeUnstageVolumeRequest |-> NodeUnstageVolumeRequest,
   NodePublishVolumeRequest |-> NodePublishVolumeRequest,
   NodeUnpublishVolumeRequest |-> NodeUnpublishVolumeRequest,
   NodeGetVolumeStatsRequest |-> NodeGetVolumeStatsRequest,
   NodeGetVolumeStatsResponse |-> NodeGetVolumeStatsResponse,
   VolumeUsage |-> VolumeUsage, VolumeCondition |-> VolumeCondition,
   NodeGetCapabilitiesResponse |-> NodeGetCapabilitiesResponse,
   NodeServiceCapability |-> NodeServiceCapability,
   NodeGetInfoResponse |-> NodeGetInfoResponse,
   NodeExpandVolumeRequest |-> NodeExpandVolumeRequest,
   NodeExpandVolumeResponse |-> NodeExpandVolumeResponse,
   PluginCapability_Service |-> PluginCapability_Service,
   PluginCapability_VolumeExpansion |-> PluginCapability_VolumeExpansion,
   VolumeContentSource_SnapshotSource |-> VolumeContentSource_SnapshotSource,
   VolumeContentSource_VolumeSource |-> VolumeContentSource_VolumeSource,
   VolumeCapability_MountVolume |-> VolumeCapability_MountVolume,
   VolumeCapability_AccessMode |-> VolumeCapability_AccessMode,
   ValidateVolumeCapabilitiesResponse_Confirmed |-> ValidateVolumeCapabilitiesResponse_Confirmed,
   ListVolumesResponse_VolumeStatus |-> ListVolumesResponse_VolumeStatus,
   ListVolumesResponse_Entry |-> ListVolumesResponse_Entry,
   ControllerGetVolumeResponse_VolumeStatus |-> ControllerGetVolumeResponse_VolumeStatus,
   ControllerServiceCapability_RPC |-> ControllerServiceCapability_RPC,
   ListSnapshotsResponse_Entry |-> ListSnapshotsResponse_Entry,
   NodeServiceCapability_RPC |-> NodeServiceCapability_RPC]

(* The fields that hold a message, with its type (field type_name).        *)
FieldType == [
   GetPluginCapabilitiesResponse |-> [capabilities |-> "PluginCapability"],
   PluginCapability |-> [service |-> "PluginCapability_Service",
                          volume_expansion |-> "PluginCapability_VolumeExpansion"],
   CreateVolumeRequest |-> [capacity_range |-> "CapacityRange",
                             volume_capabilities |-> "VolumeCapability",
                             volume_content_source |-> "VolumeContentSource",
                             accessibility_requirements |-> "TopologyRequirement"],
   VolumeContentSource |-> [
                             snapshot |-> "VolumeContentSource_SnapshotSource",
                             volume |-> "VolumeContentSource_VolumeSource"],
   CreateVolumeResponse |-> [volume |-> "Volume"],
   VolumeCapability |-> [block |-> "VolumeCapability_BlockVolume",
                          mount |-> "VolumeCapability_MountVolume",
                          access_mode |-> "VolumeCapability_AccessMode"],
   Volume |-> [content_source |-> "VolumeContentSource",
                accessible_topology |-> "Topology"],
   TopologyRequirement |-> [requisite |-> "Topology",
                             preferred |-> "Topology"],
   ControllerPublishVolumeRequest |-> [
                                        volume_capability |-> "VolumeCapability"],
   ValidateVolumeCapabilitiesRequest |-> [
                                           volume_capabilities |-> "VolumeCapability"],
   ValidateVolumeCapabilitiesResponse |-> [
      confirmed |-> "ValidateVolumeCapabilitiesResponse_Confirmed"],
   ListVolumesResponse |-> [entries |-> "ListVolumesResponse_Entry"],
   ControllerGetVolumeResponse |-> [volume |-> "Volume",
                                     status |-> "ControllerGetVolumeResponse_VolumeStatus"],
   GetCapacityRequest |-> [volume_capabilities |-> "VolumeCapability",
                            accessible_topology |-> "Topology"],
   ControllerGetCapabilitiesResponse |-> [
                                           capabilities |-> "ControllerServiceCapability"],
   ControllerServiceCapability |-> [
                                     rpc |-> "ControllerServiceCapability_RPC"],
   CreateSnapshotResponse |-> [snapshot |-> "Snapshot"],
   ListSnapshotsResponse |-> [entries |-> "ListSnapshotsResponse_Entry"],
   ControllerExpandVolumeRequest |-> [capacity_range |-> "CapacityRange",
                                       volume_capability |-> "VolumeCapability"],
   NodeStageVolumeRequest |-> [volume_capability |-> "VolumeCapability"],
   NodePublishVolumeRequest |-> [volume_capability |-> "VolumeCapability"],
   NodeGetVolumeStatsResponse |-> [usage |-> "VolumeUsage",
                                    volume_condition |-> "VolumeCondition"],
   NodeGetCapabilitiesResponse |-> [
                                     capabilities |-> "NodeServiceCapability"],
   NodeServiceCapability |-> [rpc |-> "NodeServiceCapability_RPC"],
   NodeGetInfoResponse |-> [accessible_topology |-> "Topology"],
   NodeExpandVolumeRequest |-> [capacity_range |-> "CapacityRange",
                                 volume_capability |-> "VolumeCapability"],
   ValidateVolumeCapabilitiesResponse_Confirmed |-> [
      volume_capabilities |-> "VolumeCapability"],
   ListVolumesResponse_VolumeStatus |-> [
                                          volume_condition |-> "VolumeCondition"],
   ListVolumesResponse_Entry |-> [volume |-> "Volume",
                                   status |-> "ListVolumesResponse_VolumeStatus"],
   ControllerGetVolumeResponse_VolumeStatus |-> [
      volume_condition |-> "VolumeCondition"],
   ListSnapshotsResponse_Entry |-> [snapshot |-> "Snapshot"]]

(* A oneof holds one of its alternatives: when every oneof of a message    *)
(* takes its i-th one, these fields are there.                             *)
OneOf == [PluginCapability |-> <<"service", "volume_expansion">>,
          VolumeContentSource |-> <<"snapshot", "volume">>,
          VolumeCapability |-> <<"block", "mount">>]

(* The methods of the services, and the types of their messages.           *)
Methods == [
   Identity |-> {"GetPluginInfo", "GetPluginCapabilities", "Probe"},
   Controller |-> {"CreateVolume", "DeleteVolume", "ControllerPublishVolume",
      "ControllerUnpublishVolume", "ValidateVolumeCapabilities", "ListVolumes",
      "GetCapacity", "ControllerGetCapabilities", "CreateSnapshot",
      "DeleteSnapshot", "ListSnapshots", "ControllerExpandVolume",
      "ControllerGetVolume"},
   Node |-> {"NodeStageVolume", "NodeUnstageVolume", "NodePublishVolume",
      "NodeUnpublishVolume", "NodeGetVolumeStats", "NodeExpandVolume",
      "NodeGetCapabilities", "NodeGetInfo"}]

MethodInput(rpc) == rpc \o "Request"
MethodOutput(rpc) == rpc \o "Response"

-----------------------------------------------------------------------------
(* The protobuf library.  A message is the set of its leaves; a leaf is    *)
(* the path of field numbers that leads to it on the wire, and the path of *)
(* field names that leads to it in the struct.                             *)

(* No message nests deeper than ListVolumesResponse.entries.volume.        *)
(* content_source.snapshot.snapshot_id.                                    *)
MaxDepth == 5

TypeOf(t, f) ==
  IF t \in DOMAIN FieldType /\ f \in DOMAIN FieldType[t]
  THEN FieldType[t][f] ELSE "leaf"

Alternatives(t, f) ==
  {i \in {1, 2} : t \in DOMAIN OneOf /\ f \in Range(OneOf[t]) => OneOf[t][i] = f}

Expand(nodes) ==
  UNION {IF n.type \in DOMAIN Schemas
         THEN {[type |-> TypeOf(n.type, f),
                names |-> Append(n.names, f),
                nums |-> Append(n.nums, Schemas[n.type][f]),
                alts |-> n.alts \cap Alternatives(n.type, f)]
                 : f \in DOMAIN Schemas[n.type]}
         ELSE {n} : n \in nodes}

Rpcs == UNION {Methods[s] : s \in DOMAIN Methods}
MessageTypes == {MethodInput(r) : r \in Rpcs} \cup {MethodOutput(r) : r \in Rpcs}

Leaves ==
  [t \in MessageTypes |->
     FoldLeft(LAMBDA nodes, i : Expand(nodes),
              {[type |-> t, names |-> <<>>, nums |-> <<>>, alts |-> {1, 2}]},
              [i \in 1..MaxDepth |-> i])]

(* A message of type t with every field set, its i-th alternatives taken:  *)
(* what its sender puts into it, and what goes over the wire.              *)
Fields(t, i) == {l.names : l \in {k \in Leaves[t] : i \in k.alts}}
Marshal(t, i) == {l.nums : l \in {k \in Leaves[t] : i \in k.alts}}

(* Fields whose numbers the struct does not know stay unknown.             *)
Unmarshal(t, wire) == {l.names : l \in {k \in Leaves[t] : k.nums \in wire}}

============================================================================
