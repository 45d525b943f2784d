------------------------------- MODULE OpenAPI -------------------------------
(***************************************************************************)
(* The schema definitions the API server publishes, as openapi-gen wrote   *)
(* them: pkg/api/generated/openapi/zz_generated.openapi.go.  A definition  *)
(* is kept as the names of its plain fields, its fields that refer to      *)
(* another definition (or hold an array or a map of it), and its required  *)
(* fields; descriptions, formats and defaults are left out.  The           *)
(* Dependencies of a definition in the source are exactly the types its    *)
(* fields refer to.  Types are named without their package.                *)
(***************************************************************************)
EXTENDS Naturals, FiniteSets

\* A definition with properties, and one that is a single JSON value.
Schema(plain, refs, required) == [plain |-> plain, refs |-> refs, required |-> required]
Value == Schema({}, {}, {})

Quantity == Value
int64Amount == Schema({"value", "scale"}, {}, {"value", "scale"})
APIGroup ==
  Schema({"kind", "apiVersion", "name"},
         {<<"versions", "GroupVersionForDiscovery">>,
          <<"preferredVersion", "GroupVersionForDiscovery">>,
          <<"serverAddressByClientCIDRs", "ServerAddressByClientCIDR">>},
         {"name", "versions"})
APIGroupList == Schema({"kind", "apiVersion"}, {<<"groups", "APIGroup">>}, {"groups"})
APIResource ==
  Schema({"name", "singularName", "namespaced", "group", "version", "kind", "verbs",
          "shortNames", "categories", "storageVersionHash"}, {},
         {"name", "singularName", "namespaced", "kind", "verbs"})
APIResourceList ==
  Schema({"kind", "apiVersion", "groupVersion"}, {<<"resources", "APIResource">>},
         {"groupVersion", "resources"})
APIVersions ==
  Schema({"kind", "apiVersion", "versions"},
         {<<"serverAddressByClientCIDRs", "ServerAddressByClientCIDR">>},
         {"versions", "serverAddressByClientCIDRs"})
ApplyOptions ==
  Schema({"kind", "apiVersion", "dryRun", "force", "fieldManager"}, {},
         {"force", "fieldManager"})
Condition ==
  Schema({"type", "status", "observedGeneration", "reason", "message"},
         {<<"lastTransitionTime", "Time">>},
         {"type", "status", "lastTransitionTime", "reason", "message"})
CreateOptions ==
  Schema({"kind", "apiVersion", "dryRun", "fieldManager", "fieldValidation"}, {}, {})
DeleteOptions ==
  Schema({"kind", "apiVersion", "gracePeriodSeconds", "orphanDependents",
          "propagationPolicy", "dryRun"}, {<<"preconditions", "Preconditions">>}, {})
Duration == Value
FieldsV1 == Value
GetOptions == Schema({"kind", "apiVersion", "resourceVersion"}, {}, {})
GroupKind == Schema({"group", "kind"}, {}, {"group", "kind"})
GroupResource == Schema({"group", "resource"}, {}, {"group", "resource"})
GroupVersion == Schema({"group", "version"}, {}, {"group", "version"})
GroupVersionForDiscovery ==
  Schema({"groupVersion", "version"}, {}, {"groupVersion", "version"})
GroupVersionKind == Schema({"group", "version", "kind"}, {}, {"group", "version", "kind"})
GroupVersionResource ==
  Schema({"group", "version", "resource"}, {}, {"group", "version", "resource"})
InternalEvent == Schema({"Type"}, {<<"Object", "runtime.Object">>}, {"Type", "Object"})
LabelSelector ==
  Schema({"matchLabels"}, {<<"matchExpressions", "LabelSelectorRequirement">>}, {})
LabelSelectorRequirement == Schema({"key", "operator", "values"}, {}, {"key", "operator"})
List ==
  Schema({"kind", "apiVersion"},
         {<<"metadata", "ListMeta">>, <<"items", "runtime.RawExtension">>}, {"items"})
ListMeta ==
  Schema({"selfLink", "resourceVersion", "continue", "remainingItemCount"}, {}, {})
ListOptions ==
  Schema({"kind", "apiVersion", "labelSelector", "fieldSelector", "watch",
          "allowWatchBookmarks", "resourceVersion", "resourceVersionMatch", "timeoutSeconds",
          "limit", "continue", "sendInitialEvents"}, {}, {})
ManagedFieldsEntry ==
  Schema({"manager", "operation", "apiVersion", "fieldsType", "subresource"},
         {<<"time", "Time">>, <<"fieldsV1", "FieldsV1">>}, {})
MicroTime == Value
ObjectMeta ==
  Schema({"name", "generateName", "namespace", "selfLink", "uid", "resourceVersion",
          "generation", "deletionGracePeriodSeconds", "labels", "annotations", "finalizers"},
         {<<"creationTimestamp", "Time">>, <<"deletionTimestamp", "Time">>,
          <<"ownerReferences", "OwnerReference">>, <<"managedFields", "ManagedFieldsEntry">>},
         {})
OwnerReference ==
  Schema({"apiVersion", "kind", "name", "uid", "controller", "blockOwnerDeletion"}, {},
         {"apiVersion", "kind", "name", "uid"})
PartialObjectMetadata == Schema({"kind", "apiVersion"}, {<<"metadata", "ObjectMeta">>}, {})
PartialObjectMetadataList ==
  Schema({"kind", "apiVersion"},
         {<<"metadata", "ListMeta">>, <<"items", "PartialObjectMetadata">>}, {"items"})
Patch == Value
PatchOptions ==
  Schema({"kind", "apiVersion", "dryRun", "force", "fieldManager", "fieldValidation"}, {},
         {})
Preconditions == Schema({"uid", "resourceVersion"}, {}, {})
RootPaths == Schema({"paths"}, {}, {"paths"})
ServerAddressByClientCIDR ==
  Schema({"clientCIDR", "serverAddress"}, {}, {"clientCIDR", "serverAddress"})
Status ==
  Schema({"kind", "apiVersion", "status", "message", "reason", "code"},
         {<<"metadata", "ListMeta">>, <<"details", "StatusDetails">>}, {})
StatusCause == Schema({"reason", "message", "field"}, {}, {})
StatusDetails ==
  Schema({"name", "group", "kind", "uid", "retryAfterSeconds"},
         {<<"causes", "StatusCause">>}, {})
Table ==
  Schema({"kind", "apiVersion"},
         {<<"metadata", "ListMeta">>, <<"columnDefinitions", "TableColumnDefinition">>,
          <<"rows", "TableRow">>}, {"columnDefinitions", "rows"})
TableColumnDefinition ==
  Schema({"name", "type", "format", "description", "priority"}, {},
         {"name", "type", "format", "description", "priority"})
TableOptions == Schema({"kind", "apiVersion", "includeObject"}, {}, {})
TableRow ==
  Schema({"cells"},
         {<<"conditions", "TableRowCondition">>, <<"object", "runtime.RawExtension">>},
         {"cells"})
TableRowCondition == Schema({"type", "status", "reason", "message"}, {}, {"type", "status"})
Time == Value
Timestamp == Schema({"seconds", "nanos"}, {}, {"seconds", "nanos"})
TypeMeta == Schema({"kind", "apiVersion"}, {}, {})
UpdateOptions ==
  Schema({"kind", "apiVersion", "dryRun", "fieldManager", "fieldValidation"}, {}, {})
WatchEvent == Schema({"type"}, {<<"object", "runtime.RawExtension">>}, {"type", "object"})
Info ==
  Schema({"major", "minor", "gitVersion", "gitCommit", "gitTreeState", "buildDate",
          "goVersion", "compiler", "platform"}, {},
         {"major", "minor", "gitVersion", "gitCommit", "gitTreeState", "buildDate",
          "goVersion", "compiler", "platform"})
ContainerMetrics == Schema({"name"}, {<<"usage", "Quantity">>}, {"name", "usage"})
NodeMetrics ==
  Schema({"kind", "apiVersion"},
         {<<"metadata", "ObjectMeta">>, <<"timestamp", "Time">>, <<"window", "Duration">>,
          <<"usage", "Quantity">>}, {"timestamp", "window", "usage"})
NodeMetricsList ==
  Schema({"kind", "apiVersion"}, {<<"metadata", "ListMeta">>, <<"items", "NodeMetrics">>},
         {"items"})
PodMetrics ==
  Schema({"kind", "apiVersion"},
         {<<"metadata", "ObjectMeta">>, <<"timestamp", "Time">>, <<"window", "Duration">>,
          <<"containers", "ContainerMetrics">>}, {"timestamp", "window", "containers"})
PodMetricsList ==
  Schema({"kind", "apiVersion"}, {<<"metadata", "ListMeta">>, <<"items", "PodMetrics">>},
         {"items"})

\* The map from type names to definitions that the server's configuration is given.
GetOpenAPIDefinitions ==
  [Quantity |-> Quantity, int64Amount |-> int64Amount, APIGroup |-> APIGroup,
   APIGroupList |-> APIGroupList, APIResource |-> APIResource,
   APIResourceList |-> APIResourceList, APIVersions |-> APIVersions,
   ApplyOptions |-> ApplyOptions, Condition |-> Condition, CreateOptions |-> CreateOptions,
   DeleteOptions |-> DeleteOptions, Duration |-> Duration, FieldsV1 |-> FieldsV1,
   GetOptions |-> GetOptions, GroupKind |-> GroupKind, GroupResource |-> GroupResource,
   GroupVersion |-> GroupVersion, GroupVersionForDiscovery |-> GroupVersionForDiscovery,
   GroupVersionKind |-> GroupVersionKind, GroupVersionResource |-> GroupVersionResource,
   InternalEvent |-> InternalEvent, LabelSelector |-> LabelSelector,
   LabelSelectorRequirement |-> LabelSelectorRequirement, List |-> List,
   ListMeta |-> ListMeta, ListOptions |-> ListOptions,
   ManagedFieldsEntry |-> ManagedFieldsEntry, MicroTime |-> MicroTime,
   ObjectMeta |-> ObjectMeta, OwnerReference |-> OwnerReference,
   PartialObjectMetadata |-> PartialObjectMetadata,
   PartialObjectMetadataList |-> PartialObjectMetadataList, Patch |-> Patch,
   PatchOptions |-> PatchOptions, Preconditions |-> Preconditions, RootPaths |-> RootPaths,
   ServerAddressByClientCIDR |-> ServerAddressByClientCIDR, Status |-> Status,
   StatusCause |-> StatusCause, StatusDetails |-> StatusDetails, Table |-> Table,
   TableColumnDefinition |-> TableColumnDefinition, TableOptions |-> TableOptions,
   TableRow |-> TableRow, TableRowCondition |-> TableRowCondition, Time |-> Time,
   Timestamp |-> Timestamp, TypeMeta |-> TypeMeta, UpdateOptions |-> UpdateOptions,
   WatchEvent |-> WatchEvent, Info |-> Info, ContainerMetrics |-> ContainerMetrics,
   NodeMetrics |-> NodeMetrics, NodeMetricsList |-> NodeMetricsList,
   PodMetrics |-> PodMetrics, PodMetricsList |-> PodMetricsList]

Dependencies(d) == {ref[2] : ref \in d.refs}

\* external: what kube-openapi's builder does from a set of types.  It adds the
\* definition of each and of what that depends on, and stops with an error at the first
\* name without a definition: Reached(types) is every name it comes to ask for.
Reached(types) ==
  LET grow(s) == s \cup UNION {Dependencies(GetOpenAPIDefinitions[t]) :
                               t \in s \cap DOMAIN GetOpenAPIDefinitions}
      level[n \in 0 .. Cardinality(DOMAIN GetOpenAPIDefinitions)] ==
        IF n = 0 THEN types ELSE grow(level[n - 1])
  IN  level[Cardinality(DOMAIN GetOpenAPIDefinitions)]
=============================================================================
