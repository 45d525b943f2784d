------------------------------- MODULE Startup -------------------------------
(***************************************************************************)
(* The start of the process: runCommand (cmd/metrics-server/app/start.go)  *)
(* validates the options, builds the configuration, lets Config.Complete   *)
(* (pkg/server/config.go) construct every part of the server and runs it.  *)
(* Each constructor is a step that may fail, and the first failure ends    *)
(* the process.  The loop that RunUntil starts is in module Server.        *)
(***************************************************************************)
EXTENDS Options

CONSTANTS Resolutions, Timeouts,  \* the durations given as options
          BucketTimes             \* durations the bucket calculation is checked for

\* The code halves in floating point: the unit of time is one in which halves are exact.
HasHalves(t) == t % 2 = 0 /\ (t - Last(DefBuckets)) % 2 = 0

ASSUME StartupAssumption ==
  /\ Resolutions \subseteq -MaxInt64 .. MaxInt64 /\ Timeouts \subseteq -MaxInt64 .. MaxInt64
  /\ BucketTimes \subseteq 1 .. MaxInt64
  /\ \A t \in Resolutions \cup BucketTimes : Last(DefBuckets) < t => HasHalves(t)

API == INSTANCE OpenAPI

VARIABLES
  phase,    \* the step that runs next, "running" or "exited"
  exit,     \* why the process ended
  o,        \* the options
  rest,     \* the client configuration for the API server
  kubelet,  \* the client configuration for the kubelets
  parts     \* what Complete has constructed so far

startVars == <<phase, exit, o, rest, kubelet, parts>>

NodeSelectors == {"", "  ", "zone=a", "zone=="}  \* none, blank, valid and malformed
NoRest == [token |-> FALSE, tls |-> NoTLS]
NoKubelet == [scheme |-> None, token |-> FALSE, tls |-> NoTLS]
NoParts == [scraperSelector |-> None, apiSelector |-> None, scrapeTimeout |-> 0,
            storeResolution |-> 0, buckets |-> <<>>, metrics |-> {}, readyz |-> {}, livez |-> {},
            healthz |-> {}]

StartInit ==
  /\ phase = "runCommand" /\ exit = None
  /\ o \in Options(Resolutions, Timeouts, NodeSelectors)
  /\ rest = NoRest /\ kubelet = NoKubelet /\ parts = NoParts

Goes(from, to) == phase = from /\ phase' = to /\ exit' = exit

Exits(from, reason) ==
  phase = from /\ phase' = "exited" /\ exit' = reason /\ UNCHANGED <<o, rest, kubelet, parts>>

-----------------------------------------------------------------------------
(* runCommand, which reports the first error, and Options.ServerConfig *)

RunCommand ==
  \/ o.showVersion /\ Exits("runCommand", "version")
  \/ /\ ~o.showVersion /\ Failing(Validate(o)) # {}
     /\ Exits("runCommand", Validate(o)[Min(Failing(Validate(o)))][2])
  \/ ~o.showVersion /\ Failing(Validate(o)) = {} /\ Exits("runCommand", "logging")
  \/ /\ ~o.showVersion /\ Failing(Validate(o)) = {}
     /\ Goes("runCommand", "ApiserverConfig") /\ UNCHANGED <<o, rest, kubelet, parts>>

ApiserverConfig ==
  \/ Exits("ApiserverConfig", "apiserver")
  \/ Goes("ApiserverConfig", "restConfig") /\ UNCHANGED <<o, rest, kubelet, parts>>

ServerConfig ==
  \/ Exits("restConfig", "rest")
  \/ /\ Goes("restConfig", "informers")
     /\ rest' \in RestConfigs(o) /\ kubelet' = KubeletConfig(o.kubelet, rest')
     /\ UNCHANGED <<o, parts>>

-----------------------------------------------------------------------------
(* Config.Complete *)

\* runningPodMetadataInformer, then informerFactory: clients of the API server.
Informers ==
  \/ Exits("informers", "lister client")
  \/ /\ ~TransportRefuses(rest)
     /\ Goes("informers", "NewForConfig") /\ UNCHANGED <<o, rest, kubelet, parts>>

\* A file that cannot be read fails here too.
NewForConfig ==
  \/ TransportRefuses(kubelet) /\ Exits("NewForConfig", "verification off with an authority")
  \/ /\ File("flag") \in {kubelet.tls.ca, kubelet.tls.cert, kubelet.tls.key}
     /\ Exits("NewForConfig", "unreadable file")
  \/ /\ ~TransportRefuses(kubelet)
     /\ Goes("NewForConfig", "NewScraper") /\ UNCHANGED <<o, rest, kubelet, parts>>

\* strings.TrimSpace, then labels.ParseToRequirements: no requirement selects every node.
TrimSpace(s) == IF s = "  " THEN "" ELSE s
Requirement ==
  LET ns == TrimSpace(o.kubelet.nodeSelector) IN IF ns = "" THEN "every node" ELSE ns

NewScraper ==
  \/ Requirement = "zone==" /\ Exits("NewScraper", "selector")
  \/ /\ Requirement # "zone=="
     /\ Goes("NewScraper", "metricsHandler")
     /\ parts' = [parts EXCEPT !.scraperSelector = Requirement,
                              !.scrapeTimeout = o.kubelet.timeout]
     /\ UNCHANGED <<o, rest, kubelet>>

RegisterServerMetrics == {"tickDuration"}
RegisterScraperMetrics == {"requestDuration", "requestTotal", "lastRequestTime"}
RegisterAPIMetrics == {"metricFreshness"}
RegisterStorageMetrics == {"pointsStored"}
RegisterMetrics ==
  RegisterServerMetrics \cup RegisterScraperMetrics \cup RegisterAPIMetrics
    \cup RegisterStorageMetrics

\* The registry is new, so that no name in it is taken.
MetricsHandler ==
  /\ Goes("metricsHandler", "New")
  /\ parts' = [parts EXCEPT !.metrics = RegisterMetrics,
                           !.buckets = BucketsForScrapeDuration(o.resolution)]
  /\ UNCHANGED <<o, rest, kubelet>>

New ==
  \/ Exits("New", "generic server")
  \/ Goes("New", "Install") /\ UNCHANGED <<o, rest, kubelet, parts>>

\* Mutant of RouteModels: the storages offer a watch as well.
WatchableModels ==
  {"NodeMetrics", "NodeMetricsList", "PodMetrics", "PodMetricsList", "WatchEvent"}

\* The types a resource's routes produce, by the interfaces its storage implements:
\* Getter and Lister for both resources, no Watcher.
RouteModels == {"NodeMetrics", "NodeMetricsList", "PodMetrics", "PodMetricsList"}
\* external: the routes of the generic API server, discovery and version.
GenericModels == {"APIGroup", "APIGroupList", "APIResourceList", "Info"}

InstalledTypes == API!Reached(RouteModels)
PublishedTypes == API!Reached(RouteModels \cup GenericModels)
Defined == DOMAIN API!GetOpenAPIDefinitions

Install ==
  IF InstalledTypes \subseteq Defined
  THEN /\ Goes("Install", "RegisterProbes")
       /\ parts' = [parts EXCEPT !.apiSelector = Requirement,
                                !.storeResolution = o.resolution]
       /\ UNCHANGED <<o, rest, kubelet>>
  ELSE Exits("Install", "openapi")

\* A health check is a live and a ready check as well.
RegisterProbes ==
  /\ Goes("RegisterProbes", "PrepareRun")
  /\ parts' = [parts EXCEPT
       !.readyz = @ \cup {"metric-storage-ready", "metric-informer-sync", "metadata-informer-sync"},
       !.livez = @ \cup {"metric-collection-timely", "metadata-informer-sync"},
       !.healthz = @ \cup {"metadata-informer-sync"}]
  /\ UNCHANGED <<o, rest, kubelet>>

\* RunUntil: the generic server publishes its schema and serves.
PrepareRun ==
  IF PublishedTypes \subseteq Defined
  THEN Goes("PrepareRun", "running") /\ UNCHANGED <<o, rest, kubelet, parts>>
  ELSE Exits("PrepareRun", "openapi")

StartNext ==
  \/ RunCommand \/ ApiserverConfig \/ ServerConfig
  \/ Informers \/ NewForConfig \/ NewScraper \/ MetricsHandler \/ New \/ Install
  \/ RegisterProbes \/ PrepareRun

StartSpec == StartInit /\ [][StartNext]_startVars

-----------------------------------------------------------------------------
(* Properties *)

\* A process that serves has the times its parts rely on: a request to a kubelet may take
\* at most nine tenths of the resolution of the store, in exact arithmetic although the
\* validation multiplies in int64 and wraps for resolutions above about 32 years.
TimesAreSound ==
  phase = "running" =>
    /\ parts.storeResolution >= MinResolution
    /\ parts.scrapeTimeout > 0
    /\ 10 * parts.scrapeTimeout <= 9 * parts.storeResolution

\* Kubelets are addressed as the options and the kubeconfig together say.  The client
\* certificate and the key come from one place: a certificate of the kubeconfig is never
\* sent with the key of an option.  An option that names an authority, or turns the
\* verification or the encryption off, is heeded and leaves nothing of the kubeconfig
\* that contradicts it: the transport refuses the result of validated options only when
\* an authority is named although the kubeconfig turns the verification off.
ConnectionAsConfigured ==
  kubelet # NoKubelet =>
    LET cert == Effective(kubelet.tls.cert) IN
    /\ cert = Effective(kubelet.tls.key)
    /\ o.kubelet.certFile => cert = "flag"
    /\ o.kubelet.caFile => Effective(kubelet.tls.ca) = "flag"
    /\ kubelet.scheme = "http" => ~kubelet.token /\ kubelet.tls = NoTLS
    /\ kubelet.scheme = "https" =>
         kubelet.tls.insecure = (o.kubelet.insecureTLS \/ rest.tls.insecure)
    /\ TransportRefuses(kubelet) => o.kubelet.caFile /\ rest.tls.insecure

\* Building the published schema never stops the start: every type the routes reach has
\* a generated definition (not all types in the generated map do), and each definition
\* reached requires only fields it has.
SchemaBuilds ==
  /\ exit # "openapi"
  /\ \A t \in PublishedTypes \cap Defined :
       LET d == API!GetOpenAPIDefinitions[t] IN
       d.required \subseteq d.plain \cup {ref[1] : ref \in d.refs}

\* Strictly increasing, with a bucket close to t.
BucketsAround(buckets, t) ==
  /\ \A i \in 2 .. Len(buckets) : buckets[i - 1] < buckets[i]
  /\ \E i \in 1 .. Len(buckets) : buckets[i] \in t - DefBuckets[1] .. t + DefBuckets[1]

\* The buckets of the tick histogram are strictly increasing, which the client library
\* demands, and one lies within the smallest default bucket of the expected duration
\* (pkg/utils/monitoring.go), for the resolutions given and for durations on and next to
\* every boundary.
BucketsPinpointResolution ==
  /\ parts.buckets # <<>> => BucketsAround(parts.buckets, o.resolution)
  /\ \A t \in BucketTimes : BucketsAround(BucketsForScrapeDuration(t), t)
=============================================================================
