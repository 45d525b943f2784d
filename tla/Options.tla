------------------------------- MODULE Options -------------------------------
(***************************************************************************)
(* The command line options of metrics-server: their validation and the    *)
(* configurations built from them (cmd/metrics-server/app/options), with   *)
(* the duration buckets of pkg/utils/monitoring.go.  Durations are int64,  *)
(* and their arithmetic wraps.  A file option is a BOOLEAN: it is given or *)
(* it is empty.                                                            *)
(***************************************************************************)
EXTENDS Integers, Sequences, SequencesExt

CONSTANTS MaxInt64,       \* the largest value of a time.Duration
          MinResolution,  \* 10 seconds
          DefBuckets      \* the default histogram buckets, as durations

ASSUME OptionsAssumption ==
  /\ MaxInt64 \in Nat /\ MinResolution \in 1 .. MaxInt64
  /\ DefBuckets \in Seq(Nat) /\ Len(DefBuckets) > 0 /\ DefBuckets[1] > 0
  /\ \A i \in 2 .. Len(DefBuckets) : DefBuckets[i - 1] < DefBuckets[i]

-----------------------------------------------------------------------------
(* Options and their validation *)

KubeletClientOptions(timeouts, selectors) ==
  [timeout : timeouts, nodeSelector : selectors, insecureTLS : BOOLEAN, caFile : BOOLEAN,
   certFile : BOOLEAN, keyFile : BOOLEAN, completelyInsecure : BOOLEAN]

Options(resolutions, timeouts, selectors) ==
  [resolution : resolutions, kubelet : KubeletClientOptions(timeouts, selectors),
   kubeconfig : BOOLEAN, showVersion : BOOLEAN]

\* int64 multiplication keeps the low bits; integer division truncates towards zero.
Wrap(x) == ((x + MaxInt64 + 1) % (2 * (MaxInt64 + 1))) - (MaxInt64 + 1)
Quotient(x, d) == IF x >= 0 THEN x \div d ELSE -((-x) \div d)

\* Each rule with the condition under which it is an error, in the order of the errors.
KubeletValidate(k) ==
  << <<k.caFile /\ k.insecureTLS, "ca with insecure-tls">>,
     <<k.keyFile # k.certFile, "key without certificate">>,
     <<k.keyFile /\ k.completelyInsecure, "key with completely-insecure">>,
     <<k.certFile /\ k.completelyInsecure, "certificate with completely-insecure">>,
     <<k.insecureTLS /\ k.completelyInsecure, "insecure-tls with completely-insecure">>,
     <<k.caFile /\ k.completelyInsecure, "ca with completely-insecure">>,
     <<k.timeout <= 0, "timeout not positive">> >>

\* Mutant of OptionsValidate: the timeout may take the whole resolution.
OptionsValidateWhole(o) ==
  << <<o.resolution < MinResolution, "resolution below 10s">>,
     <<o.resolution < o.kubelet.timeout, "timeout above resolution">> >>

OptionsValidate(o) ==
  << <<o.resolution < MinResolution, "resolution below 10s">>,
     <<Quotient(Wrap(o.resolution * 9), 10) < o.kubelet.timeout, "timeout above resolution">> >>

Validate(o) == KubeletValidate(o.kubelet) \o OptionsValidate(o)

Failing(rules) == {i \in DOMAIN rules : rules[i][1]}

-----------------------------------------------------------------------------
(* The client configuration for the kubelets.  Certificates and keys have a *)
(* data and a file form, each naming where it comes from: the client        *)
(* configuration ("rest") or an option ("flag").                            *)

None == "none"
Nothing == [data |-> None, file |-> None]
File(source) == [data |-> None, file |-> source]
NoTLS == [insecure |-> FALSE, ca |-> Nothing, cert |-> Nothing, key |-> Nothing]

Forms == [data : {None, "rest"}, file : {None, "rest"}]

\* external: what clientcmd or the service account of the pod supplies.  A certificate
\* comes with its key, and no authority with verification turned off.
KubeconfigConfigs ==
  {rest \in [token : BOOLEAN, tls : [insecure : BOOLEAN, ca : Forms, cert : Forms, key : Forms]] :
     rest.tls.key = rest.tls.cert /\ (rest.tls.insecure => rest.tls.ca = Nothing)}
InClusterConfigs ==
  {rest \in KubeconfigConfigs :
     /\ rest.token /\ ~rest.tls.insecure /\ rest.tls.cert = Nothing
     /\ rest.tls.ca \in {Nothing, File("rest")}}

RestConfigs(o) == IF o.kubeconfig THEN KubeconfigConfigs ELSE InClusterConfigs

Anonymous(k, rest) == IF k.completelyInsecure THEN [token |-> FALSE, tls |-> NoTLS] ELSE rest

Unverified(k, tls) ==
  IF k.insecureTLS THEN [tls EXCEPT !.insecure = TRUE, !.ca = Nothing] ELSE tls

Override(given, current) == IF given THEN File("flag") ELSE current

Scheme(k) == IF k.completelyInsecure THEN "http" ELSE "https"

\* Mutant of KubeletConfig: the certificate's data form stays, and is preferred.
KubeletConfigKeepsCert(k, rest) ==
  LET client == Anonymous(k, rest) IN
  [scheme |-> Scheme(k), token |-> client.token,
   tls |-> [Unverified(k, client.tls) EXCEPT
              !.ca = Override(k.caFile, @), !.key = Override(k.keyFile, @),
              !.cert = IF k.certFile THEN [@ EXCEPT !.file = "flag"] ELSE @]]

KubeletConfig(k, rest) ==
  LET client == Anonymous(k, rest) IN
  [scheme |-> Scheme(k), token |-> client.token,
   tls |-> [Unverified(k, client.tls) EXCEPT
              !.ca = Override(k.caFile, @), !.cert = Override(k.certFile, @),
              !.key = Override(k.keyFile, @)]]

\* external: client-go's transport.  Data is preferred to a file, and a configuration
\* that turns verification off and names an authority is refused.
Effective(pair) == IF pair.data # None THEN pair.data ELSE pair.file
TransportRefuses(client) == client.tls.insecure /\ Effective(client.tls.ca) # None

-----------------------------------------------------------------------------
(* Buckets of a duration histogram around an expected duration *)

\* Mutant of BucketsForScrapeDuration: the duration goes in after the bucket above it.
BucketsOutOfOrder(t) ==
  LET above == SelectInSeq(DefBuckets, LAMBDA b : b > t) IN InsertAt(DefBuckets, above + 1, t)

BucketsForScrapeDuration(t) ==
  LET max == Last(DefBuckets)
      above == SelectInSeq(DefBuckets, LAMBDA b : b > t)
      near == \/ DefBuckets[above] - t < DefBuckets[1]
              \/ above > 1 /\ t - DefBuckets[above - 1] < DefBuckets[1]
  IN  CASE t > max -> DefBuckets \o <<max + (t - max) \div 2, t, t + t \div 2, 2 * t>>
        [] t = max -> DefBuckets
        [] t < max -> IF near THEN DefBuckets ELSE InsertAt(DefBuckets, above, t)
=============================================================================
