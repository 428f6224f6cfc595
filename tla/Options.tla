------------------------------ MODULE Options ------------------------------
(***************************************************************************)
(* How the settings of the ini file become the options with which the      *)
(* components are built: parseIniFile and what it calls                    *)
(* (src/modules/programOptions.cppm), with the checks of the setters       *)
(* (src/*Options.cpp).                                                     *)
(*                                                                         *)
(* The file is read setting by setting, in a fixed order.  Any setting may *)
(* be missing; what the file says of it is chosen when it is read.  The    *)
(* first value that a check refuses throws out of parseIniFile, and main() *)
(* ends with EXIT_FAILURE before anything has been started.  That there is *)
(* a file the command line's parser has tested; that it is gone when       *)
(* parseIniFile looks again is outside the model.                          *)
(***************************************************************************)
EXTENDS Integers, FiniteSets

CONSTANTS
    Hosts, Localhost,   \* names an endpoint can be given; GRPCOptions::mHost
    Numbers,            \* numbers the file may give for a limit
    Ports,              \* numbers the file may give for a port
    WithGRPC,           \* WITH_OTLP_GRPC
    MaxGiven            \* bound of the model: settings given in the file

\* Numbers and Ports are what the texts of the file convert to as they stand;
\* a text without a number is as good as a missing setting, see ValueOr.
ASSUME OptionsAssumption ==
    /\ Localhost \in Hosts
    /\ Numbers \subseteq Int
    /\ Ports \subseteq Int
    /\ WithGRPC \in BOOLEAN
    /\ MaxGiven \in Nat

MaxPort == 65535        \* the largest uint16_t

Sections == {"Frontend", "Backend"}

FrontendLimits == {"maximumMessageSizeInBytes", "maximumNumberOfPublishers",
                   "maximumNumberOfConsecutiveInvalidMessages"}

BackendLimits == {"maximumNumberOfSubscribers", "queueCapacity"}

LimitsOf(s) == IF s = "Frontend" THEN FrontendLimits ELSE BackendLimits

ImportQueue == "Proxy.queueCapacity"

Limits == {ImportQueue} \union FrontendLimits \union BackendLimits

DefaultOf == [l \in Limits |->
    CASE l = ImportQueue -> 8192
      [] l = "maximumMessageSizeInBytes" -> 8192
      [] l = "maximumNumberOfPublishers" -> 64
      [] l = "maximumNumberOfConsecutiveInvalidMessages" -> 10
      [] l = "maximumNumberOfSubscribers" -> 32
      [] OTHER -> 1024]

DefaultPort == [s \in Sections |-> IF s = "Frontend" THEN 50000 ELSE 50001]

\* The smallest value the setter of a limit takes.
Least(l) == IF l = "maximumNumberOfConsecutiveInvalidMessages" THEN 0 ELSE 1

VARIABLES
    at,                 \* what is read next, "accepted" or "rejected"
    section,            \* the section getGRPCOptions and its caller read
    given,              \* history: settings found in the file so far
    number,             \* the limits
    host, port, secured, token, clientCertificate,   \* GRPCOptions, by section
    detector,           \* what the duplicate detector is sized by
    exporter            \* the exporters of logs and metrics

vars == <<at, section, given, number, host, port, secured, token,
          clientCertificate, detector, exporter>>

Readings == {"logs", "metrics", "importQueue", "address", "credentials",
             "token", "client", "limits", "compare", "detector"}

Init ==
    /\ at = "logs"
    /\ section = "Frontend"
    /\ given = 0
    /\ number = DefaultOf
    /\ host = [s \in Sections |-> Localhost]
    /\ port = DefaultPort
    /\ secured = [s \in Sections |-> FALSE]
    /\ token = [s \in Sections |-> FALSE]
    /\ clientCertificate = [s \in Sections |-> FALSE]
    /\ detector = "none"
    /\ exporter = [e \in {"logs", "metrics"} |-> "none"]

-----------------------------------------------------------------------------
(* What the file says of a setting: nothing, {}, or one value, {v}.        *)
(* propertyTree.get takes the default also for a text that does not        *)
(* convert, so that such a text is as good as none.                        *)

Missing == {}

Setting(Values) == {Missing} \union {{v} : v \in Values}

ValueOr(text, default) == IF text = Missing THEN default
                                            ELSE CHOOSE v \in text : TRUE

\* Fault: the number is kept as it is written.
ConvertAny(text) == text

\* get<uint16_t>: the stream takes a minus sign and wraps the number; one that
\* has no 16 bits does not convert.
Convert16(text) ==
    {n % (MaxPort + 1) : n \in text \intersect (-MaxPort..MaxPort)}

\* n more settings were found in the file.
Found(n) == given + n <= MaxGiven /\ given' = given + n

\* A check throws: nothing more is read.
Reject == at' = "rejected" /\ UNCHANGED <<section, number, host, port, secured,
                                 token, clientCertificate, detector, exporter>>

-----------------------------------------------------------------------------
(* getGRPCOptions.                                                         *)

\* Fault: a port of zero is taken.
SetAddressWithZero(h, n) ==
    IF h = "blank" THEN Reject
    ELSE /\ at' = "credentials"
         /\ host' = [host EXCEPT ![section] = h]
         /\ port' = [port EXCEPT ![section] = n]
         /\ UNCHANGED <<section, number, secured, token, clientCertificate,
                        detector, exporter>>

\* setHost refuses a name without a letter, setPort only zero.
SetAddress(h, n) ==
    IF h = "blank" \/ n = 0 THEN Reject
    ELSE /\ at' = "credentials"
         /\ host' = [host EXCEPT ![section] = h]
         /\ port' = [port EXCEPT ![section] = n]
         /\ UNCHANGED <<section, number, secured, token, clientCertificate,
                        detector, exporter>>

ReadAddress ==
    /\ at = "address"
    /\ \E name \in Setting(Hosts \union {"blank"}), text \in Setting(Ports) :
         /\ Found(Cardinality(name) + Cardinality(text))
         /\ SetAddress(ValueOr(name, Localhost),
                       ValueOr(Convert16(text), DefaultPort[section]))

\* A file named by a setting is absent, empty or has the text it should.
PEMFiles == Setting({"absent", "empty", "good"})

\* The key and the certificate are only looked at when both are named: one
\* without the other leaves the endpoint unsecured.
SetCredentials(key, certificate) ==
    LET both == key # Missing /\ certificate # Missing
    IN  IF both /\ (key # {"good"} \/ certificate # {"good"}) THEN Reject
        ELSE /\ at' = "token"
             /\ secured' = [secured EXCEPT ![section] = both]
             /\ UNCHANGED <<section, number, host, port, token,
                            clientCertificate, detector, exporter>>

ReadCredentials ==
    /\ at = "credentials"
    /\ \E key, certificate \in PEMFiles :
         /\ Found(Cardinality(key) + Cardinality(certificate))
         /\ SetCredentials(key, certificate)

\* The access token needs an endpoint that is secured.
SetAccessToken(text) ==
    IF text # Missing /\ (~secured[section] \/ text = {"empty"}) THEN Reject
    ELSE /\ at' = "client"
         /\ token' = [token EXCEPT ![section] = text # Missing]
         /\ UNCHANGED <<section, number, host, port, secured,
                        clientCertificate, detector, exporter>>

ReadAccessToken ==
    /\ at = "token"
    /\ \E text \in Setting({"empty", "text"}) :
         Found(Cardinality(text)) /\ SetAccessToken(text)

\* The client certificate is taken whether or not the endpoint is secured.
SetClientCertificate(file) ==
    IF file # Missing /\ file # {"good"} THEN Reject
    ELSE /\ at' = "limits"
         /\ clientCertificate' =
              [clientCertificate EXCEPT ![section] = file # Missing]
         /\ UNCHANGED <<section, number, host, port, secured, token, detector,
                        exporter>>

ReadClientCertificate ==
    /\ at = "client"
    /\ \E file \in PEMFiles :
         Found(Cardinality(file)) /\ SetClientCertificate(file)

-----------------------------------------------------------------------------
(* getFrontendOptions, getBackendOptions and getProxyOptions.              *)

\* Each limit that is read has its setter.
SetLimits(value) ==
    IF \E l \in DOMAIN value : value[l] < Least(l) THEN Reject
    ELSE /\ number' = [l \in Limits |-> IF l \in DOMAIN value THEN value[l]
                                                              ELSE number[l]]
         /\ UNCHANGED <<host, port, secured, token, clientCertificate,
                        detector, exporter>>
         \* After the limits of the frontend comes the section of the backend.
         /\ section' = IF at = "limits" THEN "Backend" ELSE section
         /\ at' = IF at = "limits" /\ section = "Backend" THEN "compare"
                                                          ELSE "address"

ReadLimits ==
    /\ at \in {"importQueue", "limits"}
    /\ LET L == IF at = "limits" THEN LimitsOf(section) ELSE {ImportQueue}
       IN  \E text \in [L -> Setting(Numbers)] :
             /\ Found(Cardinality({l \in L : text[l] # Missing}))
             /\ SetLimits([l \in L |-> ValueOr(text[l], DefaultOf[l])])

\* Fault: the defaults of the ports are compared.
CompareDefaults ==
    /\ at = "compare"
    /\ UNCHANGED given
    /\ IF DefaultPort["Frontend"] = DefaultPort["Backend"] THEN Reject
       ELSE /\ at' = "detector"
            /\ UNCHANGED <<section, number, host, port, secured, token,
                           clientCertificate, detector, exporter>>

\* "Can't bind front and backend on same port": hosts are compared by name.
CompareAddresses ==
    /\ at = "compare"
    /\ UNCHANGED given
    /\ IF host["Frontend"] = host["Backend"] /\ port["Frontend"] = port["Backend"]
       THEN Reject
       ELSE /\ at' = "detector"
            /\ UNCHANGED <<section, number, host, port, secured, token,
                           clientCertificate, detector, exporter>>

\* The size of the detector's buffers wins over their duration, which is then
\* not even looked at; without either no duplicates are removed.
SetDetector(size, duration) ==
    LET by == IF size # Missing THEN "size"
              ELSE IF duration # Missing THEN "duration" ELSE "none"
    IN  IF \E n \in (IF by = "size" THEN size ELSE duration) : n < 1 THEN Reject
        ELSE /\ at' = "accepted"
             /\ detector' = by
             /\ UNCHANGED <<section, number, host, port, secured, token,
                            clientCertificate, exporter>>

ReadDetector ==
    /\ at = "detector"
    /\ \E size, duration \in Setting(Numbers) :
         /\ Found(Cardinality(size) + Cardinality(duration))
         /\ SetDetector(size, duration)

-----------------------------------------------------------------------------
(* parseIniFile, as far as telemetry goes.                                 *)

\* A section of an exporter may be there without naming the collector's host.
ExporterSection == Setting({"noHost", "host"})

\* The section for HTTP, even without a host, hides the one for gRPC.
Chosen(http, grpc) ==
    IF http # Missing THEN (IF http = {"host"} THEN "http" ELSE "none")
    ELSE IF grpc = {"host"} THEN "grpc" ELSE "none"

NotBuilt(http, grpc) == http = Missing /\ grpc # Missing /\ ~WithGRPC

\* The interval and time-out of metrics, one setting here, must be positive;
\* they are read for HTTP only if there is a host, for gRPC always.
BadTimes(http, grpc, times) ==
    /\ at = "metrics"
    /\ http = {"host"} \/ (http = Missing /\ grpc # Missing)
    /\ \E n \in times : n <= 0

SetExporter(http, grpc, times) ==
    IF NotBuilt(http, grpc) \/ BadTimes(http, grpc, times) THEN Reject
    ELSE /\ at' = IF at = "logs" THEN "metrics" ELSE "importQueue"
         /\ exporter' = [exporter EXCEPT ![at] = Chosen(http, grpc)]
         /\ UNCHANGED <<section, number, host, port, secured, token,
                        clientCertificate, detector>>

ReadExporter ==
    /\ at \in {"logs", "metrics"}
    /\ \E http, grpc \in ExporterSection, times \in Setting(Numbers) :
         /\ at = "logs" => times = Missing
         /\ Found(Cardinality(http) + Cardinality(grpc) + Cardinality(times))
         /\ SetExporter(http, grpc, times)

-----------------------------------------------------------------------------
\* The components are built, or main() has returned.
Done == at \in {"accepted", "rejected"} /\ UNCHANGED vars

Next ==
    \/ ReadExporter
    \/ ReadAddress \/ ReadCredentials \/ ReadAccessToken
    \/ ReadClientCertificate
    \/ ReadLimits \/ CompareAddresses \/ ReadDetector
    \/ Done

Spec == Init /\ [][Next]_vars

-----------------------------------------------------------------------------
(* Properties.                                                             *)

\* Every variable has its type.
TypeOK ==
    /\ at \in Readings \union {"accepted", "rejected"}
    /\ section \in Sections
    /\ given \in 0..MaxGiven
    /\ number \in [Limits -> Int]
    /\ host \in [Sections -> Hosts]
    /\ port \in [Sections -> 0..MaxPort]
    /\ secured \in [Sections -> BOOLEAN]
    /\ token \in [Sections -> BOOLEAN]
    /\ clientCertificate \in [Sections -> BOOLEAN]
    /\ detector \in {"none", "size", "duration"}
    /\ exporter \in [{"logs", "metrics"} -> {"none", "http", "grpc"}]

\* What the modules of the components assume of their constants: a queue with
\* no room or a limit of zero cannot come out of any file, by default, by a
\* number that does not convert or by one that wraps.
RangesHold ==
    /\ \A l \in Limits : number[l] >= Least(l)
    /\ \A s \in Sections : port[s] \in 1..MaxPort

\* "Access tokens can only be used by gRPC if the server certificate and
\* server key are set": no accepted file leaves a token on an endpoint where
\* validatePublisher and validateSubscriber would never ask for it.  And the
\* servers never compete for one address, defaults and wrapped ports included.
EndpointsLegal ==
    at = "accepted" =>
      /\ \A s \in Sections : token[s] => secured[s]
      /\ <<host["Frontend"], port["Frontend"]>> #
           <<host["Backend"], port["Backend"]>>

=============================================================================
