--------------------------- MODULE OptionsProofs ---------------------------
(***************************************************************************)
(* Whatever the ini file says, the options that come out of it are ones    *)
(* the components can be built with.  The invariant adds to the properties *)
(* that a token never gets ahead of its certificate and that past the      *)
(* comparison the addresses differ.                                        *)
(***************************************************************************)
EXTENDS Options, FiniteSetTheorems, TLAPS

\* A token is only ever taken by an endpoint that is secured by then.  Up to
\* "credentials" the section that is being read, and until "compare" the one
\* after it, still have no token.
TokenGuarded ==
    /\ \A s \in Sections : token[s] => secured[s]
    /\ at \in {"logs", "metrics", "importQueue", "address", "credentials",
               "token"} => ~token[section]
    /\ section = "Frontend" => ~token["Backend"]

AddressesDiffer ==
    at \in {"detector", "accepted"} =>
      \/ host["Frontend"] # host["Backend"]
      \/ port["Frontend"] # port["Backend"]

\* Until the limits of the frontend have been read its section is current.
SectionInOrder ==
    at \in {"logs", "metrics", "importQueue"} => section = "Frontend"

OptionsInv ==
    TypeOK /\ RangesHold /\ TokenGuarded /\ AddressesDiffer /\ SectionInOrder

-----------------------------------------------------------------------------
(* Reading one setting.                                                    *)

\* A setting that is given or defaulted is one of the values it may have.
LEMMA SettingValue ==
    ASSUME NEW Values, NEW text \in Setting(Values), NEW d
    PROVE  ValueOr(text, d) \in Values \union {d}
  BY DEF Setting, Missing, ValueOr

\* A setting holds at most one value, and can be counted.
LEMMA SettingSize ==
    ASSUME NEW Values, NEW text \in Setting(Values)
    PROVE  IsFiniteSet(text) /\ Cardinality(text) \in Nat
  BY FS_EmptySet, FS_Singleton DEF Setting, Missing

\* Sets that are listed are finite.
LEMMA SmallSets ==
    ASSUME NEW a, NEW b, NEW c
    PROVE  IsFiniteSet({a, b}) /\ IsFiniteSet({a, b, c})
<1>1. IsFiniteSet({a})
  BY FS_Singleton
<1>2. IsFiniteSet({a} \union {b})
  BY <1>1, FS_AddElement
<1>3. IsFiniteSet(({a} \union {b}) \union {c})
  BY <1>2, FS_AddElement
<1>4. {a, b} = {a} \union {b} /\ {a, b, c} = ({a} \union {b}) \union {c}
  OBVIOUS
<1> QED  BY <1>2, <1>3, <1>4

\* A port that converts has 16 bits: a minus sign wraps, and what has more
\* bits falls back to the default.
LEMMA PortConverts ==
    ASSUME NEW text \in Setting(Ports), NEW d \in 1..MaxPort
    PROVE  ValueOr(Convert16(text), d) \in 0..MaxPort
<1>0. MaxPort \in Nat
  BY DEF MaxPort
<1>1. \A n \in Int : n % (MaxPort + 1) \in 0..MaxPort
  BY <1>0
<1>2. CASE Convert16(text) = {}
  BY <1>2 DEF ValueOr, Missing
<1>3. CASE Convert16(text) # {}
  <2>1. Convert16(text) \subseteq 0..MaxPort
    BY <1>1 DEF Convert16
  <2>2. ValueOr(Convert16(text), d) \in Convert16(text)
    BY <1>3 DEF ValueOr, Missing
  <2> QED  BY <2>1, <2>2
<1> QED  BY <1>2, <1>3

\* What is read of some limits is a number for each.
LEMMA LimitsAreNumbers ==
    ASSUME NEW L \in SUBSET Limits, NEW text \in [L -> Setting(Numbers)]
    PROVE  [l \in L |-> ValueOr(text[l], DefaultOf[l])] \in [L -> Int]
<1> SUFFICES ASSUME NEW l \in L
             PROVE  ValueOr(text[l], DefaultOf[l]) \in Int
  OBVIOUS
<1>1. DefaultOf[l] \in Int
  BY DEF DefaultOf, Limits
<1>2. ValueOr(text[l], DefaultOf[l]) \in Numbers \union {DefaultOf[l]}
  BY SettingValue
<1> QED  BY <1>1, <1>2, OptionsAssumption

\* The defaults are within the ranges of the setters.
LEMMA DefaultsLegal ==
    /\ DefaultOf \in [Limits -> Int]
    /\ \A l \in Limits : DefaultOf[l] >= Least(l)
  BY DEF DefaultOf, Limits, Least, ImportQueue, FrontendLimits, BackendLimits

LEMMA DefaultPorts ==
    /\ DefaultPort \in [Sections -> 0..MaxPort]
    /\ \A s \in Sections : DefaultPort[s] \in 1..MaxPort
  BY DEF DefaultPort, Sections, MaxPort

-----------------------------------------------------------------------------
(* The initial state and the steps.                                        *)

LEMMA OptionsInit == Init => OptionsInv
<1> SUFFICES ASSUME Init PROVE OptionsInv
  OBVIOUS
<1>1. TypeOK
  BY DefaultsLegal, DefaultPorts, OptionsAssumption
     DEF Init, TypeOK, Sections, Readings
<1>2. RangesHold
  BY DefaultsLegal, DefaultPorts DEF Init, RangesHold
<1>3. TokenGuarded /\ AddressesDiffer /\ SectionInOrder
  BY DEF Init, TokenGuarded, AddressesDiffer, SectionInOrder, Sections
<1> QED  BY <1>1, <1>2, <1>3 DEF OptionsInv

\* Where a check throws, the options stay as they are.
LEMMA RejectStep ==
    ASSUME OptionsInv, Reject, given' \in 0..MaxGiven
    PROVE  OptionsInv'
<1>1. TypeOK' /\ RangesHold'
  BY DEF OptionsInv, Reject, TypeOK, RangesHold, Readings
<1>2. TokenGuarded' /\ AddressesDiffer' /\ SectionInOrder'
  BY DEF OptionsInv, Reject, TokenGuarded, AddressesDiffer, SectionInOrder
<1> QED  BY <1>1, <1>2 DEF OptionsInv

\* Settings are counted up to the bound.
LEMMA FoundStep ==
    ASSUME TypeOK, NEW n \in Nat, Found(n)
    PROVE  given' \in 0..MaxGiven
  BY OptionsAssumption DEF TypeOK, Found

LEMMA SetAddressStep ==
    ASSUME OptionsInv, at = "address", given' \in 0..MaxGiven,
           NEW h \in Hosts \union {"blank"}, NEW n \in 0..MaxPort,
           SetAddress(h, n)
    PROVE  OptionsInv'
<1>1. CASE h = "blank" \/ n = 0
  BY <1>1, RejectStep DEF SetAddress
<1>2. CASE ~(h = "blank" \/ n = 0)
  <2> USE <1>2 DEF SetAddress
  <2>1. TypeOK'
    BY DEF OptionsInv, TypeOK, Readings
  <2>2. RangesHold'
    BY DEF OptionsInv, RangesHold, TypeOK
  <2>3. TokenGuarded' /\ AddressesDiffer' /\ SectionInOrder'
    BY DEF OptionsInv, TokenGuarded, AddressesDiffer, SectionInOrder
  <2> QED  BY <2>1, <2>2, <2>3 DEF OptionsInv
<1> QED  BY <1>1, <1>2

\* Without a token yet, the endpoint may turn out secured or not.
LEMMA SetCredentialsStep ==
    ASSUME OptionsInv, at = "credentials", given' \in 0..MaxGiven,
           NEW key, NEW certificate, SetCredentials(key, certificate)
    PROVE  OptionsInv'
<1> DEFINE both == key # Missing /\ certificate # Missing
           bad  == both /\ (key # {"good"} \/ certificate # {"good"})
<1>1. CASE bad
  BY <1>1, RejectStep DEF SetCredentials
<1>2. CASE ~bad
  <2>1. /\ at' = "token"
        /\ secured' = [secured EXCEPT ![section] = both]
        /\ UNCHANGED <<section, number, host, port, token,
                       clientCertificate, detector, exporter>>
    BY <1>2 DEF SetCredentials
  <2> HIDE DEF both
  <2>2. both \in BOOLEAN
    BY DEF both
  <2>3. TypeOK'
    BY <2>1, <2>2 DEF OptionsInv, TypeOK, Readings
  <2>4. RangesHold'
    BY <2>1 DEF OptionsInv, RangesHold
  <2>5. TokenGuarded'
    BY <2>1 DEF OptionsInv, TypeOK, TokenGuarded
  <2>6. AddressesDiffer' /\ SectionInOrder'
    BY <2>1 DEF OptionsInv, AddressesDiffer, SectionInOrder
  <2> QED  BY <2>3, <2>4, <2>5, <2>6 DEF OptionsInv
<1> QED  BY <1>1, <1>2

LEMMA SetAccessTokenStep ==
    ASSUME OptionsInv, at = "token", given' \in 0..MaxGiven,
           NEW text, SetAccessToken(text)
    PROVE  OptionsInv'
<1>1. CASE text # Missing /\ (~secured[section] \/ text = {"empty"})
  BY <1>1, RejectStep DEF SetAccessToken
<1>2. CASE ~(text # Missing /\ (~secured[section] \/ text = {"empty"}))
  <2> DEFINE given1 == text # Missing
  <2>1. /\ at' = "client"
        /\ token' = [token EXCEPT ![section] = given1]
        /\ UNCHANGED <<section, number, host, port, secured,
                       clientCertificate, detector, exporter>>
    BY <1>2 DEF SetAccessToken
  <2>2. given1 \in BOOLEAN /\ (given1 => secured[section])
    BY <1>2
  <2> HIDE DEF given1
  <2>3. TypeOK'
    BY <2>1, <2>2 DEF OptionsInv, TypeOK, Readings
  <2>4. RangesHold'
    BY <2>1 DEF OptionsInv, RangesHold
  <2>5. TokenGuarded'
    BY <2>1, <2>2 DEF OptionsInv, TypeOK, TokenGuarded, Sections
  <2>6. AddressesDiffer' /\ SectionInOrder'
    BY <2>1 DEF OptionsInv, AddressesDiffer, SectionInOrder
  <2> QED  BY <2>3, <2>4, <2>5, <2>6 DEF OptionsInv
<1> QED  BY <1>1, <1>2

LEMMA SetClientCertificateStep ==
    ASSUME OptionsInv, at = "client", given' \in 0..MaxGiven,
           NEW file, SetClientCertificate(file)
    PROVE  OptionsInv'
<1>1. CASE file # Missing /\ file # {"good"}
  BY <1>1, RejectStep DEF SetClientCertificate
<1>2. CASE ~(file # Missing /\ file # {"good"})
  <2> DEFINE given1 == file # Missing
  <2>1. /\ at' = "limits"
        /\ clientCertificate' = [clientCertificate EXCEPT ![section] = given1]
        /\ UNCHANGED <<section, number, host, port, secured, token, detector,
                       exporter>>
    BY <1>2 DEF SetClientCertificate
  <2>2. given1 \in BOOLEAN
    OBVIOUS
  <2> HIDE DEF given1
  <2>3. TypeOK'
    BY <2>1, <2>2 DEF OptionsInv, TypeOK, Readings
  <2>4. RangesHold'
    BY <2>1 DEF OptionsInv, RangesHold
  <2>5. TokenGuarded' /\ AddressesDiffer' /\ SectionInOrder'
    BY <2>1 DEF OptionsInv, TokenGuarded, AddressesDiffer, SectionInOrder
  <2> QED  BY <2>3, <2>4, <2>5 DEF OptionsInv
<1> QED  BY <1>1, <1>2

\* The setters of the limits keep the ranges; the step from the frontend to
\* the backend finds no token there.
LEMMA SetLimitsStep ==
    ASSUME OptionsInv, at \in {"importQueue", "limits"},
           given' \in 0..MaxGiven,
           NEW L \in SUBSET Limits, NEW value \in [L -> Int],
           SetLimits(value)
    PROVE  OptionsInv'
<1>1. CASE \E l \in DOMAIN value : value[l] < Least(l)
  BY <1>1, RejectStep DEF SetLimits
<1>2. CASE ~\E l \in DOMAIN value : value[l] < Least(l)
  <2>1. /\ number' = [l \in Limits |-> IF l \in L THEN value[l] ELSE number[l]]
        /\ UNCHANGED <<host, port, secured, token, clientCertificate,
                       detector, exporter>>
        /\ section' = IF at = "limits" THEN "Backend" ELSE section
        /\ at' = IF at = "limits" /\ section = "Backend" THEN "compare"
                                                         ELSE "address"
    BY <1>2 DEF SetLimits
  <2>2. \A l \in L : value[l] \in Int /\ value[l] >= Least(l)
    BY <1>2 DEF Least
  <2>3. TypeOK'
    BY <2>1, <2>2 DEF OptionsInv, TypeOK, Readings, Sections
  <2>4. RangesHold'
    BY <2>1, <2>2 DEF OptionsInv, RangesHold
  <2>5. TokenGuarded'
    BY <2>1 DEF OptionsInv, TypeOK, TokenGuarded, SectionInOrder, Sections
  <2>6. AddressesDiffer' /\ SectionInOrder'
    BY <2>1 DEF OptionsInv, AddressesDiffer, SectionInOrder
  <2> QED  BY <2>3, <2>4, <2>5, <2>6 DEF OptionsInv
<1> QED  BY <1>1, <1>2

LEMMA CompareAddressesStep ==
    ASSUME OptionsInv, CompareAddresses PROVE OptionsInv'
<1>1. given' \in 0..MaxGiven
  BY DEF OptionsInv, TypeOK, CompareAddresses
<1>2. CASE host["Frontend"] = host["Backend"] /\ port["Frontend"] = port["Backend"]
  BY <1>1, <1>2, RejectStep DEF CompareAddresses
<1>3. CASE ~(host["Frontend"] = host["Backend"] /\ port["Frontend"] = port["Backend"])
  BY <1>1, <1>3 DEF CompareAddresses, OptionsInv, TypeOK, RangesHold, Readings,
                    TokenGuarded, AddressesDiffer, SectionInOrder
<1> QED  BY <1>2, <1>3

LEMMA SetDetectorStep ==
    ASSUME OptionsInv, at = "detector", given' \in 0..MaxGiven,
           NEW size, NEW duration, SetDetector(size, duration)
    PROVE  OptionsInv'
<1> DEFINE by == IF size # Missing THEN "size"
                 ELSE IF duration # Missing THEN "duration" ELSE "none"
<1>1. CASE \E n \in (IF by = "size" THEN size ELSE duration) : n < 1
  BY <1>1, RejectStep DEF SetDetector
<1>2. CASE ~\E n \in (IF by = "size" THEN size ELSE duration) : n < 1
  <2>1. /\ at' = "accepted"
        /\ detector' = by
        /\ UNCHANGED <<section, number, host, port, secured, token,
                       clientCertificate, exporter>>
    BY <1>2 DEF SetDetector
  <2>2. by \in {"none", "size", "duration"}
    OBVIOUS
  <2> HIDE DEF by
  <2>3. TypeOK' /\ RangesHold'
    BY <2>1, <2>2 DEF OptionsInv, TypeOK, RangesHold
  <2>4. TokenGuarded' /\ AddressesDiffer' /\ SectionInOrder'
    BY <2>1 DEF OptionsInv, TokenGuarded, AddressesDiffer, SectionInOrder
  <2> QED  BY <2>3, <2>4 DEF OptionsInv
<1> QED  BY <1>1, <1>2

LEMMA SetExporterStep ==
    ASSUME OptionsInv, at \in {"logs", "metrics"}, given' \in 0..MaxGiven,
           NEW http, NEW grpc, NEW times, SetExporter(http, grpc, times)
    PROVE  OptionsInv'
<1>1. CASE NotBuilt(http, grpc) \/ BadTimes(http, grpc, times)
  BY <1>1, RejectStep DEF SetExporter
<1>2. CASE ~(NotBuilt(http, grpc) \/ BadTimes(http, grpc, times))
  <2>1. /\ at' = IF at = "logs" THEN "metrics" ELSE "importQueue"
        /\ exporter' = [exporter EXCEPT ![at] = Chosen(http, grpc)]
        /\ UNCHANGED <<section, number, host, port, secured, token,
                       clientCertificate, detector>>
    BY <1>2 DEF SetExporter
  <2>2. Chosen(http, grpc) \in {"none", "http", "grpc"}
    BY DEF Chosen
  <2>3. TypeOK'
    BY <2>1, <2>2 DEF OptionsInv, TypeOK, Readings
  <2>4. RangesHold'
    BY <2>1 DEF OptionsInv, RangesHold
  <2>5. TokenGuarded' /\ AddressesDiffer' /\ SectionInOrder'
    BY <2>1 DEF OptionsInv, TokenGuarded, AddressesDiffer, SectionInOrder
  <2> QED  BY <2>3, <2>4, <2>5 DEF OptionsInv
<1> QED  BY <1>1, <1>2

-----------------------------------------------------------------------------
(* Every step of the reading, from what the file says.                     *)

LEMMA OptionsStep == OptionsInv /\ [Next]_vars => OptionsInv'
<1> SUFFICES ASSUME OptionsInv, [Next]_vars PROVE OptionsInv'
  OBVIOUS
<1>0. TypeOK /\ section \in Sections
  BY DEF OptionsInv, TypeOK
<1>1. CASE ReadExporter
  <2>1. PICK http \in ExporterSection, grpc \in ExporterSection,
             times \in Setting(Numbers) :
          /\ Found(Cardinality(http) + Cardinality(grpc) + Cardinality(times))
          /\ SetExporter(http, grpc, times)
    BY <1>1 DEF ReadExporter
  <2>2. given' \in 0..MaxGiven
    <3>1. /\ Cardinality(http) \in Nat /\ Cardinality(grpc) \in Nat
          /\ Cardinality(times) \in Nat
      BY SettingSize DEF ExporterSection
    <3> QED  BY <1>0, <2>1, <3>1, FoundStep
  <2> QED  BY <1>1, <2>1, <2>2, SetExporterStep DEF ReadExporter
<1>2. CASE ReadAddress
  <2>1. PICK name \in Setting(Hosts \union {"blank"}), text \in Setting(Ports) :
          /\ Found(Cardinality(name) + Cardinality(text))
          /\ SetAddress(ValueOr(name, Localhost),
                        ValueOr(Convert16(text), DefaultPort[section]))
    BY <1>2 DEF ReadAddress
  <2>2. given' \in 0..MaxGiven
    <3>1. Cardinality(name) \in Nat /\ Cardinality(text) \in Nat
      BY SettingSize
    <3> QED  BY <1>0, <2>1, <3>1, FoundStep
  <2>3. ValueOr(name, Localhost) \in Hosts \union {"blank"}
    BY SettingValue, OptionsAssumption
  <2>4. DefaultPort[section] \in 1..MaxPort
    BY <1>0, DefaultPorts
  <2>5. ValueOr(Convert16(text), DefaultPort[section]) \in 0..MaxPort
    BY <2>4, PortConverts
  <2> QED  BY <1>2, <2>1, <2>2, <2>3, <2>5, SetAddressStep DEF ReadAddress
<1>3. CASE ReadCredentials
  <2>1. PICK key \in PEMFiles, certificate \in PEMFiles :
          /\ Found(Cardinality(key) + Cardinality(certificate))
          /\ SetCredentials(key, certificate)
    BY <1>3 DEF ReadCredentials
  <2>2. given' \in 0..MaxGiven
    <3>1. Cardinality(key) \in Nat /\ Cardinality(certificate) \in Nat
      BY SettingSize DEF PEMFiles
    <3> QED  BY <1>0, <2>1, <3>1, FoundStep
  <2> QED  BY <1>3, <2>1, <2>2, SetCredentialsStep DEF ReadCredentials
<1>4. CASE ReadAccessToken
  <2>1. PICK text \in Setting({"empty", "text"}) :
          Found(Cardinality(text)) /\ SetAccessToken(text)
    BY <1>4 DEF ReadAccessToken
  <2>2. given' \in 0..MaxGiven
    BY <1>0, <2>1, FoundStep, SettingSize
  <2> QED  BY <1>4, <2>1, <2>2, SetAccessTokenStep DEF ReadAccessToken
<1>5. CASE ReadClientCertificate
  <2>1. PICK file \in PEMFiles :
          Found(Cardinality(file)) /\ SetClientCertificate(file)
    BY <1>5 DEF ReadClientCertificate
  <2>2. given' \in 0..MaxGiven
    BY <1>0, <2>1, FoundStep, SettingSize DEF PEMFiles
  <2> QED  BY <1>5, <2>1, <2>2, SetClientCertificateStep
              DEF ReadClientCertificate
<1>6. CASE ReadLimits
  <2> DEFINE L == IF at = "limits" THEN LimitsOf(section) ELSE {ImportQueue}
  <2>1. PICK text \in [L -> Setting(Numbers)] :
          /\ Found(Cardinality({l \in L : text[l] # Missing}))
          /\ SetLimits([l \in L |-> ValueOr(text[l], DefaultOf[l])])
    BY <1>6 DEF ReadLimits
  <2>2. L \in SUBSET Limits /\ IsFiniteSet(L)
    <3>1. IsFiniteSet(FrontendLimits) /\ IsFiniteSet(BackendLimits)
      BY SmallSets DEF FrontendLimits, BackendLimits
    <3>2. IsFiniteSet({ImportQueue})
      BY FS_Singleton
    <3> QED  BY <3>1, <3>2 DEF LimitsOf, Limits
  <2> HIDE DEF L
  <2>3. Cardinality({l \in L : text[l] # Missing}) \in Nat
    BY <2>2, FS_Subset, FS_CardinalityType
  <2>4. given' \in 0..MaxGiven
    BY <1>0, <2>1, <2>3, FoundStep
  <2>5. [l \in L |-> ValueOr(text[l], DefaultOf[l])] \in [L -> Int]
    BY <2>2, LimitsAreNumbers
  <2> QED  BY <1>6, <2>1, <2>2, <2>4, <2>5, SetLimitsStep DEF ReadLimits
<1>7. CASE CompareAddresses
  BY <1>7, CompareAddressesStep
<1>8. CASE ReadDetector
  <2>1. PICK size \in Setting(Numbers), duration \in Setting(Numbers) :
          /\ Found(Cardinality(size) + Cardinality(duration))
          /\ SetDetector(size, duration)
    BY <1>8 DEF ReadDetector
  <2>2. given' \in 0..MaxGiven
    <3>1. Cardinality(size) \in Nat /\ Cardinality(duration) \in Nat
      BY SettingSize
    <3> QED  BY <1>0, <2>1, <3>1, FoundStep
  <2> QED  BY <1>8, <2>1, <2>2, SetDetectorStep DEF ReadDetector
<1>9. CASE UNCHANGED vars
  BY <1>9 DEF vars, OptionsInv, TypeOK, RangesHold, TokenGuarded,
              AddressesDiffer, SectionInOrder
<1> QED  BY <1>1, <1>2, <1>3, <1>4, <1>5, <1>6, <1>7, <1>8, <1>9 DEF Next, Done

\* The invariant holds whatever is read.
THEOREM OptionsInvariance == Spec => []OptionsInv
<1>1. Init => OptionsInv
  BY OptionsInit
<1>2. OptionsInv /\ [Next]_vars => OptionsInv'
  BY OptionsStep
<1> QED  BY <1>1, <1>2, PTL DEF Spec

\* Every variable has its type, however the settings are given.
THEOREM TypeCorrectness == Spec => []TypeOK
<1>1. OptionsInv => TypeOK
  BY DEF OptionsInv
<1> QED
  BY <1>1, OptionsInvariance, PTL

\* No ini file leads to a limit that a setter would refuse: what the modules
\* of the components assume of their constants.
THEOREM LimitsAreLegal == Spec => []RangesHold
<1>1. OptionsInv => RangesHold
  BY DEF OptionsInv
<1> QED  BY <1>1, OptionsInvariance, PTL

\* No accepted file leaves a token unguarded or the servers with one address.
THEOREM EndpointsAreLegal == Spec => []EndpointsLegal
<1>1. OptionsInv => EndpointsLegal
  BY DEF OptionsInv, TokenGuarded, AddressesDiffer, EndpointsLegal
<1> QED  BY <1>1, OptionsInvariance, PTL

=============================================================================
