---------------------------- MODULE StartupProofs ---------------------------
(***************************************************************************)
(* The start of the process for any set of configuration files, however    *)
(* they are edited and whichever providers fail to open.                   *)
(***************************************************************************)
EXTENDS Startup, TLAPS

Modes == {"enabled", "disabled", "left out"}

\* A provider validation lets pass, with what NewRistretto needs of it.
Sound(p) ==
    /\ p \in Providers
    /\ p.type = "ristretto" => p.numCounters > 0 /\ p.bufferItems > 0 /\ p.maxCost > 0
    /\ p.type \in {"ristretto", "redis", "rocksdb"}

CachesOK(cs) == \A n \in DOMAIN cs : cs[n] \in Caches

LayersOK(ls) ==
    /\ ls \in Seq([mode : Modes, provider : Providers])
    /\ \A l \in 1 .. Len(ls) : Sound(ls[l].provider)
    /\ \A k, l \in 1 .. Len(ls) : ls[k].provider.name = ls[l].provider.name => k = l

\* Each cache has one setting for each of n layers.
Settings(cs, n) == \A c \in DOMAIN cs : Len(cs[c].layers) = n

LEMMA FilesAre ==
    ASSUME NEW f \in Files
    PROVE  /\ f.providers \in Seq(Providers) /\ f.layers \in Seq(Layers) /\ f.caches \in Seq(Caches)
           /\ DOMAIN f.providers = 1 .. Len(f.providers) /\ Len(f.providers) \in Nat
           /\ DOMAIN f.layers = 1 .. Len(f.layers) /\ Len(f.layers) \in Nat
           /\ DOMAIN f.caches = 1 .. Len(f.caches) /\ Len(f.caches) \in Nat
BY FilesAssumption

\* Among entries with different names, Named finds the one with the name.
LEMMA NamedIs ==
    ASSUME NEW n \in Nat, NEW s, DOMAIN s = 1 .. n, NamesDiffer(s), NEW i \in 1 .. n
    PROVE  Named(s, s[i].name) = s[i]
<1> DEFINE m == s[i].name
           Fits(j) == s[j].name = m /\ \A k \in DOMAIN s : s[k].name = m => k <= j
<1>1. \A k \in DOMAIN s : s[k].name = m => k = i
  BY DEF NamesDiffer
<1>2. i \in DOMAIN s /\ Fits(i)
  BY <1>1
<1>3. (CHOOSE j \in DOMAIN s : Fits(j)) = i
  <2>1. (CHOOSE j \in DOMAIN s : Fits(j)) \in DOMAIN s /\ Fits(CHOOSE j \in DOMAIN s : Fits(j))
    <3> HIDE DEF Fits
    <3>1. QED
      BY <1>2
  <2>2. QED
    BY <1>1, <2>1
<1>4. QED
  BY <1>3 DEF Named

LEMMA LoadedCaches ==
    ASSUME NEW f \in Files, Loads(f)
    PROVE  CachesOK(CacheService(f)) /\ Settings(CacheService(f), Len(f.layers))
<1> DEFINE cs == f.caches
           names == {cs[i].name : i \in DOMAIN cs}
           svc == CacheService(f)
<1>1. NamesDiffer(cs) /\ \A i \in DOMAIN cs : Len(cs[i].layers) = Len(f.layers)
  BY DEF Loads, ValidCaches
<1>2. \A i \in DOMAIN cs : cs[i] \in Caches /\ Named(cs, cs[i].name) = cs[i]
  <2> DEFINE m == Len(cs)
  <2>1. m \in Nat /\ DOMAIN cs = 1 .. m /\ \A i \in 1 .. m : cs[i] \in Caches
    BY FilesAre
  <2> HIDE DEF m, cs
  <2>2. \A i \in 1 .. m : Named(cs, cs[i].name) = cs[i]
    BY <1>1, <2>1, NamedIs
  <2>3. QED
    BY <2>1, <2>2
<1>3. DOMAIN svc = names /\ \A i \in DOMAIN cs : svc[cs[i].name] = cs[i]
  BY <1>2 DEF CacheService
<1>4. \A c \in DOMAIN svc : \E i \in DOMAIN cs : c = cs[i].name /\ svc[c] = cs[i]
  BY <1>3
<1> HIDE DEF svc, cs
<1>5. CachesOK(svc)
  <2> SUFFICES ASSUME NEW c \in DOMAIN svc
               PROVE  svc[c] \in Caches
    BY DEF CachesOK
  <2>1. PICK i \in DOMAIN cs : svc[c] = cs[i]
    BY <1>4
  <2>2. QED
    BY <1>2, <2>1
<1>6. Settings(svc, Len(f.layers))
  <2> SUFFICES ASSUME NEW c \in DOMAIN svc
               PROVE  Len(svc[c].layers) = Len(f.layers)
    BY DEF Settings
  <2>1. PICK i \in DOMAIN cs : svc[c] = cs[i]
    BY <1>4
  <2>2. Len(cs[i].layers) = Len(f.layers)
    BY <1>1
  <2>3. QED
    BY <2>1, <2>2
<1>7. QED
  BY <1>5, <1>6 DEF svc

LEMMA LoadedLayers ==
    ASSUME NEW f \in Files, Loads(f)
    PROVE  LayersOK(LayerProviders(f)) /\ Len(LayerProviders(f)) = Len(f.layers)
<1> DEFINE n == Len(f.layers)
           ls == LayerProviders(f)
<1>1. n \in Nat /\ DOMAIN f.layers = 1 .. n
  BY FilesAre
<1>2. ASSUME NEW l \in 1 .. n
      PROVE  /\ ls[l].mode \in Modes
             /\ ls[l].provider.name = f.layers[l].name
             /\ Sound(ls[l].provider)
  <2>1. /\ ls[l].mode = Mode(f.layers[l])
        /\ ls[l].provider = Named(f.providers, f.layers[l].name)
    BY DEF LayerProviders
  <2>2. PICK j \in DOMAIN f.providers : f.providers[j].name = f.layers[l].name
    BY <1>1 DEF Loads, ValidLayers
  <2> DEFINE ps == f.providers
  <2>3. Named(ps, f.layers[l].name) = ps[j]
    <3> DEFINE m == Len(ps)
    <3>1. m \in Nat /\ DOMAIN ps = 1 .. m /\ NamesDiffer(ps) /\ j \in 1 .. m
          /\ ps[j].name = f.layers[l].name
      BY <2>2, FilesAre DEF Loads, ValidProviders
    <3> HIDE DEF m, ps
    <3>2. Named(ps, ps[j].name) = ps[j]
      BY <3>1, NamedIs
    <3>3. QED
      BY <3>1, <3>2
  <2>4. Sound(ps[j])
    <3>1. ps[j] \in Providers
      BY <2>2, FilesAre
    <3>2. \/ ps[j].type = "ristretto" /\ ValidRistretto(ps[j])
          \/ ps[j].type = "redis" \/ ps[j].type = "rocksdb"
      BY <2>2 DEF Loads, ValidProviders
    <3>3. QED
      BY <3>1, <3>2 DEF ValidRistretto, Sound
  <2>5. Mode(f.layers[l]) \in Modes
    BY <1>1 DEF Loads, ValidLayers, Mode, Modes
  <2>6. QED
    BY <2>1, <2>2, <2>3, <2>4, <2>5
<1>3. ls = [l \in 1 .. n |-> [mode |-> ls[l].mode, provider |-> ls[l].provider]]
  BY DEF LayerProviders
<1>4. \A k, l \in 1 .. n : f.layers[k].name = f.layers[l].name => k = l
  BY <1>1 DEF Loads, ValidLayers, NamesDiffer
<1> HIDE DEF ls, n
<1>5. ls \in [1 .. n -> [mode : Modes, provider : Providers]]
  <2>1. \A l \in 1 .. n : [mode |-> ls[l].mode, provider |-> ls[l].provider] \in
                              [mode : Modes, provider : Providers]
    BY <1>2 DEF Sound
  <2>2. QED
    BY <1>3, <2>1
<1>6. ls \in Seq([mode : Modes, provider : Providers]) /\ Len(ls) = n
  <2> DEFINE R == [mode : Modes, provider : Providers]
  <2>1. ls \in [1 .. n -> R]
    BY <1>5
  <2> HIDE DEF R
  <2>2. ls \in Seq(R) /\ Len(ls) = n
    BY <1>1, <2>1
  <2>3. QED
    BY <2>2 DEF R
<1>7. QED
  BY <1>2, <1>4, <1>6 DEF LayersOK, ls, n

-----------------------------------------------------------------------------
(* The invariant *)

Started == pc \in {"opening", "serving"}

\* The providers opened so far, and the RocksDB directories they lock.
Opened(n) == {l \in 1 .. n : lps[l].mode # "disabled"}

HeldOK ==
    \A k, l \in held :
        k # l /\ lps[k].provider.type = "rocksdb" /\ lps[l].provider.type = "rocksdb" =>
            lps[k].provider.path # lps[l].provider.path

\* Before, while and after the providers are opened.
Phases ==
    /\ pc \in {"caches", "layers"} => lps = <<>> /\ services = <<>> /\ held = {} /\ failed = None
    /\ pc = "caches" => ~edited
    /\ pc = "opening" => failed = None /\ held = Opened(Len(services))
    /\ pc = "serving" /\ failed = None => Len(services) = Len(lps) /\ held = Opened(Len(lps))
    /\ pc = "serving" /\ failed # None =>
          /\ services = <<>> /\ failed \in 1 .. Len(lps) /\ ~Disabled(failed)
          /\ held = Opened(failed - 1) /\ lps[failed].provider.type \in {"redis", "rocksdb"}

\* What the readings left; they agree on the number of layers if both read
\* the same file.
ReadOK ==
    /\ pc = "layers" /\ ~edited => file \in Files /\ Settings(caches, Len(file.layers))
    /\ Started /\ ~edited => Settings(caches, Len(lps))
    /\ lps = <<>> \/ LayersOK(lps)

IInv == TypeOK /\ CachesOK(caches) /\ HeldOK /\ Phases /\ ReadOK

\* The types, one by one.
FilePart == file \in Files \cup {Unreadable} /\ edited \in BOOLEAN
PcPart   == pc \in {"down", "caches", "layers", "opening", "serving"}
LpsPart  == lps \in Seq([mode : Modes, provider : Providers]) /\ Len(lps) \in Nat
ServicesPart ==
    /\ services \in Seq({"enabled", "disabled"}) /\ Len(services) \in Nat
    /\ Len(services) <= Len(lps)
LevelsPart == held \subseteq 1 .. Len(lps) /\ failed \in 0 .. Len(lps)

LEMMA LenIsNat ==
    ASSUME NEW S, NEW s \in Seq(S)
    PROVE  Len(s) \in Nat
OBVIOUS

LEMMA TypeParts ==
    CachesOK(caches) => (TypeOK <=> FilePart /\ PcPart /\ LpsPart /\ ServicesPart /\ LevelsPart)
<1>1. /\ lps \in Seq([mode : Modes, provider : Providers]) => Len(lps) \in Nat
      /\ services \in Seq({"enabled", "disabled"}) => Len(services) \in Nat
  BY LenIsNat
<1>2. QED
  BY <1>1, Zenon
     DEF TypeOK, FilePart, PcPart, LpsPart, ServicesPart, LevelsPart, CachesOK, Modes

LEMMA TypePartsPrimed ==
    CachesOK(caches') =>
        (TypeOK' <=> FilePart' /\ PcPart' /\ LpsPart' /\ ServicesPart' /\ LevelsPart')
<1>1. /\ lps' \in Seq([mode : Modes, provider : Providers]) => Len(lps') \in Nat
      /\ services' \in Seq({"enabled", "disabled"}) => Len(services') \in Nat
  BY LenIsNat
<1>2. QED
  BY <1>1, Zenon
     DEF TypeOK, FilePart, PcPart, LpsPart, ServicesPart, LevelsPart, CachesOK, Modes

LEMMA InitInv == Init => IInv
<1> SUFFICES ASSUME Init
             PROVE  IInv
  OBVIOUS
<1>1. /\ caches = <<>> /\ lps = <<>> /\ services = <<>> /\ held = {} /\ failed = 0
      /\ pc = "down" /\ edited = FALSE /\ file \in Files
  BY DEF Init, None
<1>2. Len(lps) = 0 /\ Len(services) = 0 /\ DOMAIN caches = {}
  BY <1>1
<1>3. CachesOK(caches)
  BY <1>2 DEF CachesOK
<1>4. TypeOK
  <2>1. LpsPart /\ ServicesPart /\ LevelsPart
    BY <1>1, <1>2 DEF LpsPart, ServicesPart, LevelsPart
  <2>2. FilePart /\ PcPart
    BY <1>1 DEF FilePart, PcPart
  <2>3. QED
    BY <1>3, <2>1, <2>2, TypeParts
<1>5. QED
  BY <1>1, <1>2, <1>3, <1>4 DEF IInv, HeldOK, Phases, ReadOK, Started

LEMMA StartInv == IInv /\ Start => IInv'
<1> SUFFICES ASSUME IInv, Start
             PROVE  IInv'
  OBVIOUS
<1>1. /\ caches' = <<>> /\ lps' = <<>> /\ services' = <<>> /\ held' = {} /\ failed' = 0
      /\ pc' = "caches" /\ edited' = FALSE /\ file' = file
  BY DEF Start, None
<1>2. Len(lps') = 0 /\ Len(services') = 0 /\ DOMAIN caches' = {}
  BY <1>1
<1>3. CachesOK(caches')
  BY <1>2 DEF CachesOK
<1>4. TypeOK'
  <2>1. LpsPart' /\ ServicesPart' /\ LevelsPart'
    BY <1>1, <1>2 DEF LpsPart, ServicesPart, LevelsPart
  <2>2. FilePart' /\ PcPart'
    BY <1>1 DEF IInv, TypeOK, FilePart, PcPart
  <2>3. QED
    BY <1>3, <2>1, <2>2, TypePartsPrimed
<1>5. QED
  BY <1>1, <1>2, <1>3, <1>4 DEF IInv, CachesOK, HeldOK, Phases, ReadOK, Started, None

LEMMA CachesReadInv == IInv /\ CreateCacheService => IInv'
<1> SUFFICES ASSUME IInv, CreateCacheService
             PROVE  IInv'
  OBVIOUS
<1>1. pc = "caches" /\ UNCHANGED <<file, lps, services, held, failed, edited>>
  BY DEF CreateCacheService
<1>2. CASE Loads(file)
  <2>1. pc' = "layers" /\ caches' = CacheService(file) /\ file \in Files
    BY <1>2 DEF CreateCacheService, Loads, IInv, TypeOK
  <2>2. CachesOK(caches') /\ Settings(caches', Len(file.layers))
    BY <1>2, <2>1, LoadedCaches
  <2>3. QED
    BY <1>1, <2>1, <2>2 DEF IInv, TypeOK, CachesOK, HeldOK, Phases, ReadOK, Started, Settings
<1>3. CASE ~Loads(file)
  BY <1>1, <1>3 DEF CreateCacheService, IInv, TypeOK, CachesOK, HeldOK, Phases, ReadOK, Started
<1>4. QED
  BY <1>2, <1>3

LEMMA LayersReadInv == IInv /\ NewLayerProviderService => IInv'
<1> SUFFICES ASSUME IInv, NewLayerProviderService
             PROVE  IInv'
  OBVIOUS
<1>1. pc = "layers" /\ UNCHANGED <<file, caches, services, held, failed, edited>>
  BY DEF NewLayerProviderService
<1>2. services = <<>> /\ held = {} /\ failed = None
  BY <1>1 DEF IInv, Phases
<1>3. CASE Loads(file)
  <2>1. pc' = "opening" /\ lps' = LayerProviders(file) /\ file \in Files
    BY <1>3 DEF NewLayerProviderService, Loads, IInv, TypeOK
  <2>2. LayersOK(lps') /\ Len(lps') = Len(file.layers) /\ Len(lps') \in Nat
    BY <1>3, <2>1, LoadedLayers, FilesAre
  <2>3. TypeOK'
    <3>1. LpsPart' /\ PcPart' /\ FilePart'
      BY <1>1, <2>1, <2>2 DEF LpsPart, LayersOK, PcPart, FilePart, IInv, TypeOK
    <3>2. ServicesPart' /\ LevelsPart'
      BY <1>1, <1>2, <2>2 DEF ServicesPart, LevelsPart, None
    <3>3. CachesOK(caches')
      BY <1>1 DEF IInv
    <3>4. QED
      BY <3>1, <3>2, <3>3, TypePartsPrimed
  <2>4. held' = {} /\ Opened(Len(services))' = {}
    BY <1>1, <1>2 DEF Opened
  <2>5. QED
    BY <1>1, <1>2, <2>1, <2>2, <2>3, <2>4 DEF IInv, CachesOK, HeldOK, Phases, ReadOK, Started, Settings
<1>4. CASE ~Loads(file)
  BY <1>1, <1>4 DEF NewLayerProviderService, IInv, TypeOK, CachesOK, HeldOK, Phases, ReadOK, Started
<1>5. QED
  BY <1>3, <1>4

\* While the layers are opened the list of services is shorter than theirs.
LEMMA OpeningFacts ==
    ASSUME IInv, pc = "opening"
    PROVE  /\ Len(services) \in Nat /\ Len(lps) \in Nat /\ Len(services) <= Len(lps)
           /\ services \in Seq({"enabled", "disabled"})
           /\ failed = None /\ held = Opened(Len(services))
BY TypeParts DEF IInv, LpsPart, ServicesPart, Phases

LEMMA AppendInv ==
    ASSUME IInv, pc = "opening", Next1 <= Len(lps), NEW s \in {"enabled", "disabled"},
           services' = Append(services, s),
           held' = held \cup (IF Disabled(Next1) THEN {} ELSE {Next1}),
           ~Disabled(Next1) => MayOpen(Next1),
           UNCHANGED <<file, pc, caches, lps, failed, edited>>
    PROVE  IInv'
<1> DEFINE n == Len(services)
<1>1. /\ n \in Nat /\ Len(services') = n + 1 /\ n + 1 <= Len(lps) /\ Len(lps) \in Nat
      /\ services' \in Seq({"enabled", "disabled"})
  BY OpeningFacts DEF Next1
<1>2. held = Opened(n) /\ failed = None
  BY OpeningFacts
<1>3. held' = Opened(n + 1)
  BY <1>1, <1>2 DEF Opened, Next1, Disabled
<1>4. TypeOK'
  <2>1. held' \subseteq 1 .. Len(lps)
    BY <1>1, <1>3 DEF Opened
  <2>2. QED
    BY <1>1, <1>2, <2>1 DEF IInv, TypeOK
<1>5. HeldOK'
  <2>1. CASE Disabled(Next1)
    BY <2>1 DEF IInv, HeldOK
  <2>2. CASE ~Disabled(Next1)
    BY <2>2 DEF IInv, HeldOK, MayOpen
  <2>3. QED
    BY <2>1, <2>2
<1>6. Phases'
  BY <1>1, <1>2, <1>3 DEF IInv, Phases, Opened
<1>7. QED
  BY <1>4, <1>5, <1>6 DEF IInv, CachesOK, ReadOK, Started

LEMMA FailInv == IInv /\ CreateServiceFails => IInv'
<1> SUFFICES ASSUME IInv, CreateServiceFails
             PROVE  IInv'
  OBVIOUS
<1>1. /\ pc = "opening" /\ Next1 <= Len(lps) /\ ~Disabled(Next1) /\ MayFail(Next1)
      /\ services' = <<>> /\ failed' = Next1 /\ pc' = "serving"
      /\ UNCHANGED <<file, caches, lps, held, edited>>
  BY DEF CreateServiceFails
<1>2. /\ Next1 \in 1 .. Len(lps) /\ Next1 # None /\ Next1 - 1 = Len(services)
      /\ held = Opened(Next1 - 1) /\ Len(lps) \in Nat /\ Next1 \in Nat
  BY <1>1, OpeningFacts DEF Next1, None
<1>3. lps[Next1].provider.type \in {"redis", "rocksdb"}
  <2>1. LayersOK(lps)
    BY <1>2 DEF IInv, ReadOK
  <2>2. Sound(lps[Next1].provider)
    BY <1>2, <2>1 DEF LayersOK
  <2>3. CASE lps[Next1].provider.type = "ristretto"
    <3>1. MayOpen(Next1)
      <4> DEFINE p == lps[Next1].provider
      <4>1. p.numCounters > 0 /\ p.bufferItems > 0 /\ p.maxCost > 0
        BY <2>2, <2>3 DEF Sound
      <4>2. p.numCounters # 0 /\ p.maxCost # 0 /\ p.bufferItems # 0
        BY <4>1
      <4>3. QED
        BY <2>3, <4>2 DEF MayOpen
    <3>2. QED
      BY <1>1, <2>3, <3>1 DEF MayFail
  <2>4. QED
    BY <2>2, <2>3 DEF Sound
<1>4. TypeOK'
  <2>1. Len(services') = 0 /\ services' \in Seq({"enabled", "disabled"})
    BY <1>1
  <2> DEFINE m == Next1
  <2>2. m \in 1 .. Len(lps) /\ failed' = m
    BY <1>1, <1>2
  <2>3. CachesOK(caches) /\ FilePart /\ LpsPart /\ LevelsPart
    BY TypeParts DEF IInv
  <2> HIDE DEF m
  <2>4. LevelsPart' /\ ServicesPart'
    BY <1>1, <1>2, <2>1, <2>2, <2>3 DEF LevelsPart, ServicesPart
  <2>5. FilePart' /\ PcPart' /\ LpsPart' /\ CachesOK(caches')
    BY <1>1, <2>3 DEF FilePart, PcPart, LpsPart
  <2>6. QED
    BY <2>4, <2>5, TypePartsPrimed
<1>5. Phases'
  <2> DEFINE m == Next1
  <2>1. /\ failed' = m /\ m \in 1 .. Len(lps) /\ m # None /\ held = Opened(m - 1)
        /\ ~ (lps[m].mode = "disabled") /\ lps[m].provider.type \in {"redis", "rocksdb"}
    BY <1>1, <1>2, <1>3 DEF Disabled
  <2> HIDE DEF m
  <2>2. QED
    BY <1>1, <2>1 DEF Phases, Opened, Disabled
<1>6. HeldOK' /\ ReadOK' /\ CachesOK(caches)'
  BY <1>1 DEF IInv, HeldOK, ReadOK, CachesOK, Started, Settings
<1>7. QED
  BY <1>4, <1>5, <1>6 DEF IInv

LEMMA ServeInv == IInv /\ Serve => IInv'
<1> SUFFICES ASSUME IInv, Serve
             PROVE  IInv'
  OBVIOUS
<1>1. /\ pc = "opening" /\ Next1 > Len(lps) /\ pc' = "serving"
      /\ UNCHANGED <<file, caches, lps, services, held, failed, edited>>
  BY DEF Serve
<1>2. Len(services) = Len(lps) /\ held = Opened(Len(lps)) /\ failed = None
  BY <1>1, OpeningFacts DEF Next1
<1>3. Phases'
  BY <1>1, <1>2 DEF Phases, Opened
<1>4. QED
  BY <1>1, <1>3 DEF IInv, TypeOK, HeldOK, ReadOK, CachesOK, Started, Settings

LEMMA KillInv == IInv /\ Kill => IInv'
BY DEF Kill, IInv, TypeOK, HeldOK, Phases, ReadOK, CachesOK, Started, Settings

LEMMA EditInv == IInv /\ Edit => IInv'
<1> SUFFICES ASSUME IInv, Edit
             PROVE  IInv'
  OBVIOUS
<1>1. /\ file' \in Files \cup {Unreadable} /\ edited' = (edited \/ pc = "layers")
      /\ UNCHANGED <<pc, caches, lps, services, held, failed>>
  BY DEF Edit
<1>2. TypeOK'
  BY <1>1 DEF IInv, TypeOK
<1>3. Phases' /\ ReadOK'
  BY <1>1 DEF IInv, Phases, ReadOK, Opened, Disabled, Started, Settings
<1>4. QED
  BY <1>1, <1>2, <1>3 DEF IInv, HeldOK, CachesOK

LEMMA NextInv == IInv /\ [Next]_vars => IInv'
<1> SUFFICES ASSUME IInv, [Next]_vars
             PROVE  IInv'
  OBVIOUS
<1>1. CASE CreateDisabled
  BY <1>1, AppendInv DEF CreateDisabled
<1>2. CASE CreateService
  BY <1>2, AppendInv DEF CreateService
<1>3. CASE UNCHANGED vars
  BY <1>3 DEF vars, IInv, TypeOK, HeldOK, Phases, ReadOK, CachesOK, Opened, Disabled, Started, Settings
<1>4. QED
  BY <1>1, <1>2, <1>3, StartInv, CachesReadInv, LayersReadInv, FailInv, ServeInv, KillInv, EditInv
     DEF Next

LEMMA Invariant == Spec => []IInv
<1>1. QED
  BY InitInv, NextInv, PTL DEF Spec

-----------------------------------------------------------------------------
(* The theorems *)

\* The start keeps to its types: no unknown mode gets past the validation.
THEOREM TypeCorrect == Spec => []TypeOK
<1>1. IInv => TypeOK
  BY DEF IInv
<1>2. QED
  BY <1>1, Invariant, PTL

\* A file that was not edited between its readings leaves each cache with one
\* setting per layer served: IsLevelEnabled has no error (cache_service.go:183).
THEOREM EveryLevelIsConfigured == Spec => []LevelsConfigured
<1>1. ASSUME IInv
      PROVE  LevelsConfigured
  <2> SUFFICES ASSUME pc = "serving", ~edited, NEW c \in DOMAIN caches
               PROVE  /\ \A l \in 1 .. Len(lps) : IsLevelEnabled(c, l) # "error"
                      /\ DOMAIN caches[c].layers = 1 .. Len(lps)
    BY DEF LevelsConfigured
  <2>1. Len(caches[c].layers) = Len(lps)
    BY <1>1 DEF IInv, ReadOK, Started, Settings
  <2>2. DOMAIN caches[c].layers = 1 .. Len(caches[c].layers)
    BY <1>1, FilesAssumption DEF IInv, CachesOK
  <2>3. QED
    BY <2>1, <2>2 DEF IsLevelEnabled
<1>2. QED
  BY <1>1, Invariant, PTL

\* No two layers served share a provider or a RocksDB directory.
THEOREM LayersStandApart == Spec => []LayersAreApart
<1>1. ASSUME IInv, pc = "serving", NEW k \in held, NEW l \in held, k # l
      PROVE  lps[k].provider.name # lps[l].provider.name
  <2>1. k \in 1 .. Len(lps) /\ l \in 1 .. Len(lps)
    BY <1>1 DEF IInv, TypeOK
  <2>2. lps # <<>>
    BY <2>1
  <2>3. QED
    BY <1>1, <2>1, <2>2 DEF IInv, ReadOK, LayersOK
<1>2. IInv => LayersAreApart
  BY <1>1 DEF IInv, HeldOK, LayersAreApart
<1>3. QED
  BY <1>2, Invariant, PTL

\* Only a Redis or a RocksDB that cannot be opened makes the service run
\* without its layers (factory.go:28).
THEOREM LayersGoByFailureOnly == Spec => []LayerlessByFailure
<1>1. IInv => LayerlessByFailure
  BY DEF IInv, Phases, LayerlessByFailure
<1>2. QED
  BY <1>1, Invariant, PTL

\* The providers held open are those of the layers served, or, after a failed
\* start, of the enabled layers before the one that failed (service.go:66).
THEOREM HeldAreTheServed == Spec => []HeldAreServed
<1>1. ASSUME IInv, pc = "serving"
      PROVE  held = {l \in 1 .. Len(lps) : lps[l].mode # "disabled" /\ (failed # None => l < failed)}
  <2>1. CASE failed = None
    BY <1>1, <2>1 DEF IInv, Phases, Opened
  <2>2. CASE failed # None
    <3>1. failed \in 1 .. Len(lps) /\ held = Opened(failed - 1) /\ Len(lps) \in Nat
      BY <1>1, <2>2, TypeParts DEF IInv, Phases, LpsPart
    <3>2. \A l \in 1 .. Len(lps) : l \in 1 .. (failed - 1) <=> l < failed
      BY <3>1
    <3>3. 1 .. (failed - 1) \subseteq 1 .. Len(lps)
      BY <3>1
    <3>4. QED
      BY <2>2, <3>1, <3>2, <3>3 DEF Opened
  <2>3. QED
    BY <2>1, <2>2
<1>2. IInv => HeldAreServed
  BY <1>1 DEF HeldAreServed
<1>3. QED
  BY <1>2, Invariant, PTL
=============================================================================
