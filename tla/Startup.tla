------------------------------ MODULE Startup -------------------------------
(***************************************************************************)
(* How the process comes to serve: cmd/main.go reads the configuration     *)
(* file twice, once for the caches (CreateCacheService) and once for the   *)
(* providers and layers (CreateLayersCacheController), each time decoding  *)
(* and validating it, opens the providers of the layers in order and       *)
(* listens.  The file may be edited at any time, a provider may refuse to  *)
(* open, and the process may be killed and started again.                  *)
(***************************************************************************)
EXTENDS Integers, Sequences, FiniteSets

CONSTANTS
    Providers, Layers, Caches,  \* the entries a file may list
    Files,       \* files: sequences of providers, of layers and of caches
    Unreadable   \* a file that is missing, is not YAML or has an unknown type

NotASize == -1  \* text that is not a size for humanize.ParseBytes
NoSize   == -2  \* the empty string where a size is optional
None     == 0   \* no level

ASSUME FilesAssumption ==
    /\ Files \subseteq [providers : Seq(Providers), layers : Seq(Layers), caches : Seq(Caches)]
    /\ Unreadable \notin Files
    /\ \A c \in Caches : Len(c.layers) \in Nat /\ DOMAIN c.layers = 1 .. Len(c.layers)

VARIABLES
    file,      \* the configuration file
    pc,        \* "down", "caches", "layers", "opening" a layer, "serving"
    caches,    \* CacheService: cache name -> configuration of the cache
    lps,       \* LayerProviders: the mode and the provider of each layer
    services,  \* the services of the layers, none where the layer is disabled
    held,      \* levels whose provider this process has opened
    failed,    \* history: the level whose provider could not be opened
    edited     \* history: the file changed between the two readings

vars == <<file, pc, caches, lps, services, held, failed, edited>>

-----------------------------------------------------------------------------
(* Validation (model.go) *)

NamesDiffer(s) == \A i, j \in DOMAIN s : s[i].name = s[j].name => i = j
PrefixesOnce(s) == \A i, j \in DOMAIN s : s[i].prefix = s[j].prefix => i = j

\* Mutant: bufferItems is not looked at.
ValidRistrettoUnbuffered(p) ==
    p.numCounters > 0 /\ p.maxCost > 0 /\ p.defaultTTL >= 0

ValidRistretto(p) ==
    p.numCounters > 0 /\ p.bufferItems > 0 /\ p.maxCost > 0 /\ p.defaultTTL >= 0

ValidRedis(p) ==
    p.host # "" /\ p.port \in 1 .. 65535 /\ p.poolSize > 0 /\ p.timeout > 0

\* pathIs: what is at the path, "db" a directory with a database, "dir" another
\* directory, "file" or "nothing".  Without createIfMissing os.Stat has to find a
\* directory, with it nobody looks.
ValidRocksDB(p) ==
    /\ p.path # "" /\ p.maxOpenFiles > 0
    /\ p.createIfMissing \/ p.pathIs \in {"db", "dir"}
    /\ \A s \in {p.blockSize, p.blockCache, p.writeBufferSize} :
          s # NotASize /\ (s = NoSize => p.createIfMissing)

\* A provider without a type decodes to Unknown and falls to the default case.
ValidProviders(f) ==
    /\ NamesDiffer(f.providers)
    /\ \A i \in DOMAIN f.providers :
          LET p == f.providers[i]
          IN  /\ p.name # ""
              /\ \/ p.type = "ristretto" /\ ValidRistretto(p)
                 \/ p.type = "redis"     /\ ValidRedis(p)
                 \/ p.type = "rocksdb"   /\ ValidRocksDB(p)

\* Mutant: the mode is taken as it is written.
ModeAsWritten(l) == l.mode

\* LayerMode.UnmarshalYAML runs on what is written: a mode that is left out
\* stays empty, passes for valid and enables the layer.
Mode(l) == IF l.mode \in {"enabled", "disabled", "left out"} THEN l.mode ELSE "unknown"

\* Mutant: layers may share a name, and with it a provider.
ValidLayersAnyName(f) ==
    \A i \in DOMAIN f.layers :
        /\ f.layers[i].name # "" /\ Mode(f.layers[i]) # "unknown"
        /\ \E j \in DOMAIN f.providers : f.providers[j].name = f.layers[i].name

ValidLayers(f) ==
    /\ NamesDiffer(f.layers)
    /\ \A i \in DOMAIN f.layers :
          /\ f.layers[i].name # "" /\ Mode(f.layers[i]) # "unknown"
          /\ \E j \in DOMAIN f.providers : f.providers[j].name = f.layers[i].name

\* url: what kind of text it is, "http" for http or https with a host.
ValidApi(a) ==
    a.enabled => /\ a.prop # "" /\ a.keyType \in {"string", "number"}
                 /\ a.url = "http" /\ a.timeout > 0

ValidCache(c) ==
    /\ c.name # "" /\ c.prefix # ""
    /\ \A j \in DOMAIN c.layers : c.layers[j].enabled => c.layers[j].ttl >= 0
    /\ ValidApi(c.api)

\* Mutant: a cache may say less than one setting per layer.
ValidCachesFewer(f) ==
    /\ NamesDiffer(f.caches) /\ PrefixesOnce(f.caches)
    /\ \A i \in DOMAIN f.caches :
          ValidCache(f.caches[i]) /\ Len(f.caches[i].layers) <= Len(f.layers)

ValidCaches(f) ==
    /\ NamesDiffer(f.caches) /\ PrefixesOnce(f.caches)
    /\ \A i \in DOMAIN f.caches :
          ValidCache(f.caches[i]) /\ Len(f.caches[i].layers) = Len(f.layers)

\* LoadAppConfig returns no error.
Loads(f) == f # Unreadable /\ ValidProviders(f) /\ ValidLayers(f) /\ ValidCaches(f)

-----------------------------------------------------------------------------
(* What is made of a file *)

\* NewCacheService and providersToMap: the last entry with a name stays.
Named(s, n) == s[CHOOSE i \in DOMAIN s :
                    s[i].name = n /\ \A j \in DOMAIN s : s[j].name = n => j <= i]

CacheService(f) == [n \in {f.caches[i].name : i \in DOMAIN f.caches} |-> Named(f.caches, n)]

LayerProviders(f) ==
    [l \in 1 .. Len(f.layers) |->
        [mode |-> Mode(f.layers[l]), provider |-> Named(f.providers, f.layers[l].name)]]

\* IsLevelEnabled of a configured cache, with the error of getLevel.
IsLevelEnabled(c, l) ==
    IF l \notin DOMAIN caches[c].layers THEN "error"
    ELSE IF caches[c].layers[l].enabled THEN "yes" ELSE "no"

-----------------------------------------------------------------------------
(* The process *)

Init ==
    /\ file \in Files
    /\ pc = "down"
    /\ caches = <<>> /\ lps = <<>> /\ services = <<>>
    /\ held = {} /\ failed = None
    /\ edited = FALSE

Start ==
    /\ pc = "down"
    /\ pc' = "caches"
    /\ caches' = <<>> /\ lps' = <<>> /\ services' = <<>>
    /\ held' = {} /\ failed' = None /\ edited' = FALSE
    /\ UNCHANGED file

\* Without a configuration NewCacheService panics and the process ends.
CreateCacheService ==
    /\ pc = "caches"
    /\ IF Loads(file) THEN pc' = "layers" /\ caches' = CacheService(file)
                      ELSE pc' = "down" /\ UNCHANGED caches
    /\ UNCHANGED <<file, lps, services, held, failed, edited>>

\* The second reading; here the nil configuration is dereferenced.
NewLayerProviderService ==
    /\ pc = "layers"
    /\ IF Loads(file) THEN pc' = "opening" /\ lps' = LayerProviders(file)
                      ELSE pc' = "down" /\ UNCHANGED lps
    /\ UNCHANGED <<file, caches, services, held, failed, edited>>

Next1 == Len(services) + 1

\* Mutant: createService does not look at the mode.
DisabledIgnored(l) == FALSE

Disabled(l) == lps[l].mode = "disabled"

CreateDisabled ==
    /\ pc = "opening" /\ Next1 <= Len(lps) /\ Disabled(Next1)
    /\ services' = Append(services, "disabled")
    /\ UNCHANGED <<file, pc, caches, lps, held, failed, edited>>

\* NewRistretto opens whatever ristretto.NewCache takes; Redis has to answer a
\* ping; a RocksDB is a directory with one opener at a time, and one that holds no
\* database is opened only to create it.
MayOpen(l) ==
    LET p == lps[l].provider
    IN  /\ p.type = "ristretto" => p.numCounters # 0 /\ p.maxCost # 0 /\ p.bufferItems # 0
        /\ p.type = "rocksdb" =>
              /\ p.pathIs # "file" /\ (p.createIfMissing \/ p.pathIs = "db")
              /\ \A k \in held : LET q == lps[k].provider
                                 IN  q.type = "rocksdb" => q.path # p.path

MayFail(l) == lps[l].provider.type # "ristretto" \/ ~MayOpen(l)

CreateService ==
    /\ pc = "opening" /\ Next1 <= Len(lps) /\ ~Disabled(Next1) /\ MayOpen(Next1)
    /\ services' = Append(services, "enabled")
    /\ held' = held \cup {Next1}
    /\ UNCHANGED <<file, pc, caches, lps, failed, edited>>

\* CreateNewServiceList returns no list at all, and what it has opened stays
\* open; CreateLayersCacheController logs the error and goes on.
CreateServiceFails ==
    /\ pc = "opening" /\ Next1 <= Len(lps) /\ ~Disabled(Next1) /\ MayFail(Next1)
    /\ services' = <<>>
    /\ failed' = Next1
    /\ pc' = "serving"
    /\ UNCHANGED <<file, caches, lps, held, edited>>

Serve ==
    /\ pc = "opening" /\ Next1 > Len(lps)
    /\ pc' = "serving"
    /\ UNCHANGED <<file, caches, lps, services, held, failed, edited>>

Kill ==
    /\ pc # "down"
    /\ pc' = "down" /\ held' = {}
    /\ UNCHANGED <<file, caches, lps, services, failed, edited>>

Edit ==
    /\ \E f \in (Files \cup {Unreadable}) \ {file} : file' = f
    /\ edited' = (edited \/ pc = "layers")
    /\ UNCHANGED <<pc, caches, lps, services, held, failed>>

Next ==
    \/ Start \/ CreateCacheService \/ NewLayerProviderService
    \/ CreateDisabled \/ CreateService \/ CreateServiceFails \/ Serve
    \/ Kill \/ Edit

Spec == Init /\ [][Next]_vars

-----------------------------------------------------------------------------
(* Properties *)

TypeOK ==
    /\ file \in Files \cup {Unreadable}
    /\ pc \in {"down", "caches", "layers", "opening", "serving"}
    /\ \A n \in DOMAIN caches : caches[n] \in Caches
    /\ lps \in Seq([mode : {"enabled", "disabled", "left out"}, provider : Providers])
    /\ services \in Seq({"enabled", "disabled"}) /\ Len(services) <= Len(lps)
    /\ held \subseteq 1 .. Len(lps)
    /\ failed \in 0 .. Len(lps)
    /\ edited \in BOOLEAN

\* While the service serves, each cache has a setting for each of its layers
\* and for no other, so that IsLevelEnabled has no error (an id with one is
\* neither hit, miss nor skipped, service.go:199) -- unless the file was edited
\* between the two readings.
LevelsConfigured ==
    pc = "serving" /\ ~edited =>
        \A c \in DOMAIN caches :
            /\ \A l \in 1 .. Len(lps) : IsLevelEnabled(c, l) # "error"
            /\ DOMAIN caches[c].layers = 1 .. Len(lps)

\* No two layers that serve stand on one provider, nor on one RocksDB
\* directory: what is written to one of them is not the content of another.
LayersAreApart ==
    pc = "serving" =>
        \A k, l \in held :
            k # l => LET p == lps[k].provider  q == lps[l].provider
                     IN  /\ p.name # q.name
                         /\ p.type = "rocksdb" /\ q.type = "rocksdb" => p.path # q.path

\* A configuration with layers is served with all of them or with none, and with
\* none only when the provider of an enabled layer could not be opened: a Redis
\* that does not answer, or a RocksDB whose directory is locked, is a file or
\* holds no database, none of which validation rules out (model.go:117).  A
\* Ristretto that passed it always opens (factory.go:28, service.go:66).
LayerlessByFailure ==
    pc = "serving" /\ Len(services) # Len(lps) =>
        /\ services = <<>> /\ failed # None
        /\ ~Disabled(failed) /\ lps[failed].provider.type \in {"redis", "rocksdb"}

\* What the process holds open is what it serves; only a failed start holds
\* providers that no layer uses, those of the enabled layers before the failed.
HeldAreServed ==
    pc = "serving" =>
        held = {l \in 1 .. Len(lps) : lps[l].mode # "disabled" /\ (failed # None => l < failed)}
=============================================================================
