SPECIFICATION Spec
CONSTANTS
    Providers <- MCProviders
    Layers <- MCLayers
    Caches <- MCCachesAll
    Files <- MCFiles
    Unreadable = Unreadable
INVARIANTS TypeOK LevelsConfigured LayersAreApart LayerlessByFailure HeldAreServed
