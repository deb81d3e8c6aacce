\* One watched source, one outside the roots, and the manifest; a request may pin old code.
CONSTANTS
    App = app
    Names = {app}
    Clients = {w, r}
    Coordinators = {w}
    Watcher = w
    NoOne = NoOne
    Capacity = 1
    RetiredLimit = 0
    MaxRevision = 9
    Sources = {src, toml}
    Watched = {src}
    Manifest = manifest
    Broken = {1}
    MaxEdits = 2
SPECIFICATION DevSpec
INVARIANTS
    NoMixedBuild
PROPERTIES
    PolicyBarrier
    EditsSettle
CHECK_DEADLOCK FALSE
