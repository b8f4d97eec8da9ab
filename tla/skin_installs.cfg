SPECIFICATION Spec
CONSTANTS
    p = p q = q bad = bad a = a b = b toml = toml css = css
    Job = {j, k}
    Package <- Packages
    Id = {a, b}
    Staging = staging
    Name = {toml, css}
    Manifest = toml
    Entries <- EntriesOf
    SkinId <- IdOf
    Valid = {p, q}
    Unpacked = {p, q, bad}
    Absolute = {bad}
    Dotted = {q}
    NoDir = NoDir
    NoPackage = NoPackage
    NoFile = NoFile
    NoPlace = NoPlace
INVARIANTS TypeOK InstalledAsAsked
PROPERTIES InstalledIsKept LeftoversAreHarmless
SYMMETRY AnyJob
