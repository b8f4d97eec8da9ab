SPECIFICATION Spec
CONSTANTS
    p = p q = q bad = bad a = a b = b toml = toml css = css
    Job = {j}
    Package <- Packages
    Id = {a, b}
    Staging = staging
    Name = {toml, css}
    Manifest = toml
    Entries <- EntriesOf
    SkinId <- IdOf
    Valid = {p, q}
    Unpacked = {}
    Absolute = {p, q, staging}
    Dotted = {}
    NoDir = NoDir
    NoPackage = NoPackage
    NoFile = NoFile
    NoPlace = NoPlace
PROPERTY ValidPackageIsInstalled
