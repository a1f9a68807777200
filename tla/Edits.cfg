\* Every script, cut short anywhere, beside another and a user who edits and deletes.
CONSTANTS
    Clients = {c1, c2}
    Docs <- MCDocs
    DocOrder <- MCOrder
    Package <- MCPackage
    MediaDocs = {"sonarr"}
    Stacks <- EachKind
    MayRun <- AnyJob
SPECIFICATION Spec
SYMMETRY ClientSymmetry
INVARIANTS
    TypeOK
    DoneMeansMigrated
PROPERTIES
    KeepsOthersSettings
