\* Overlapping migrations, each run again and again.
CONSTANTS
    Clients = {c1, c2}
    Docs <- MCDocs
    DocOrder <- MCOrder
    Package <- MCPackage
    MediaDocs = {"sonarr"}
    Stacks <- OneOfEach
    MayRun <- MigrationsOnly
SPECIFICATION FairSpec
PROPERTIES
    Converges
