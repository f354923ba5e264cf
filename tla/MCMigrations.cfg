CONSTANTS
  Processes = {p1, p2}
  Tables = 3
  Threads = {t1, t2}
  MaxFailures = 2
SPECIFICATION MigrationsFairSpec
INVARIANTS SchemaMatchesVersions OpenIsMigrated
PROPERTIES Reopens
