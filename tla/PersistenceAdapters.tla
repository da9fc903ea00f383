------------------------ MODULE PersistenceAdapters ------------------------
(***************************************************************************)
(* What a PersistenceAdapter offers to Domain.init(), for the three        *)
(* adapters of the repository and their two ways of construction.  An      *)
(* adapter is the set of optional members it has and the aggregates for    *)
(* which it can hand out a dedicated state table.  A constructor is the    *)
(* set of adapters a call can return, empty when the call throws.          *)
(***************************************************************************)

Parts == {"uow", "es", "ss", "sagas", "snapshots", "outbox", "locker", "reader", "init",
          "close"}

\* The wiring of a domain without a persistenceAdapter.
NoAdapter == [parts |-> {}, tables |-> {}]

isPersistenceAdapter(adapter) == "uow" \in adapter.parts

\* The stores every constructor creates, whatever it is given.
Always == {"uow", "es", "sagas", "reader"}

Adapter(parts, tables) == [parts |-> Always \cup parts, tables |-> tables]

\* Drizzle does not own the connection: close() does nothing, but is called. A pooled
\* connection cannot hold session locks, so there is never a locker.
inferDialect(name) == {"pg", "mysql", "sqlite"} \cap {name}

DrizzleAdapter(dialect, tables) ==
    {Adapter({"ss", "snapshots", "outbox", "close"}, tables) : d \in inferDialect(dialect)}

\* config is the optional stores that are configured; an unknown dialect is not an error.
createDrizzleAdapter(config, tables) ==
    {Adapter(config \cap {"ss", "snapshots", "outbox"}, tables)}

\* stateStored(model) throws for a model the client lacks: models are the only tables.
PrismaAdapter(dialectGiven, models) ==
    {Adapter({"ss", "snapshots", "outbox", "close"}
                 \cup (IF dialectGiven THEN {"locker"} ELSE {}), models)}

createPrismaAdapter(config, tables, models) ==
    IF tables \subseteq models
    THEN {Adapter({"ss"} \cup (config \cap {"snapshots", "outbox"}), tables)}
    ELSE {}

\* ADVISORY_LOCK_TYPES
TypeORMAdapter(dbType, tables) ==
    {Adapter({"ss", "snapshots", "outbox", "close"}
                 \cup (IF dbType \in {"postgres", "mysql", "mariadb", "mssql"}
                       THEN {"locker"} ELSE {}), tables)}

createTypeORMAdapter(config, tables) ==
    {Adapter({"ss"} \cup (config \cap {"snapshots", "outbox"}), tables)}

\* stateStoreFor(name), stateStored(table): whether a dedicated store is returned.
HasTable(adapter, aggregate) == aggregate \in adapter.tables
=============================================================================
