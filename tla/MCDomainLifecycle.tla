------------------------- MODULE MCDomainLifecycle -------------------------
EXTENDS DomainLifecycle

MCAggregates == 1 .. 2

\* No adapter, one of the application's own that stores states only, and what the adapters
\* of the repository offer: with and without a locker, optional stores, dedicated tables.
MCAdapters ==
    {NoAdapter, [parts |-> {"uow", "ss", "init", "close"}, tables |-> {}]}
        \cup DrizzleAdapter("pg", MCAggregates) \cup DrizzleAdapter("unknown", {1})
        \cup createDrizzleAdapter({}, {1}) \cup createDrizzleAdapter({"snapshots"}, {})
        \cup PrismaAdapter(TRUE, {1}) \cup createPrismaAdapter({"outbox"}, {1, 2}, {1})
        \cup TypeORMAdapter("mssql", MCAggregates) \cup TypeORMAdapter("sqlite", {})
        \cup createTypeORMAdapter({"snapshots"}, {2})
=============================================================================
