-------------------------- MODULE MCModuleLifecycle --------------------------
EXTENDS DriverAudit

DriverNames == DOMAIN AllTables

AllResources ==
  UNION {{AllTables[d].init[i].acq : i \in DOMAIN AllTables[d].init} : d \in DriverNames}

\* Initialised or looked up: nothing to give back.
SoftResources == {"lock", "mutex", "sem", "wq", "work", "node", "irqno", "res0",
                  "res1", "client"}
=============================================================================
