------------------------------- MODULE Ordering -------------------------------
(***************************************************************************)
(* deploy/ordering.rs: the static order of item types, the dependency tiers *)
(* cut out of it, and the order of deletes.  Item types are their canonical *)
(* names; the code compares them without case.                              *)
(***************************************************************************)
EXTENDS Integers, Sequences

DEPLOY_ORDER == <<
    "VariableLibrary", "Warehouse", "WarehouseSnapshot", "MirroredDatabase",
    "MirroredAzureDatabricksCatalog", "MirroredGoogleLakehouseRuntimeCatalog",
    "AzureDatabricksStorage", "Lakehouse", "SQLDatabase", "CosmosDbDatabase",
    "SnowflakeDatabase", "Environment", "UserDataFunction", "Eventhouse",
    "SparkJobDefinition", "Notebook", "SemanticModel", "Report",
    "PaginatedReport", "Dashboard", "CopyJob", "DataBuildToolJob",
    "KQLDatabase", "KQLQueryset", "Dataflow", "DataPipeline", "Reflex",
    "Eventstream", "EventSchemaSet", "KQLDashboard", "GraphQLApi",
    "ApacheAirflowJob", "MountedDataFactory", "OperationsAgent", "Monitoring",
    "AnomalyDetector", "Ontology", "GraphModel", "GraphQuerySet",
    "DigitalTwinBuilder", "DigitalTwinBuilderFlow", "DataAgent",
    "MLExperiment", "MLModel", "Map", "Plan", "DeploymentPlan", "PolicySet",
    "Connection", "OrgApp", "OrgAppAudience" >>

NTypes == 51

\* Position in the list, from 0; a type that is not listed goes last.
DeployPriority(type) ==
    IF \E k \in 1 .. NTypes : DEPLOY_ORDER[k] = type
    THEN (CHOOSE k \in 1 .. NTypes : DEPLOY_ORDER[k] = type) - 1
    ELSE NTypes

\* The tier of a priority.
TierOf(priority) ==
    CASE priority \in 0 .. 10  -> 0
      [] priority \in 11 .. 13 -> 1
      [] priority \in 14 .. 15 -> 2
      [] priority = 16         -> 3
      [] priority \in 17 .. 22 -> 4
      [] priority \in 23 .. 29 -> 5
      [] priority \in 30 .. 32 -> 6
      [] priority \in 33 .. 35 -> 7
      [] priority = 36         -> 8
      [] priority \in 37 .. 40 -> 9
      [] priority = 41         -> 10
      [] priority = 42         -> 11
      [] OTHER                 -> 12

DeployTier(type) == TierOf(DeployPriority(type))

\* saturating_sub of two lengths that cannot underflow.
DeletePriority(type) == NTypes - DeployPriority(type)
=============================================================================
