SPECIFICATION Spec
CONSTANTS
    Names = {a}
    Ids = {i1, i2}
    Secrets = {s1, s2, s3}
    Executors = {e1, e2}
    Requests = {r1}
    Entries = {d1, d2}
    Workload = {"register", "fetch", "remove", "add", "delete", "list"}
    Kafka = FALSE
    KafkaFails = FALSE
    SpareExecutor = FALSE
    Null = Null
    Wrong = Wrong
SYMMETRY Symmetry
CHECK_DEADLOCK FALSE
INVARIANTS IInv TimerRegistered 
PROPERTIES IncarnationStable  IsRegistry
