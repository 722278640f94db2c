SPECIFICATION FairSpec
CONSTANTS
    Names = {a}
    Ids = {i1, i2}
    Secrets = {s1, s2, s3, s4}
    Executors = {e1, e2}
    Requests = {r1}
    Entries = {d1}
    Workload = {"register", "fetch", "remove"}
    Kafka = FALSE
    KafkaFails = FALSE
    SpareExecutor = TRUE
    Null = Null
    Wrong = Wrong
CHECK_DEADLOCK FALSE
PROPERTIES TimedSessionExpires
