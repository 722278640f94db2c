SPECIFICATION FairSpec
CONSTANTS
    Names = {a}
    Ids = {i1}
    Secrets = {s1, s2, s3, s4}
    Executors = {e1, e2}
    Requests = {r1}
    Entries = {d1}
    Workload = {"register", "fetch"}
    Kafka = FALSE
    KafkaFails = FALSE
    SpareExecutor = FALSE
    Null = Null
    Wrong = Wrong
PROPERTIES SilentSessionExpires
