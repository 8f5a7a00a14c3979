CONSTANTS
    t1 = t1
    t2 = t2
    t3 = t3
    r1 = r1
    r2 = r2
    r3 = r3
    s1 = s1
    w1 = w1
    w2 = w2
    Setups <- Both
    Requests = {r1, r2, r3}
    Txs = {t1, t2, t3}
    Signers = {s1}
    SignerOf <- OneSigner
    WorkerSeq <- TwoWorkers
    WorkerOf <- Hash
    BatchMaxSize = 2
SPECIFICATION FairSpec
INVARIANTS
    PersistenceTypeOK
    NonceUnique
    NoNonceGap
    RepliesTrue
    CompletionsNotMissed
PROPERTIES
    BatchIsOneByOne
    ReaderCatchesUp
    InsertsAnswered
CHECK_DEADLOCK FALSE
