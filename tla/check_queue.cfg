SPECIFICATION Spec
CONSTANTS
    Workers = {w1, w2}
    Masters = {import}
    Importers = {import}
    NoMaster = nobody
    Checks = {good1, good2, good3, bad}
    Valid = {good1, good2, good3}
    BatchSize = 2
INVARIANTS VerdictExact NothingLeftRunning PoolOrderly
PROPERTIES
    AlwaysAnswers
    ImplementsVerdict
