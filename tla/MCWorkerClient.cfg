SPECIFICATION FairSpec
CONSTANTS
    Pool = {t1, t2}
    Asio = Asio
    Caller = {Asio}
    None = None
    MaxTasks = 3
    MaxPolls = 2
INVARIANTS InOrder NoLostWakeup GracefulStop OldestFirst NoNullConnection PoolOutlivesMessages AnswersExact
PROPERTIES WorkerEnds TaskAnswered
CHECK_DEADLOCK FALSE
