CONSTANTS
    r1 = r1  r2 = r2  t1 = t1  t2 = t2  a1 = a1
    Reqs = {r1, r2}
    Txs = {t1, t2}
    Accounts = {a1}
    Submissions <- MCSubmissions
    AcctOf <- MCAcctOf
    SeqOf <- MCSeqOf
    Sizes = {1, 2}
    MaxFaults = 1
SPECIFICATION FairSpec
INVARIANTS TypeOK AnsweredOnce NoLostWaiter AnswersAreTrue
PROPERTIES GrantedInOrder EveryoneAnswered RoomComesBack
