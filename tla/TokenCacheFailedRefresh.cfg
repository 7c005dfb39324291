CONSTANTS
    Threads = {t1}
    Tokens = {aliceToken}
    Credentials = {alice}
    Entries = {e1, e2, e3}
    CacheDuration = 1
    NoEntry = NoEntry
    NoToken = NoToken
    aliceToken = aliceToken
    bobToken = bobToken
    alice = alice
    bob = bob
    Bearer <- MCBearer
SPECIFICATION Spec
PROPERTIES
    FailedRefreshServesCached
