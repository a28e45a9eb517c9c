CONSTANTS
    x1 = x1
    x2 = x2
    x3 = x3
    g1 = g1
    g2 = g2
    r1 = r1
    r2 = r2
    Null = Null
    Posts = {x1, x2, x3}
    Publishers = {g1, g2}
    Responses = {r1, r2}
    Feeds <- MCFeeds
    MaxPosts = 2
SPECIFICATION Spec
CHECK_DEADLOCK FALSE
INVARIANTS TypeOK NothingHeardIsLost EachPostOnce SummaryAddsUp
