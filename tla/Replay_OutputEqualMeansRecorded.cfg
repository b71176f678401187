SPECIFICATION ReplaySpec
CONSTANTS
    b1 = b1
    b2 = b2
    b3 = b3
    b4 = b4
    Blocks = {b1, b2, b3, b4}
    IdOrder <- MCIdOrder
    Scores = {30, 60, 61}
    Sizes = {2, 5}
    Similarity <- MCSimilarity
    Lambda = 70
    TopK = 3
    Budgets <- MCBudgets
    Heading = 4
    Bullet = 1
INVARIANT OutputEqualMeansRecorded
CHECK_DEADLOCK FALSE
