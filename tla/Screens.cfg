SPECIFICATION FairSpec
CONSTANTS
    u1 = u1
    u2 = u2
    Users = {u1, u2}
    Terms = {{}, {u1}, {u1, u2}}
    MaxSearches = 4
    MaxPosts = 2
    MaxFetches = 4
    Elements = {m1, m2}
    MaxElements = 2
    MaxPuts = 2
    MaxAppearances = 2
    MaxTexts = 3
    MaxPictures = 3
    MaxSeconds = 2
INVARIANT ScreensTypeOK
INVARIANT VisibleRowsExist
INVARIANT RowsAreTheFeed
INVARIANT RowsStandForElements
INVARIANT PictureIsItsOwn
PROPERTY ScreenGoesForward
PROPERTY ScreensSettle
\* searches, fetches, puts, appearances and presses run out
CHECK_DEADLOCK FALSE
