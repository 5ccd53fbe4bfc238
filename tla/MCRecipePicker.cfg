SPECIFICATION McSpec
CONSTANTS
  NoData = NoData
  Titles = {"pie", "ramen"}
  First <- McFirst
  Cuisine <- McCuisine
  Tags <- McTags
  Controls = {"query", "amount"}
  Others = {"delete"}
  MaxPosts = 1
  MaxFaults = 0
INVARIANT ListsAreWhatWasSeen
INVARIANT GoneIsTrue
