CONSTANTS
    LinkSlugs <- LinkPages
    Listing <- Alphabetical
    Phrases = {"Graph Theory", "Node"}
    Matches <- Titled
    Unwritten = Unwritten
    Unlinked = Unlinked
    MaxRuns = 2
SPECIFICATION LinksSpec
PROPERTY OutboundLinked
CHECK_DEADLOCK FALSE
