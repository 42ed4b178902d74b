SPECIFICATION FairSpec
CONSTANTS
    s1 = s1
    s2 = s2
    None = None
    SEs = {s1, s2}
    MaxChanges = 2
    MaxFaults = 1
PROPERTIES RowsOfRequests PublicationFollows EndpointsFollow
