SPECIFICATION FairSpec
CONSTANTS
    Kinds <- BothKinds
    Appliances <- MCAppliances
    Volatile = {"route", "bssid", "online"}
INVARIANTS OkWasTrue
PROPERTIES ChangesShow
