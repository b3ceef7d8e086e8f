SPECIFICATION SellerSpec
CONSTANTS
    lt = lt
    lv = lv
    Countries = {lt, lv}
    MaxImages = 2
    MaxFiles = 3
    MaxPosts = 2
    MaxPages = 2
    MaxActs = 3
SYMMETRY CountrySymmetry
INVARIANTS
    SellerPagesInv
    UploadedIsHeld
    SubmittedIsValid
CHECK_DEADLOCK FALSE
