SPECIFICATION Spec
CONSTANTS
    Order = {o1,o2}
    Item = {}
    Offer = {}
    Request = {r1,r2}
    Kind = "product"
    Provider <- OneStripe
    Op = {"create","pay","settled","confirm","checkout"}
    Price = 3
    OtherPrice = 2
    OfferPrice = 1
    Share = 1
    ItemPrice = 2
    MaxIntent = 1
    NoItem = NoItem
    NoOffer = NoOffer
    None = None
SYMMETRY Symmetry
CHECK_DEADLOCK FALSE
PROPERTY SoldOnce
