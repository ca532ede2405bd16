SPECIFICATION FairSpec
CONSTANTS
    Order = {o1,o2}
    Item = {}
    Offer = {}
    Request = {r1}
    Kind = "product"
    Provider <- OneStripe
    Op = {"create","settled","checkout","deactivate","activate","reprice","update","adjust","complete"}
    Price = 3
    OtherPrice = 2
    OfferPrice = 1
    Share = 1
    ItemPrice = 2
    MaxIntent = 1
    NoItem = NoItem
    NoOffer = NoOffer
    None = None
CHECK_DEADLOCK FALSE
PROPERTIES PaidOrderDecided SoldNotOffered
