SPECIFICATION Spec
CONSTANTS
    Order = {o1,o2}
    Item = {i1,i2}
    Offer = {}
    Request = {r1,r2}
    Kind = "bundle"
    Provider <- OneStripe
    Op = {"create","settled","return","cancel","checkout"}
    Price = 3
    OtherPrice = 2
    OfferPrice = 1
    Share = 1
    ItemPrice = 2
    MaxIntent = 1
    NoItem = NoItem
    NoOffer = NoOffer
    None = None
SYMMETRY Symmetry
CHECK_DEADLOCK FALSE
INVARIANTS TypeOK FulfilledWasPaid
PROPERTY SoldOnce
